---------------------------- MODULE Framing_proofs ----------------------------
(***************************************************************************)
(* Proofs about Framing: that frames come out of a stream as they went in, *)
(* for every base, length of the prefix, set of payloads and way to call   *)
(* the proxy.                                                              *)
(***************************************************************************)
EXTENDS Framing, SequenceTheorems, InductionLemmas

-----------------------------------------------------------------------------
(* struct ">Q".                                                            *)

\* The weight of a digit is BASE times that of the digit after it.
LEMMA Weights ==
    /\ Weight[0] = 1
    /\ \A n \in Nat : Weight[n] \in Nat /\ Weight[n] > 0 /\ Weight[n + 1] = BASE * Weight[n]
<1>0. BASE \in Nat /\ BASE > 1
  BY FramingAssumption
<1>1. \E w : w = [i \in Nat |-> IF i = 0 THEN 1 ELSE BASE * w[i - 1]]
  <2> DEFINE step == [x \in Nat \X Nat |-> BASE * x[2]]
  <2>1. Steps(step, Nat)
    BY <1>0 DEF Steps
  <2>2. \A n, v \in Nat : step[<<n, v>>] = BASE * v
    OBVIOUS
  <2> HIDE DEF step
  <2>3. PICK w : RecursiveFrom(w, Nat, 1, step)
    BY <2>1, Recursion
  <2>4. ASSUME NEW i \in Nat, i # 0
        PROVE  w[i] = BASE * w[i - 1]
    <3>1. i - 1 \in Nat /\ (i - 1) + 1 = i
      BY <2>4
    <3>2. w[(i - 1) + 1] = step[<<(i - 1) + 1, w[i - 1]>>]
      BY <2>3, <3>1 DEF RecursiveFrom
    <3>3. w[i - 1] \in Nat
      BY <2>3, <3>1 DEF RecursiveFrom
    <3> QED BY <2>2, <3>1, <3>2, <3>3
  <2>5. w = [i \in Nat |-> IF i = 0 THEN 1 ELSE BASE * w[i - 1]]
    BY <2>3, <2>4 DEF RecursiveFrom
  <2> QED BY <2>5
<1>2. Weight = [i \in Nat |-> IF i = 0 THEN 1 ELSE BASE * Weight[i - 1]]
  BY <1>1 DEF Weight
<1>3. Weight[0] = 1 /\ \A n \in Nat : Weight[n + 1] = BASE * Weight[n]
  <2>1. \A n \in Nat : n + 1 \in Nat /\ n + 1 # 0 /\ (n + 1) - 1 = n
    OBVIOUS
  <2> QED BY <1>2, <2>1
<1> DEFINE T == {n \in Nat : Weight[n] \in Nat /\ Weight[n] > 0}
<1>4. 0 \in T
  BY <1>3
<1>5. ASSUME NEW n \in Nat, n \in T
      PROVE  n + 1 \in T
  <2>1. ASSUME NEW w \in Nat, w > 0 PROVE BASE * w \in Nat /\ BASE * w > 0
    BY <1>0, <2>1
  <2> QED BY <1>3, <1>5, <2>1
<1>6. \A n \in Nat : n \in T
  <2> HIDE DEF T
  <2> QED BY <1>4, <1>5, SetInduction
<1> QED BY <1>3, <1>6

\* Division with remainder.
LEMMA Division ==
    ASSUME NEW a \in Nat, NEW b \in Nat, b > 0
    PROVE  /\ a \div b \in Nat /\ a % b \in 0..(b - 1)
           /\ a = (a \div b) * b + (a % b)
OBVIOUS

\* Quotient and remainder are the only numbers of that kind.
LEMMA Quotient ==
    ASSUME NEW q \in Nat, NEW b \in Nat, b > 0, NEW r \in 0..(b - 1)
    PROVE  (q * b + r) \div b = q /\ (q * b + r) % b = r
<1> DEFINE a == q * b + r
           p == a \div b
           t == a % b
<1>0. a \in Nat
  OBVIOUS
<1>1. p \in Nat /\ t \in 0..(b - 1) /\ a = p * b + t
  BY <1>0, Division
<1> HIDE DEF p, t
<1>2. (p - q) * b = r - t /\ p * b - q * b = r - t
  BY <1>1
<1>3. r - t < b /\ r - t > -b
  BY <1>1
<1>4. ASSUME p > q
      PROVE  FALSE
  <2>1. (p - q) * b >= b
    BY <1>1, <1>4
  <2> QED BY <1>1, <1>2, <1>3, <2>1
<1>5. ASSUME p < q
      PROVE  FALSE
  <2>1. (q - p) * b >= b
    BY <1>1, <1>5, SMTT(20)
  <2>2. (q - p) * b = -((p - q) * b)
    BY <1>1
  <2> QED BY <1>1, <1>2, <1>3, <2>1, <2>2
<1>6. p = q
  BY <1>1, <1>4, <1>5
<1> QED BY <1>1, <1>2, <1>6 DEF p, t

\* Shifting by two digits at once, or one after the other.
LEMMA DivideTwice ==
    ASSUME NEW a \in Nat, NEW b \in Nat, NEW c \in Nat, b > 0, c > 0
    PROVE  (a \div b) \div c = a \div (c * b)
<1> DEFINE m == a \div b
           r == a % b
           q == m \div c
           s == m % c
           t == s * b + r
<1>1. m \in Nat /\ r \in 0..(b - 1) /\ a = m * b + r
  BY Division
<1>2. q \in Nat /\ s \in 0..(c - 1) /\ m = q * c + s
  BY <1>1, Division
<1> HIDE DEF m, r, q, s
<1>3. t \in Nat /\ t < c * b
  <2>1. s * b \in Nat /\ s * b <= (c - 1) * b
    BY <1>2
  <2>2. (c - 1) * b = c * b - b
    OBVIOUS
  <2> QED BY <1>1, <2>1, <2>2
<1>4. a = q * (c * b) + t
  <2>1. a = (q * c + s) * b + r
    BY <1>1, <1>2
  <2>2. (q * c + s) * b = q * (c * b) + s * b
    BY <1>2
  <2> QED BY <1>1, <1>2, <2>1, <2>2
<1>5. c * b \in Nat /\ c * b > 0
  OBVIOUS
<1>6. a \div (c * b) = q
  <2> DEFINE cb == c * b
  <2> HIDE DEF cb, t
  <2>1. a = q * cb + t /\ cb \in Nat /\ cb > 0 /\ t \in 0..(cb - 1)
    BY <1>3, <1>4, <1>5 DEF cb
  <2> QED BY <1>2, <2>1, Quotient DEF cb
<1> QED BY <1>6 DEF q, m

\* A packed length is a prefix of bytes, each of them a digit.
LEMMA Packed ==
    ASSUME NEW n \in Nat
    PROVE  /\ pack(n) \in Seq(Byte) /\ Len(pack(n)) = LEN_PREFIX
           /\ \A i \in 1..LEN_PREFIX : pack(n)[i] = (n \div Weight[LEN_PREFIX - i]) % BASE
<1>0. LEN_PREFIX \in Nat /\ BASE \in Nat /\ BASE > 1
  BY FramingAssumption
<1>1. ASSUME NEW i \in 1..LEN_PREFIX
      PROVE  (n \div Weight[LEN_PREFIX - i]) % BASE \in Byte
  <2>1. Weight[LEN_PREFIX - i] \in Nat /\ Weight[LEN_PREFIX - i] > 0
    BY <1>0, Weights
  <2>2. n \div Weight[LEN_PREFIX - i] \in Nat
    BY <2>1, Division
  <2> QED BY <1>0, <2>2, Division DEF Byte
<1>2. pack(n) \in [1..LEN_PREFIX -> Byte]
  BY <1>1 DEF pack
<1> QED BY <1>0, <1>2 DEF pack

\* unpack() goes through the values of the prefixes.
Values(v, bytes) ==
    /\ v \in [0..Len(bytes) -> Nat]
    /\ v[0] = 0
    /\ \A i \in 1..Len(bytes) : v[i] = v[i - 1] * BASE + bytes[i]

\* ... and the value of the whole is what unpack() returns.
LEMMA Unpacking ==
    ASSUME NEW bytes \in Seq(Byte)
    PROVE  \E v : Values(v, bytes) /\ unpack(bytes) = v[Len(bytes)]
<1> DEFINE n == Len(bytes)
           step == [x \in Nat \X Nat |-> IF x[1] \in 1..n THEN x[2] * BASE + bytes[x[1]] ELSE 0]
<1>0. BASE \in Nat /\ n \in Nat
  BY FramingAssumption
<1>1. \A i \in Nat : \A u \in Nat : step[<<i, u>>] = IF i \in 1..n THEN u * BASE + bytes[i] ELSE 0
  OBVIOUS
<1>2. \A i \in 1..n : bytes[i] \in Nat
  BY <1>0 DEF Byte
<1>3. Steps(step, Nat)
  <2>1. ASSUME NEW i \in Nat, NEW u \in Nat
        PROVE  step[<<i, u>>] \in Nat
    <3>1. ASSUME i \in 1..n
          PROVE  u * BASE + bytes[i] \in Nat
      BY <1>0, <1>2, <3>1
    <3> QED BY <1>1, <3>1
  <2> QED BY <2>1 DEF Steps
<1> HIDE DEF step
<1>4. PICK f : RecursiveFrom(f, Nat, 0, step)
  BY <1>3, Recursion
<1> DEFINE v == [i \in 0..n |-> f[i]]
<1>5. /\ v \in [0..n -> Nat] /\ v[0] = 0
      /\ \A i \in 1..n : v[i] = v[i - 1] * BASE + bytes[i]
  <2>1. ASSUME NEW i \in 1..n
        PROVE  f[i] = f[i - 1] * BASE + bytes[i]
    <3>1. i - 1 \in Nat /\ (i - 1) + 1 = i /\ i \in Nat
      BY <1>0
    <3>2. f[i] = step[<<i, f[i - 1]>>] /\ f[i - 1] \in Nat
      BY <1>4, <3>1 DEF RecursiveFrom
    <3> QED BY <1>1, <3>1, <3>2
  <2>2. f[0] = 0 /\ \A i \in 0..n : f[i] \in Nat
    BY <1>0, <1>4 DEF RecursiveFrom
  <2>3. v \in [0..n -> Nat] /\ \A i \in 0..n : v[i] = f[i]
    BY <2>2
  <2>4. 0 \in 0..n /\ \A i \in 1..n : i \in 0..n /\ i - 1 \in 0..n
    BY <1>0
  <2> HIDE DEF v
  <2> QED BY <2>1, <2>2, <2>3, <2>4
<1>6. v = [i \in 0..n |-> IF i = 0 THEN 0 ELSE v[i - 1] * BASE + bytes[i]]
  <2> HIDE DEF v
  <2> QED BY <1>0, <1>5
<1> DEFINE w == CHOOSE w : w = [i \in 0..n |-> IF i = 0 THEN 0 ELSE w[i - 1] * BASE + bytes[i]]
<1>7. w = [i \in 0..n |-> IF i = 0 THEN 0 ELSE w[i - 1] * BASE + bytes[i]]
  <2> HIDE DEF v
  <2> QED BY <1>6
<1>8. unpack(bytes) = w[n]
  BY DEF unpack
<1> HIDE DEF w, v
<1>9. ASSUME NEW i \in Nat
      PROVE  i <= n => w[i] = v[i]
  <2> DEFINE T == {j \in Nat : j <= n => w[j] = v[j]}
  <2>1. 0 \in T
    BY <1>0, <1>5, <1>7
  <2>2. ASSUME NEW j \in Nat, j \in T
        PROVE  j + 1 \in T
    <3>1. ASSUME j + 1 <= n
          PROVE  w[j + 1] = v[j + 1]
      <4>1. j + 1 \in 1..n /\ j + 1 # 0 /\ (j + 1) - 1 = j /\ w[j] = v[j]
        BY <1>0, <2>2, <3>1
      <4> QED BY <1>5, <1>7, <4>1
    <3> QED BY <3>1
  <2>3. \A j \in Nat : j \in T
    <3> HIDE DEF T
    <3> QED BY <2>1, <2>2, SetInduction
  <2> QED BY <2>3
<1>10. unpack(bytes) = v[n]
  BY <1>0, <1>8, <1>9
<1> QED BY <1>5, <1>10 DEF Values

\* A length is read as it was written, ...
LEMMA UnpackOfPack ==
    ASSUME NEW n \in Nat, n < Weight[LEN_PREFIX]
    PROVE  unpack(pack(n)) = n
<1> DEFINE L == LEN_PREFIX
<1>0. L \in Nat /\ BASE \in Nat /\ BASE > 1
  BY FramingAssumption
<1>1. PICK v : Values(v, pack(n)) /\ unpack(pack(n)) = v[Len(pack(n))]
  BY Packed, Unpacking
<1>2. /\ v \in [0..L -> Nat] /\ v[0] = 0 /\ unpack(pack(n)) = v[L]
      /\ \A i \in 1..L : v[i] = v[i - 1] * BASE + ((n \div Weight[L - i]) % BASE)
  <2>1. Len(pack(n)) = L /\ \A i \in 1..L : pack(n)[i] = (n \div Weight[L - i]) % BASE
    BY Packed
  <2> HIDE DEF L
  <2> QED BY ONLY <1>1, <2>1 DEF Values
<1> DEFINE T == {i \in Nat : i <= L => v[i] = n \div Weight[L - i]}
<1>3. 0 \in T
  <2>1. Weight[L] \in Nat /\ Weight[L] > 0
    BY <1>0, Weights
  <2>2. n = 0 * Weight[L] + n /\ n \in 0..(Weight[L] - 1)
    BY <2>1
  <2>3. n \div Weight[L] = 0
    BY <2>1, <2>2, Quotient
  <2> QED BY <1>0, <1>2, <2>3
<1>4. ASSUME NEW i \in Nat, i \in T
      PROVE  i + 1 \in T
  <2> SUFFICES ASSUME i + 1 <= L
               PROVE  v[i + 1] = n \div Weight[L - (i + 1)]
    OBVIOUS
  <2> DEFINE k == L - (i + 1)
             m == n \div Weight[k]
  <2>1. k \in Nat /\ L - i = k + 1 /\ i + 1 \in 1..L /\ (i + 1) - 1 = i
    BY <1>0
  <2>2. /\ Weight[k] \in Nat /\ Weight[k] > 0
        /\ Weight[k + 1] = BASE * Weight[k]
    BY <2>1, Weights
  <2> HIDE DEF k
  <2>3. m \in Nat
    BY <2>2, Division
  <2>4. m \div BASE = n \div Weight[k + 1]
    BY <1>0, <2>2, DivideTwice
  <2>5. v[i] = m \div BASE
    BY <1>0, <1>4, <2>1, <2>4
  <2>6. v[i + 1] = v[i] * BASE + (m % BASE)
    BY <1>2, <2>1 DEF k
  <2> HIDE DEF m
  <2>7. v[i + 1] = m
    BY <1>0, <2>3, <2>5, <2>6, Division
  <2> QED BY <2>7 DEF m, k
<1>5. \A i \in Nat : i \in T
  <2> HIDE DEF T
  <2> QED BY <1>3, <1>4, SetInduction
<1>6. v[L] = n \div Weight[0]
  BY <1>0, <1>5
<1> QED BY <1>2, <1>6, Weights

\* ... and whatever is read for a length would be written that way.
LEMMA PackOfUnpack ==
    ASSUME NEW bytes \in Seq(Byte), Len(bytes) = LEN_PREFIX
    PROVE  /\ unpack(bytes) \in Nat /\ unpack(bytes) < Weight[LEN_PREFIX]
           /\ pack(unpack(bytes)) = bytes
<1> DEFINE L == LEN_PREFIX
<1>0. L \in Nat /\ BASE \in Nat /\ BASE > 1 /\ BASE > 0
  BY FramingAssumption
<1>1. PICK v : Values(v, bytes) /\ unpack(bytes) = v[L]
  BY Unpacking
<1>2. /\ v \in [0..L -> Nat] /\ v[0] = 0
      /\ \A i \in 1..L : v[i] = v[i - 1] * BASE + bytes[i] /\ bytes[i] \in 0..(BASE - 1)
  <2>1. \A i \in 1..L : bytes[i] \in 0..(BASE - 1)
    BY <1>0 DEF Byte
  <2> HIDE DEF L
  <2>2. Len(bytes) = L
    BY DEF L
  <2> QED BY ONLY <1>1, <2>1, <2>2 DEF Values
<1>3. v[L] \in Nat /\ v[L] < Weight[L]
  <2> DEFINE T == {i \in Nat : i <= L => v[i] < Weight[i]}
  <2>1. 0 \in T
    BY <1>2, Weights
  <2>2. ASSUME NEW i \in Nat, i \in T
        PROVE  i + 1 \in T
    <3> SUFFICES ASSUME i + 1 <= L
                 PROVE  v[i + 1] < Weight[i + 1]
      OBVIOUS
    <3>1. v[i + 1] = v[i] * BASE + bytes[i + 1] /\ bytes[i + 1] \in 0..(BASE - 1)
          /\ v[i] \in Nat /\ v[i] < Weight[i]
      BY <1>0, <1>2, <2>2
    <3>2. Weight[i] \in Nat /\ Weight[i + 1] = BASE * Weight[i]
      BY Weights
    <3>3. ASSUME NEW a \in Nat, NEW w \in Nat, a < w
          PROVE  a * BASE + BASE <= BASE * w
      <4>1. (w - a - 1) * BASE >= 0
        BY <1>0, <3>3
      <4> QED BY <1>0, <4>1
    <3>4. v[i] * BASE + BASE <= BASE * Weight[i]
      BY ONLY <3>1, <3>2, <3>3, Zenon
    <3>5. \A x, y \in Nat : x * y \in Nat
      OBVIOUS
    <3>6. PICK a, w : a = v[i] * BASE /\ w = BASE * Weight[i]
      OBVIOUS
    <3>7. a \in Nat /\ w \in Nat
      BY <1>0, <3>1, <3>2, <3>5, <3>6
    <3>8. a + BASE <= w /\ v[i + 1] = a + bytes[i + 1] /\ Weight[i + 1] = w
      BY <3>1, <3>2, <3>4, <3>6
    <3> QED BY ONLY <1>0, <3>1, <3>7, <3>8
  <2>3. \A i \in Nat : i \in T
    <3> HIDE DEF T
    <3> QED BY <2>1, <2>2, SetInduction
  <2> QED BY <1>0, <1>2, <2>3
<1> DEFINE T == {k \in Nat : k <= L => v[L] \div Weight[k] = v[L - k]}
<1>4. 0 \in T
  <2>1. v[L] = v[L] * 1 + 0 /\ 0 \in 0..(1 - 1)
    BY <1>3
  <2>2. v[L] \div 1 = v[L]
    BY <1>3, <2>1, Quotient
  <2> QED BY <1>0, <2>2, Weights
<1>5. ASSUME NEW k \in Nat, k \in T
      PROVE  k + 1 \in T
  <2> SUFFICES ASSUME k + 1 <= L
               PROVE  v[L] \div Weight[k + 1] = v[L - (k + 1)]
    OBVIOUS
  <2> DEFINE i == L - k
  <2>1. i \in 1..L /\ L - (k + 1) = i - 1 /\ i - 1 \in 0..L
    BY <1>0
  <2>2. Weight[k] \in Nat /\ Weight[k] > 0 /\ Weight[k + 1] = BASE * Weight[k]
    BY Weights
  <2>3. v[L] \div Weight[k] = v[i]
    BY <1>5
  <2>4. v[L] \div Weight[k + 1] = v[i] \div BASE
    <3>1. (v[L] \div Weight[k]) \div BASE = v[L] \div (BASE * Weight[k])
      BY ONLY <1>0, <1>3, <2>2, DivideTwice, Zenon
    <3> QED BY <2>2, <2>3, <3>1
  <2> HIDE DEF i
  <2>5. /\ v[i] = v[i - 1] * BASE + bytes[i] /\ bytes[i] \in 0..(BASE - 1)
        /\ v[i - 1] \in Nat
    BY <1>2, <2>1
  <2>6. v[i] \div BASE = v[i - 1]
    <3>1. (v[i - 1] * BASE + bytes[i]) \div BASE = v[i - 1]
      BY ONLY <1>0, <2>5, Quotient, Zenon
    <3> QED BY ONLY <2>5, <3>1
  <2> QED BY <2>1, <2>4, <2>6
<1>6. \A k \in Nat : k \in T
  <2> HIDE DEF T
  <2> QED BY <1>4, <1>5, SetInduction
<1>7. ASSUME NEW i \in 1..L
      PROVE  pack(v[L])[i] = bytes[i]
  <2>1. L - i \in Nat /\ L - i <= L /\ L - (L - i) = i
    BY <1>0
  <2>2. v[L] \div Weight[L - i] = v[i]
    BY <1>6, <2>1
  <2>3. pack(v[L])[i] = v[i] % BASE
    BY <1>3, <2>2, Packed
  <2>4. /\ v[i] = v[i - 1] * BASE + bytes[i] /\ bytes[i] \in 0..(BASE - 1)
        /\ v[i - 1] \in Nat
    BY <1>0, <1>2
  <2>5. (v[i - 1] * BASE + bytes[i]) % BASE = bytes[i]
    BY ONLY <1>0, <2>4, Quotient, Zenon
  <2> QED BY ONLY <2>3, <2>4, <2>5
<1>8. pack(v[L]) = bytes
  BY <1>0, <1>3, <1>7, Packed, SeqEqual
<1> QED BY <1>1, <1>3, <1>8

-----------------------------------------------------------------------------
(* Streams of frames.                                                      *)

Frame == {p \in Seq(Byte) : Len(p) < Weight[LEN_PREFIX]}

\* Stream() goes through the streams of the first frames.
Streams(s, frames) ==
    /\ s \in [0..Len(frames) -> Seq(Byte)]
    /\ s[0] = <<>>
    /\ \A i \in 1..Len(frames) : s[i] = s[i - 1] \o pack(Len(frames[i])) \o frames[i]

\* ... and that of all frames is Stream().
LEMMA Streaming ==
    ASSUME NEW frames \in Seq(Frame)
    PROVE  \E s : Streams(s, frames) /\ Stream(frames) = s[Len(frames)]
<1> DEFINE n == Len(frames)
           next(i, u) == u \o pack(Len(frames[i])) \o frames[i]
           step == [x \in Nat \X Seq(Byte) |-> IF x[1] \in 1..n THEN next(x[1], x[2]) ELSE <<>>]
<1>0. n \in Nat
  OBVIOUS
<1>1. ASSUME NEW i \in 1..n, NEW u \in Seq(Byte)
      PROVE  next(i, u) \in Seq(Byte)
  <2>1. frames[i] \in Seq(Byte) /\ Len(frames[i]) \in Nat
    BY <1>0 DEF Frame
  <2>2. pack(Len(frames[i])) \in Seq(Byte)
    BY <2>1, Packed
  <2> QED BY <2>1, <2>2, ConcatProperties
<1> HIDE DEF next
<1>2. \A i \in Nat : \A u \in Seq(Byte) : step[<<i, u>>] = IF i \in 1..n THEN next(i, u) ELSE <<>>
  OBVIOUS
<1>3. Steps(step, Seq(Byte))
  <2>1. <<>> \in Seq(Byte)
    OBVIOUS
  <2> HIDE DEF step
  <2> QED BY ONLY <1>1, <1>2, <2>1 DEF Steps
<1> HIDE DEF step
<1>4. <<>> \in Seq(Byte)
  OBVIOUS
<1>5. PICK f : RecursiveFrom(f, Seq(Byte), <<>>, step)
  BY <1>3, <1>4, Recursion
<1> DEFINE v == [i \in 0..n |-> f[i]]
<1>6. /\ v \in [0..n -> Seq(Byte)] /\ v[0] = <<>>
      /\ \A i \in 1..n : v[i] = next(i, v[i - 1])
  <2>1. ASSUME NEW i \in 1..n
        PROVE  f[i] = next(i, f[i - 1])
    <3>1. i - 1 \in Nat /\ (i - 1) + 1 = i /\ i \in Nat
      BY <1>0
    <3>2. f[i] = step[<<i, f[i - 1]>>] /\ f[i - 1] \in Seq(Byte)
      BY <1>5, <3>1 DEF RecursiveFrom
    <3> QED BY <1>2, <3>1, <3>2
  <2>2. f[0] = <<>> /\ \A i \in 0..n : f[i] \in Seq(Byte)
    BY <1>0, <1>5 DEF RecursiveFrom
  <2>3. v \in [0..n -> Seq(Byte)] /\ \A i \in 0..n : v[i] = f[i]
    BY <2>2
  <2>4. 0 \in 0..n /\ \A i \in 1..n : i \in 0..n /\ i - 1 \in 0..n
    BY <1>0
  <2> HIDE DEF v
  <2> QED BY <2>1, <2>2, <2>3, <2>4
<1>7. v = [i \in 0..n |-> IF i = 0 THEN <<>> ELSE next(i, v[i - 1])]
  <2> HIDE DEF v
  <2> QED BY <1>0, <1>6
<1> DEFINE w == CHOOSE w : w = [i \in 0..n |-> IF i = 0 THEN <<>> ELSE next(i, w[i - 1])]
<1>8. w = [i \in 0..n |-> IF i = 0 THEN <<>> ELSE next(i, w[i - 1])]
  <2> HIDE DEF v
  <2> QED BY <1>7
<1>9. Stream(frames) = w[n]
  BY DEF Stream, next
<1> HIDE DEF w, v
<1> DEFINE T == {j \in Nat : j <= n => w[j] = v[j]}
<1>10. 0 \in T
  BY <1>0, <1>6, <1>8
<1>11. ASSUME NEW j \in Nat, j \in T
       PROVE  j + 1 \in T
  <2>1. ASSUME j + 1 <= n
        PROVE  w[j + 1] = v[j + 1]
    <3>1. j + 1 \in 1..n /\ j + 1 # 0 /\ (j + 1) - 1 = j /\ w[j] = v[j] /\ j + 1 \in 0..n
      BY <1>0, <1>11, <2>1
    <3>2. v[j + 1] = next(j + 1, v[j]) /\ w[j + 1] = next(j + 1, w[j])
      BY <1>6, <1>8, <3>1
    <3> QED BY <3>1, <3>2
  <2> QED BY <2>1
<1>12. \A j \in Nat : j \in T
  <2> HIDE DEF T
  <2> QED BY <1>10, <1>11, SetInduction
<1>13. Stream(frames) = v[n]
  BY <1>0, <1>9, <1>12
<1> QED BY <1>6, <1>13 DEF Streams, next

\* The stream of the first n frames, and of one more.
LEMMA StreamOfFirst ==
    ASSUME NEW frames \in Seq(Frame)
    PROVE  /\ Stream(SubSeq(frames, 1, 0)) = <<>>
           /\ \A n \in 0..Len(frames) : Stream(SubSeq(frames, 1, n)) \in Seq(Byte)
           /\ \A n \in 0..(Len(frames) - 1) :
                Stream(SubSeq(frames, 1, n + 1)) =
                    Stream(SubSeq(frames, 1, n)) \o pack(Len(frames[n + 1])) \o frames[n + 1]
<1>1. PICK s : Streams(s, frames)
  BY Streaming
<1>2. ASSUME NEW n \in 0..Len(frames)
      PROVE  Stream(SubSeq(frames, 1, n)) = s[n]
  <2> DEFINE first == SubSeq(frames, 1, n)
  <2>1. /\ first \in Seq(Frame) /\ Len(first) = n
        /\ \A i \in 1..n : first[i] = frames[i]
    OBVIOUS
  <2> HIDE DEF first
  <2>2. PICK v : Streams(v, first) /\ Stream(first) = v[n]
    BY <2>1, Streaming
  <2> DEFINE T == {i \in Nat : i <= n => v[i] = s[i]}
  <2>3. 0 \in T
    BY <1>1, <2>2 DEF Streams
  <2>4. ASSUME NEW i \in Nat, i \in T
        PROVE  i + 1 \in T
    <3>1. ASSUME i + 1 <= n
          PROVE  v[i + 1] = s[i + 1]
      <4>1. i + 1 \in 1..n /\ i + 1 \in 1..Len(frames) /\ (i + 1) - 1 = i /\ v[i] = s[i]
        BY <2>4, <3>1
      <4>2. v[i + 1] = v[i] \o pack(Len(first[i + 1])) \o first[i + 1]
        BY <2>1, <2>2, <4>1 DEF Streams
      <4>3. s[i + 1] = s[i] \o pack(Len(frames[i + 1])) \o frames[i + 1]
        BY <1>1, <4>1 DEF Streams
      <4> QED BY <2>1, <4>1, <4>2, <4>3
    <3> QED BY <3>1
  <2>5. \A i \in Nat : i \in T
    <3> HIDE DEF T
    <3> QED BY <2>3, <2>4, SetInduction
  <2> QED BY <2>2, <2>5 DEF first
<1>3. \A n \in 0..(Len(frames) - 1) :
         s[n + 1] = s[n] \o pack(Len(frames[n + 1])) \o frames[n + 1]
  <2> SUFFICES ASSUME NEW n \in 0..(Len(frames) - 1)
               PROVE  s[n + 1] = s[n] \o pack(Len(frames[n + 1])) \o frames[n + 1]
    OBVIOUS
  <2>1. n + 1 \in 1..Len(frames) /\ (n + 1) - 1 = n
    OBVIOUS
  <2> QED BY <1>1, <2>1 DEF Streams
<1>4. \A n \in 0..(Len(frames) - 1) : n \in 0..Len(frames) /\ n + 1 \in 0..Len(frames)
  OBVIOUS
<1>5. 0 \in 0..Len(frames)
  OBVIOUS
<1>6. s[0] = <<>> /\ \A n \in 0..Len(frames) : s[n] \in Seq(Byte)
  BY <1>1, <1>5 DEF Streams
<1> QED BY <1>2, <1>3, <1>4, <1>5, <1>6

LEMMA StreamOfNone == Stream(<<>>) = <<>>
<1>1. <<>> \in Seq(Frame) /\ SubSeq(<<>>, 1, 0) = <<>>
  OBVIOUS
<1> QED BY <1>1, StreamOfFirst

LEMMA StreamOfMore ==
    ASSUME NEW frames \in Seq(Frame), NEW p \in Frame
    PROVE  /\ Stream(frames) \in Seq(Byte)
           /\ Stream(Append(frames, p)) = Stream(frames) \o pack(Len(p)) \o p
<1> DEFINE all == Append(frames, p)
           n == Len(frames)
<1>1. /\ all \in Seq(Frame) /\ Len(all) = n + 1 /\ n \in Nat
      /\ all[n + 1] = p
      /\ n \in 0..(Len(all) - 1)
  OBVIOUS
<1>2. SubSeq(all, 1, n) = frames
  OBVIOUS
<1>3. SubSeq(all, 1, n + 1) = all /\ SubSeq(frames, 1, n) = frames
  BY <1>1, SubSeqFull
<1> HIDE DEF all, n
<1>4. Stream(SubSeq(all, 1, n + 1)) = Stream(SubSeq(all, 1, n)) \o pack(Len(all[n + 1])) \o all[n + 1]
  BY <1>1, StreamOfFirst
<1>5. Stream(frames) \in Seq(Byte)
  <2>1. n \in 0..Len(frames)
    BY <1>1 DEF n
  <2> QED BY <1>3, <2>1, StreamOfFirst
<1> QED BY <1>1, <1>2, <1>3, <1>4, <1>5 DEF all

\* Where the bytes of a frame are in the stream.
Laid(s, u, p) ==
    /\ s \in Seq(Byte) /\ Len(s) = Len(u) + LEN_PREFIX + Len(p)
    /\ \A i \in 1..Len(u) : s[i] = u[i]
    /\ \A i \in 1..LEN_PREFIX : s[Len(u) + i] = pack(Len(p))[i]
    /\ \A i \in 1..Len(p) : s[Len(u) + LEN_PREFIX + i] = p[i]

\* c is a, and then b.
Joined(c, a, b) ==
    /\ c \in Seq(Byte) /\ Len(c) = Len(a) + Len(b)
    /\ Len(a) \in Nat /\ Len(b) \in Nat /\ Len(c) \in Nat
    /\ \A i \in 1..Len(a) : c[i] = a[i]
    /\ \A i \in 1..Len(b) : c[Len(a) + i] = b[i]

LEMMA Join ==
    ASSUME NEW a \in Seq(Byte), NEW b \in Seq(Byte)
    PROVE  Joined(a \o b, a, b)
BY DEF Joined

LEMMA Associative ==
    ASSUME NEW a \in Seq(Byte), NEW b \in Seq(Byte), NEW c \in Seq(Byte)
    PROVE  a \o (b \o c) = (a \o b) \o c
<1>1. (a \o b) \o c = a \o (b \o c)
  BY ConcatAssociative, SMTT(20)
<1> QED BY <1>1

LEMMA Layout ==
    ASSUME NEW u \in Seq(Byte), NEW p \in Frame
    PROVE  Laid(u \o pack(Len(p)) \o p, u, p)
<1> DEFINE h == pack(Len(p))
           uh == u \o h
           s == uh \o p
<1>0. LEN_PREFIX \in Nat
  BY FramingAssumption
<1>1. p \in Seq(Byte) /\ Len(p) \in Nat /\ u \in Seq(Byte) /\ Len(u) \in Nat
  BY DEF Frame
<1>2. h \in Seq(Byte) /\ Len(h) = LEN_PREFIX
  BY <1>1, Packed
<1> HIDE DEF h
<1>3. /\ uh \in Seq(Byte) /\ Len(uh) = Len(u) + LEN_PREFIX
      /\ \A i \in 1..Len(u) : uh[i] = u[i]
      /\ \A i \in 1..LEN_PREFIX : uh[Len(u) + i] = h[i]
  <2>1. Joined(uh, u, h)
    BY <1>1, <1>2, Join
  <2> HIDE DEF uh
  <2> QED BY ONLY <1>2, <2>1 DEF Joined
<1> HIDE DEF uh
<1>4. /\ s \in Seq(Byte) /\ Len(s) = Len(u) + LEN_PREFIX + Len(p)
      /\ \A i \in 1..(Len(u) + LEN_PREFIX) : s[i] = uh[i]
      /\ \A i \in 1..Len(p) : s[Len(u) + LEN_PREFIX + i] = p[i]
  <2>1. Joined(s, uh, p)
    BY <1>1, <1>3, Join
  <2> HIDE DEF s
  <2> QED BY ONLY <1>3, <2>1 DEF Joined
<1> HIDE DEF s
<1>5. ASSUME NEW i \in 1..Len(u)
      PROVE  s[i] = u[i]
  <2>1. i \in 1..(Len(u) + LEN_PREFIX)
    BY <1>0, <1>1
  <2> QED BY <1>3, <1>4, <2>1
<1>6. ASSUME NEW i \in 1..LEN_PREFIX
      PROVE  s[Len(u) + i] = h[i]
  <2>1. Len(u) + i \in 1..(Len(u) + LEN_PREFIX)
    BY <1>0, <1>1
  <2> QED BY <1>3, <1>4, <2>1
<1>7. Laid(s, u, p)
  BY <1>4, <1>5, <1>6 DEF Laid, h
<1> QED BY <1>7 DEF s, uh, h

\* The next frame of a sequence is where it belongs in the stream.
LEMMA NextFrame ==
    ASSUME NEW frames \in Seq(Frame), NEW n \in 0..(Len(frames) - 1)
    PROVE  /\ frames[n + 1] \in Frame /\ Len(frames[n + 1]) \in Nat
           /\ Stream(SubSeq(frames, 1, n)) \in Seq(Byte)
           /\ Stream(SubSeq(frames, 1, n + 1)) \in Seq(Byte)
           /\ Laid(Stream(SubSeq(frames, 1, n + 1)), Stream(SubSeq(frames, 1, n)), frames[n + 1])
<1>1. n \in 0..Len(frames) /\ n + 1 \in 0..Len(frames) /\ n + 1 \in 1..Len(frames)
  OBVIOUS
<1>2. frames[n + 1] \in Frame /\ Len(frames[n + 1]) \in Nat
  <2>1. frames[n + 1] \in Frame
    BY <1>1
  <2> QED BY <2>1 DEF Frame
<1>3. Stream(SubSeq(frames, 1, n)) \in Seq(Byte) /\ Stream(SubSeq(frames, 1, n + 1)) \in Seq(Byte)
  BY <1>1, StreamOfFirst
<1>4. Stream(SubSeq(frames, 1, n + 1)) =
        Stream(SubSeq(frames, 1, n)) \o pack(Len(frames[n + 1])) \o frames[n + 1]
  BY StreamOfFirst
<1>5. Laid(Stream(SubSeq(frames, 1, n)) \o pack(Len(frames[n + 1])) \o frames[n + 1],
           Stream(SubSeq(frames, 1, n)), frames[n + 1])
  BY ONLY <1>2, <1>3, Layout, Zenon
<1> QED BY ONLY <1>2, <1>3, <1>4, <1>5, Zenon

LEMMA AllFrames ==
    ASSUME NEW frames \in Seq(Frame)
    PROVE  /\ SubSeq(frames, 1, Len(frames)) = frames
           /\ Stream(frames) \in Seq(Byte) /\ Len(Stream(frames)) \in Nat
<1>1. SubSeq(frames, 1, Len(frames)) = frames /\ Len(frames) \in 0..Len(frames)
  BY SubSeqFull
<1>2. Stream(frames) \in Seq(Byte)
  BY <1>1, StreamOfFirst
<1> QED BY <1>1, <1>2

\* s is where t starts.
Starts(s, t) == Len(s) <= Len(t) /\ \A i \in 1..Len(s) : s[i] = t[i]

\* The stream of the first frames starts that of more of them.
LEMMA StreamStarts ==
    ASSUME NEW frames \in Seq(Frame), NEW m \in 0..Len(frames)
    PROVE  \A n \in m..Len(frames) :
              Starts(Stream(SubSeq(frames, 1, m)), Stream(SubSeq(frames, 1, n)))
<1> DEFINE s(n) == Stream(SubSeq(frames, 1, n))
           T == {k \in Nat : m + k <= Len(frames) => Starts(s(m), s(m + k))}
<1>0. LEN_PREFIX \in Nat
  BY FramingAssumption
<1>1. s(m) \in Seq(Byte) /\ Len(s(m)) \in Nat
  <2>1. s(m) \in Seq(Byte)
    BY StreamOfFirst
  <2> QED BY <2>1
<1>2. ASSUME NEW n \in 0..(Len(frames) - 1)
      PROVE  /\ Laid(s(n + 1), s(n), frames[n + 1]) /\ Len(frames[n + 1]) \in Nat
             /\ s(n) \in Seq(Byte)
  BY NextFrame
<1> HIDE DEF s
<1>3. 0 \in T
  BY <1>1 DEF Starts
<1>4. ASSUME NEW k \in Nat, k \in T
      PROVE  k + 1 \in T
  <2> SUFFICES ASSUME m + (k + 1) <= Len(frames)
               PROVE  Starts(s(m), s(m + (k + 1)))
    OBVIOUS
  <2> DEFINE n == m + k
  <2>1. n \in 0..(Len(frames) - 1) /\ m + (k + 1) = n + 1 /\ Starts(s(m), s(n))
    BY <1>4
  <2> HIDE DEF n
  <2>2. Laid(s(n + 1), s(n), frames[n + 1]) /\ Len(frames[n + 1]) \in Nat /\ Len(s(n)) \in Nat
    <3>1. s(n) \in Seq(Byte)
      BY <1>2, <2>1
    <3> QED BY <1>2, <2>1, <3>1
  <2>3. Len(s(m)) <= Len(s(n)) /\ \A i \in 1..Len(s(m)) : s(m)[i] = s(n)[i]
    BY <2>1 DEF Starts
  <2>4. Len(s(n)) <= Len(s(n + 1)) /\ \A i \in 1..Len(s(n)) : s(n + 1)[i] = s(n)[i]
    <3>1. Len(s(n + 1)) = Len(s(n)) + LEN_PREFIX + Len(frames[n + 1])
      BY <2>2 DEF Laid
    <3>2. \A i \in 1..Len(s(n)) : s(n + 1)[i] = s(n)[i]
      BY <2>2, Zenon DEF Laid
    <3>3. \A x, y, z \in Nat : x <= x + y + z
      OBVIOUS
    <3>4. Len(s(n)) <= Len(s(n)) + LEN_PREFIX + Len(frames[n + 1])
      BY <1>0, <2>2, <3>3
    <3> QED BY <3>1, <3>2, <3>4, Zenon
  <2>5. Len(s(n + 1)) \in Nat
    <3>1. Len(s(n + 1)) = Len(s(n)) + LEN_PREFIX + Len(frames[n + 1])
      BY <2>2 DEF Laid
    <3> QED BY <1>0, <2>2, <3>1
  <2>6. \A i \in 1..Len(s(m)) : i \in 1..Len(s(n))
    BY <1>1, <2>2, <2>3
  <2>7. Len(s(m)) <= Len(s(n + 1))
    BY <1>1, <2>2, <2>3, <2>4, <2>5
  <2>8. Starts(s(m), s(n + 1))
    BY ONLY <2>3, <2>4, <2>6, <2>7, Zenon DEF Starts
  <2> QED BY <2>1, <2>8
<1>5. \A k \in Nat : k \in T
  <2> HIDE DEF T
  <2> QED BY <1>3, <1>4, SetInduction
<1> SUFFICES ASSUME NEW n \in m..Len(frames)
             PROVE  Starts(s(m), s(n))
  BY DEF s
<1>6. n - m \in Nat /\ m + (n - m) = n /\ n <= Len(frames)
  OBVIOUS
<1>7. n - m \in T
  BY <1>5, <1>6
<1> QED BY <1>6, <1>7

\* Every frame has its length at least.
LEMMA StreamLength ==
    ASSUME NEW frames \in Seq(Frame)
    PROVE  Len(frames) <= Len(Stream(frames))
<1> DEFINE s(n) == Stream(SubSeq(frames, 1, n))
           T == {k \in Nat : k <= Len(frames) => k <= Len(s(k))}
<1>0. LEN_PREFIX \in Nat /\ LEN_PREFIX > 0 /\ Len(frames) \in Nat
  BY FramingAssumption
<1>1. Len(s(0)) = 0
  <2>1. s(0) = <<>>
    BY StreamOfFirst
  <2> HIDE DEF s
  <2> QED BY ONLY <2>1
<1>2. ASSUME NEW n \in 0..(Len(frames) - 1)
      PROVE  /\ Laid(s(n + 1), s(n), frames[n + 1]) /\ Len(frames[n + 1]) \in Nat
             /\ s(n) \in Seq(Byte)
  BY NextFrame
<1>3. s(Len(frames)) = Stream(frames)
  BY SubSeqFull
<1> HIDE DEF s
<1>4. 0 \in T
  BY <1>1
<1>5. ASSUME NEW n \in Nat, n \in T
      PROVE  n + 1 \in T
  <2> SUFFICES ASSUME n + 1 <= Len(frames)
               PROVE  n + 1 <= Len(s(n + 1))
    OBVIOUS
  <2>1. n \in 0..(Len(frames) - 1) /\ n <= Len(s(n))
    BY <1>0, <1>5
  <2>2. /\ Len(s(n + 1)) = Len(s(n)) + LEN_PREFIX + Len(frames[n + 1])
        /\ Len(frames[n + 1]) \in Nat
    BY <1>2, <2>1 DEF Laid
  <2>3. Len(s(n)) \in Nat
    <3>1. s(n) \in Seq(Byte)
      BY <1>2, <2>1
    <3> QED BY <3>1
  <2> HIDE DEF T
  <2>4. \A a, b, c \in Nat : n <= a /\ b > 0 => n + 1 <= a + b + c
    OBVIOUS
  <2> QED BY ONLY <1>0, <2>1, <2>2, <2>3, <2>4
<1>6. \A k \in Nat : k \in T
  <2> HIDE DEF T
  <2> QED BY <1>4, <1>5, SetInduction
<1>7. Len(frames) \in T
  BY <1>0, <1>6
<1> QED BY <1>0, <1>3, <1>7

\* Two streams that agree as far as both go are streams of frames that do.
Agree(s, t) == \A i \in 1..Len(s) : i <= Len(t) => s[i] = t[i]

\* What starts streams that agree, agrees.
LEMMA StartsAgree ==
    ASSUME NEW S, NEW a \in Seq(S), NEW b \in Seq(S), NEW s \in Seq(S), NEW t \in Seq(S),
           Starts(a, s), Starts(b, t), Agree(s, t)
    PROVE  Agree(a, b)
<1>1. Len(a) \in Nat /\ Len(b) \in Nat /\ Len(s) \in Nat /\ Len(t) \in Nat
  OBVIOUS
<1>2. SUFFICES ASSUME NEW i \in 1..Len(a), i <= Len(b)
               PROVE  a[i] = b[i]
  BY DEF Agree
<1>3. Len(a) <= Len(s) /\ Len(b) <= Len(t)
  BY DEF Starts
<1>4. i \in 1..Len(b) /\ i \in 1..Len(s) /\ i <= Len(t)
  BY <1>1, <1>2, <1>3
<1>5. a[i] = s[i] /\ b[i] = t[i]
  BY <1>4 DEF Starts
<1>6. s[i] = t[i]
  BY <1>4 DEF Agree
<1> QED BY <1>5, <1>6

\* The frames after the same bytes are the same.
LEMMA SameFrame ==
    ASSUME NEW u \in Seq(Byte), NEW p \in Frame, NEW q \in Frame,
           NEW a \in Seq(Byte), NEW b \in Seq(Byte), Laid(a, u, p), Laid(b, u, q), Agree(a, b)
    PROVE  p = q
<1> DEFINE k == Len(u)
<1>0. LEN_PREFIX \in Nat /\ k \in Nat /\ Len(a) \in Nat /\ Len(b) \in Nat
  BY FramingAssumption
<1>1. /\ p \in Seq(Byte) /\ Len(p) \in Nat /\ Len(p) < Weight[LEN_PREFIX]
      /\ q \in Seq(Byte) /\ Len(q) \in Nat /\ Len(q) < Weight[LEN_PREFIX]
  BY DEF Frame
<1>2. Len(a) = k + LEN_PREFIX + Len(p) /\ Len(b) = k + LEN_PREFIX + Len(q)
  BY DEF Laid
<1> HIDE DEF k
<1>3. pack(Len(p)) = pack(Len(q))
  <2>1. /\ pack(Len(p)) \in Seq(Byte) /\ Len(pack(Len(p))) = LEN_PREFIX
        /\ pack(Len(q)) \in Seq(Byte) /\ Len(pack(Len(q))) = LEN_PREFIX
    BY <1>1, Packed
  <2>2. ASSUME NEW i \in 1..LEN_PREFIX
        PROVE  pack(Len(p))[i] = pack(Len(q))[i]
    <3>1. k + i \in 1..Len(a) /\ k + i <= Len(b)
      BY <1>0, <1>1, <1>2
    <3>2. a[k + i] = b[k + i]
      BY <3>1 DEF Agree
    <3>3. a[k + i] = pack(Len(p))[i] /\ b[k + i] = pack(Len(q))[i]
      BY DEF Laid, k
    <3> QED BY <3>2, <3>3
  <2> QED BY <2>1, <2>2, SeqEqual
<1>4. Len(p) = Len(q)
  BY <1>1, <1>3, UnpackOfPack
<1>5. ASSUME NEW i \in 1..Len(p)
      PROVE  p[i] = q[i]
  <2>1. k + LEN_PREFIX + i \in 1..Len(a) /\ k + LEN_PREFIX + i <= Len(b) /\ i \in 1..Len(q)
    BY <1>0, <1>1, <1>2, <1>4
  <2>2. a[k + LEN_PREFIX + i] = b[k + LEN_PREFIX + i]
    BY <2>1 DEF Agree
  <2>3. a[k + LEN_PREFIX + i] = p[i] /\ b[k + LEN_PREFIX + i] = q[i]
    BY <2>1 DEF Laid, k
  <2> QED BY <2>2, <2>3
<1> QED BY <1>1, <1>4, <1>5, SeqEqual

\* The frames of streams that agree: nothing can be taken for a shorter or a
\* longer frame.
LEMMA Parse ==
    ASSUME NEW f \in Seq(Frame), NEW g \in Seq(Frame), Agree(Stream(f), Stream(g))
    PROVE  Agree(f, g)
<1> DEFINE s(n) == Stream(SubSeq(f, 1, n))
           t(n) == Stream(SubSeq(g, 1, n))
           Same(n) == SubSeq(f, 1, n) = SubSeq(g, 1, n)
           T == {n \in Nat : n <= Len(f) /\ n <= Len(g) => Same(n)}
<1>0. /\ Stream(f) \in Seq(Byte) /\ Stream(g) \in Seq(Byte)
      /\ SubSeq(f, 1, Len(f)) = f /\ SubSeq(g, 1, Len(g)) = g
      /\ Len(f) \in Nat /\ Len(g) \in Nat
  BY AllFrames
<1>1. 0 \in T
  OBVIOUS
<1>2. ASSUME NEW n \in Nat, n \in T
      PROVE  n + 1 \in T
  <2> SUFFICES ASSUME n + 1 <= Len(f), n + 1 <= Len(g)
               PROVE  Same(n + 1)
    OBVIOUS
  <2> DEFINE p == f[n + 1]
             q == g[n + 1]
             u == s(n)
             a == s(n + 1)
             b == t(n + 1)
  <2>1. /\ n \in 0..(Len(f) - 1) /\ n \in 0..(Len(g) - 1)
        /\ n + 1 \in 0..Len(f) /\ n + 1 \in 0..Len(g)
        /\ Len(f) \in (n + 1)..Len(f) /\ Len(g) \in (n + 1)..Len(g)
        /\ n <= Len(f) /\ n <= Len(g)
    BY <1>0
  <2>2. Same(n)
    BY <1>2, <2>1
  <2>3. p \in Frame /\ u \in Seq(Byte) /\ a \in Seq(Byte) /\ Laid(a, u, p)
    BY <2>1, NextFrame
  <2>4. q \in Frame /\ b \in Seq(Byte) /\ Laid(b, t(n), q)
    BY <2>1, NextFrame
  <2>5. t(n) = u
    BY <2>2
  <2>6. Starts(a, Stream(f)) /\ Starts(b, Stream(g))
    <3>1. Starts(a, Stream(SubSeq(f, 1, Len(f))))
      BY <2>1, StreamStarts
    <3>2. Starts(b, Stream(SubSeq(g, 1, Len(g))))
      BY <2>1, StreamStarts
    <3> QED BY ONLY <1>0, <3>1, <3>2
  <2> HIDE DEF p, q, u, a, b, s, t
  <2>7. Agree(a, b)
    BY <1>0, <2>3, <2>4, <2>6, StartsAgree
  <2>8. p = q
    BY <2>3, <2>4, <2>5, <2>7, SameFrame
  <2>9. /\ SubSeq(f, 1, n + 1) = Append(SubSeq(f, 1, n), f[n + 1])
        /\ SubSeq(g, 1, n + 1) = Append(SubSeq(g, 1, n), g[n + 1])
    BY <2>1
  <2> QED BY <2>2, <2>8, <2>9 DEF p, q
<1>3. \A n \in Nat : n \in T
  <2> HIDE DEF T
  <2> QED BY <1>1, <1>2, SetInduction
<1>4. SUFFICES ASSUME NEW i \in 1..Len(f), i <= Len(g)
               PROVE  f[i] = g[i]
  BY DEF Agree
<1>5. i \in T
  BY <1>3
<1>6. Same(i)
  BY <1>0, <1>4, <1>5
<1>7. SubSeq(f, 1, i)[i] = f[i] /\ SubSeq(g, 1, i)[i] = g[i]
  BY <1>0, <1>4
<1> QED BY <1>6, <1>7


\* Frames whose stream starts another's start the other's frames.
LEMMA FramesOfStart ==
    ASSUME NEW f \in Seq(Frame), NEW g \in Seq(Frame), Starts(Stream(f), Stream(g))
    PROVE  IsPrefix(f, g)
<1>0. /\ Stream(f) \in Seq(Byte) /\ Stream(g) \in Seq(Byte)
      /\ SubSeq(f, 1, Len(f)) = f /\ SubSeq(g, 1, Len(g)) = g
      /\ Len(f) \in Nat /\ Len(g) \in Nat /\ LEN_PREFIX \in Nat /\ LEN_PREFIX > 0
  BY AllFrames, FramingAssumption
<1>1. Len(Stream(f)) \in Nat /\ Len(Stream(g)) \in Nat
  BY <1>0
<1>2. Agree(Stream(f), Stream(g))
  BY DEF Agree, Starts
<1>3. Agree(f, g)
  BY <1>2, Parse
<1>4. ASSUME Len(g) < Len(f)
      PROVE  FALSE
  <2> DEFINE n == Len(g)
             a == Stream(SubSeq(f, 1, n + 1))
             p == f[n + 1]
  <2>1. /\ n \in 0..(Len(f) - 1) /\ n + 1 \in 0..Len(f) /\ Len(f) \in (n + 1)..Len(f)
        /\ n \in Nat
    BY <1>0, <1>4
  <2>2. SubSeq(f, 1, n) = g
    <3>1. \A i \in 1..n : f[i] = g[i]
      BY <1>0, <1>3, <1>4 DEF Agree
    <3>2. SubSeq(f, 1, n) \in Seq(Frame) /\ Len(SubSeq(f, 1, n)) = n
      BY <1>0, <2>1
    <3>3. \A i \in 1..n : SubSeq(f, 1, n)[i] = f[i]
      BY <1>0, <2>1
    <3> QED BY <3>1, <3>2, <3>3, SeqEqual
  <2>3. Len(p) \in Nat /\ Laid(a, Stream(SubSeq(f, 1, n)), p)
    BY <2>1, NextFrame
  <2>4. Starts(a, Stream(SubSeq(f, 1, Len(f))))
    BY <2>1, StreamStarts
  <2>5. Len(a) <= Len(Stream(f))
    BY ONLY <1>0, <2>4 DEF Starts
  <2>6. Len(Stream(f)) <= Len(Stream(g))
    BY DEF Starts
  <2>7. Len(a) = Len(Stream(g)) + LEN_PREFIX + Len(p)
    BY ONLY <2>2, <2>3 DEF Laid
  <2> HIDE DEF a, p, n
  <2> QED BY ONLY <1>0, <1>1, <2>3, <2>5, <2>6, <2>7
<1>5. \A i \in 1..Len(f) : f[i] = g[i]
  BY <1>0, <1>3, <1>4 DEF Agree
<1>6. SubSeq(f, 1, Len(f)) = SubSeq(g, 1, Len(f))
  <2>1. SubSeq(g, 1, Len(f)) \in Seq(Frame) /\ Len(SubSeq(g, 1, Len(f))) = Len(f)
    BY <1>0, <1>4
  <2>2. \A i \in 1..Len(f) : SubSeq(g, 1, Len(f))[i] = g[i]
    BY <1>0, <1>4
  <2>3. f = SubSeq(g, 1, Len(f))
    BY <1>5, <2>1, <2>2, SeqEqual
  <2> QED BY ONLY <1>0, <2>3
<1> QED BY <1>0, <1>4, <1>6 DEF IsPrefix

\* Of two sequences that agree, one starts the other.
LEMMA AgreePrefix ==
    ASSUME NEW S, NEW f \in Seq(S), NEW g \in Seq(S), Agree(f, g)
    PROVE  IsPrefix(f, g) \/ IsPrefix(g, f)
<1>0. Len(f) \in Nat /\ Len(g) \in Nat
  OBVIOUS
<1>1. CASE Len(f) <= Len(g)
  <2>1. \A i \in 1..Len(f) : f[i] = g[i]
    BY <1>0, <1>1 DEF Agree
  <2>2. /\ SubSeq(f, 1, Len(f)) \in Seq(S) /\ Len(SubSeq(f, 1, Len(f))) = Len(f)
        /\ SubSeq(g, 1, Len(f)) \in Seq(S) /\ Len(SubSeq(g, 1, Len(f))) = Len(f)
        /\ \A i \in 1..Len(f) : SubSeq(f, 1, Len(f))[i] = f[i] /\ SubSeq(g, 1, Len(f))[i] = g[i]
    BY <1>0, <1>1
  <2>3. SubSeq(f, 1, Len(f)) = SubSeq(g, 1, Len(f))
    BY <2>1, <2>2, SeqEqual
  <2> QED BY <1>1, <2>3 DEF IsPrefix
<1>2. CASE Len(g) <= Len(f)
  <2>1. \A i \in 1..Len(g) : f[i] = g[i]
    BY <1>0, <1>2 DEF Agree
  <2>2. /\ SubSeq(f, 1, Len(g)) \in Seq(S) /\ Len(SubSeq(f, 1, Len(g))) = Len(g)
        /\ SubSeq(g, 1, Len(g)) \in Seq(S) /\ Len(SubSeq(g, 1, Len(g))) = Len(g)
        /\ \A i \in 1..Len(g) : SubSeq(f, 1, Len(g))[i] = f[i] /\ SubSeq(g, 1, Len(g))[i] = g[i]
    BY <1>0, <1>2
  <2>3. SubSeq(g, 1, Len(g)) = SubSeq(f, 1, Len(g))
    BY <2>1, <2>2, SeqEqual
  <2> QED BY <1>2, <2>3 DEF IsPrefix
<1> QED BY <1>0, <1>1, <1>2


-----------------------------------------------------------------------------
(* The invariant: what the far end has read and has before it is what the  *)
(* near end was given to send, as the proxy passed it on, as far as it     *)
(* came.                                                                   *)

Given(d) == Stream(sent[d])

\* Byte i of what is given, as it is passed on.
Passed(d, i) ==
    IF Tampers(d, "flip") /\ i = args.at + 1 THEN BASE - 1 - Given(d)[i] ELSE Given(d)[i]

\* What of it is still to be handed to the socket.
Owed(d) == IF rest[d] = None THEN 0 ELSE Len(rest[d])

\* The bytes read: those of the frames received, and of the one being read.
Consumed(d) ==
    Stream(got[d]) \o (IF kind[d] = "length" THEN buf[d] ELSE pack(need[d]) \o buf[d])

\* l may follow what was read.
Follows(d, l) ==
    /\ Len(Consumed(d) \o l) <= Len(Given(d))
    /\ \A i \in 1..Len(Consumed(d) \o l) : (Consumed(d) \o l)[i] = Passed(d, i)
    /\ Tampers(d, "truncate") => Len(Consumed(d) \o l) <= args.at
    /\ ~ open[To(d)] => l = <<>>

Reading(d) ==
    /\ Len(buf[d]) < need[d]
    /\ kind[d] = "length" => need[d] = LEN_PREFIX
    /\ need[d] < Weight[LEN_PREFIX] \/ kind[d] = "length"

Sending(d) ==
    rest[d] # None =>
        /\ Len(rest[d]) <= Len(Given(d))
        /\ \A i \in 1..Len(rest[d]) : rest[d][i] = Given(d)[Len(Given(d)) - Len(rest[d]) + i]

OnTheWay(d) ==
    link = "up" =>
        /\ transferred[d] + Len(wire[d]) <= Len(Given(d))
        /\ \A i \in 1..Len(wire[d]) : wire[d][i] = Given(d)[transferred[d] + i]
        /\ open[From(d)] => transferred[d] + Len(wire[d]) + Owed(d) = Len(Given(d))
        /\ open[To(d)] => Len(Consumed(d) \o line[d]) = transferred[d]
        /\ Tampers(d, "truncate") => transferred[d] <= args.at

Types ==
    /\ args \in [mode : {"pass", "flip", "truncate"}, at : Nat, direction : Directions]
    /\ open \in [Ends -> BOOLEAN]
    /\ sent \in [Directions -> Seq(Frame)]
    /\ rest \in [Directions -> Frame \cup {None}]
    /\ wire \in [Directions -> Seq(Byte)]
    /\ link \in {"up", "down"}
    /\ relay \in [Directions -> {"running", "done"}]
    /\ transferred \in [Directions -> Nat]
    /\ line \in [Directions -> Seq(Byte)]
    /\ got \in [Directions -> Seq(Frame)]
    /\ kind \in [Directions -> {"length", "payload"}]
    /\ need \in [Directions -> Nat]
    /\ buf \in [Directions -> Seq(Byte)]

Bounded ==
    /\ \A d \in Directions : Len(sent[d]) <= MaxFrames[d]
    /\ link = "down" <=> \E d \in Directions : relay[d] = "done"

Direction(d) == Follows(d, line[d]) /\ Reading(d) /\ Sending(d) /\ OnTheWay(d)

FlowInv == Types /\ Bounded /\ \A d \in Directions : Direction(d)

-----------------------------------------------------------------------------
\* What is assumed of the constants, in the terms used here.
LEMMA Constants ==
    /\ BASE \in Nat /\ BASE > 1
    /\ LEN_PREFIX \in Nat /\ LEN_PREFIX > 0 /\ RECV_MAX \in Nat /\ RECV_MAX > 0
    /\ \A d \in Directions : Payloads[d] \subseteq Frame /\ MaxFrames[d] \in Nat
    /\ \A d \in Directions : None \notin Payloads[d]
    /\ CommandLines \subseteq [mode : {"pass", "flip", "truncate"}, at : Nat, direction : Directions]
BY FramingAssumption DEF Frame

\* Each end sends in one direction and receives in the other.
LEMMA TwoDirections ==
    ASSUME NEW d \in Directions
    PROVE  /\ Back(d) \in Directions /\ Back(d) # d /\ Back(Back(d)) = d
           /\ From(d) \in Ends /\ To(d) \in Ends /\ From(d) # To(d)
           /\ From(Back(d)) = To(d) /\ To(Back(d)) = From(d)
           /\ \A x \in Directions : x = d \/ x = Back(d)
BY DEF Directions, Ends, Back, From, To

\* What the parts of one direction are.
LEMMA DirectionTypes ==
    ASSUME Types, NEW d \in Directions
    PROVE  /\ sent[d] \in Seq(Frame) /\ got[d] \in Seq(Frame)
           /\ wire[d] \in Seq(Byte) /\ line[d] \in Seq(Byte) /\ buf[d] \in Seq(Byte)
           /\ Len(wire[d]) \in Nat /\ Len(line[d]) \in Nat /\ Len(buf[d]) \in Nat
           /\ transferred[d] \in Nat /\ need[d] \in Nat /\ args.at \in Nat
           /\ kind[d] \in {"length", "payload"} /\ relay[d] \in {"running", "done"}
           /\ rest[d] # None => rest[d] \in Frame
           /\ Given(d) \in Seq(Byte) /\ Len(Given(d)) \in Nat
           /\ Stream(got[d]) \in Seq(Byte) /\ Len(Stream(got[d])) \in Nat
           /\ Consumed(d) \in Seq(Byte) /\ Len(Consumed(d)) \in Nat
<1>1. /\ sent[d] \in Seq(Frame) /\ got[d] \in Seq(Frame)
      /\ wire[d] \in Seq(Byte) /\ line[d] \in Seq(Byte) /\ buf[d] \in Seq(Byte)
      /\ transferred[d] \in Nat /\ need[d] \in Nat /\ args.at \in Nat
      /\ kind[d] \in {"length", "payload"} /\ relay[d] \in {"running", "done"}
      /\ rest[d] # None => rest[d] \in Frame
  BY DEF Types
<1>2. Len(wire[d]) \in Nat /\ Len(line[d]) \in Nat /\ Len(buf[d]) \in Nat
  BY <1>1
<1>3. /\ Given(d) \in Seq(Byte) /\ Len(Given(d)) \in Nat
      /\ Stream(got[d]) \in Seq(Byte) /\ Len(Stream(got[d])) \in Nat
  BY <1>1, AllFrames DEF Given
<1>4. pack(need[d]) \in Seq(Byte)
  BY <1>1, Packed
<1>5. Consumed(d) \in Seq(Byte) /\ Len(Consumed(d)) \in Nat
  <2>1. pack(need[d]) \o buf[d] \in Seq(Byte)
    BY <1>1, <1>4
  <2> DEFINE half == IF kind[d] = "length" THEN buf[d] ELSE pack(need[d]) \o buf[d]
  <2>2. half \in Seq(Byte)
    BY <1>1, <2>1
  <2> HIDE DEF half
  <2>3. Stream(got[d]) \o half \in Seq(Byte)
    BY <1>3, <2>2
  <2>4. Consumed(d) \in Seq(Byte)
    BY <2>3 DEF Consumed, half
  <2> QED BY <2>4
<1> QED BY <1>1, <1>2, <1>3, <1>5

\* What may follow may be cut short.
LEMMA FollowsShort ==
    ASSUME Types, NEW d \in Directions, NEW l \in Seq(Byte), Follows(d, l), NEW m \in Prefixes(l)
    PROVE  m \in Seq(Byte) /\ Follows(d, m)
<1> DEFINE c == Consumed(d)
           g == Given(d)
<1>0. c \in Seq(Byte) /\ Len(g) \in Nat /\ args.at \in Nat /\ Len(l) \in Nat /\ Len(c) \in Nat
  BY DirectionTypes
<1>1. PICK k \in 0..Len(l) : m = SubSeq(l, 1, k)
  BY DEF Prefixes
<1>2. m \in Seq(Byte) /\ Len(m) = k /\ \A i \in 1..k : m[i] = l[i]
  BY <1>0, <1>1
<1> HIDE DEF c
<1>3. Joined(c \o l, c, l) /\ Joined(c \o m, c, m)
  BY <1>0, <1>2, Join
<1>4. Len(c \o l) = Len(c) + Len(l) /\ Len(c \o m) = Len(c) + k /\ Len(c \o m) <= Len(c \o l)
  BY ONLY <1>0, <1>1, <1>2, <1>3 DEF Joined
<1>5. ASSUME NEW i \in 1..Len(c \o m)
      PROVE  i \in 1..Len(c \o l) /\ (c \o m)[i] = (c \o l)[i]
  <2>1. i \in 1..Len(c \o l)
    BY <1>0, <1>4
  <2>2. CASE i \in 1..Len(c)
    BY <1>3, <2>2 DEF Joined
  <2>3. CASE i \notin 1..Len(c)
    <3> DEFINE j == i - Len(c)
    <3>1. j \in 1..k /\ j \in 1..Len(l) /\ i = Len(c) + j
      BY <1>0, <1>4, <2>3
    <3> HIDE DEF j
    <3>2. (c \o m)[Len(c) + j] = m[j] /\ (c \o l)[Len(c) + j] = l[j]
      BY <1>2, <1>3, <3>1 DEF Joined
    <3> QED BY <1>2, <2>1, <3>1, <3>2
  <2> QED BY <2>1, <2>2, <2>3
<1>6. /\ Len(c \o l) <= Len(g)
      /\ \A i \in 1..Len(c \o l) : (c \o l)[i] = Passed(d, i)
      /\ Tampers(d, "truncate") => Len(c \o l) <= args.at
      /\ ~ open[To(d)] => l = <<>>
  BY DEF Follows, c
<1>7. \A i \in 1..Len(c \o m) : (c \o m)[i] = Passed(d, i)
  BY <1>5, <1>6
<1>8. Len(c \o m) <= Len(g) /\ (Tampers(d, "truncate") => Len(c \o m) <= args.at)
  BY <1>0, <1>4, <1>6
<1>9. ~ open[To(d)] => m = <<>>
  BY <1>1, <1>2, <1>6
<1>10. Follows(d, m)
  BY <1>7, <1>8, <1>9 DEF Follows, c
<1> QED BY <1>2, <1>10

\* The next bytes of the stream, as they are passed on, may follow.
LEMMA FollowsOn ==
    ASSUME Types, NEW d \in Directions, Follows(d, line[d]), OnTheWay(d), link = "up", open[To(d)],
           NEW b \in Seq(Byte), Len(b) <= Len(wire[d]),
           \A i \in 1..Len(b) : b[i] = Passed(d, transferred[d] + i),
           Tampers(d, "truncate") => transferred[d] + Len(b) <= args.at
    PROVE  /\ Follows(d, line[d] \o b)
           /\ Len(Consumed(d) \o (line[d] \o b)) = transferred[d] + Len(b)
<1> DEFINE c == Consumed(d) \o line[d]
           n == transferred[d]
<1>0. /\ Consumed(d) \in Seq(Byte) /\ line[d] \in Seq(Byte) /\ Len(wire[d]) \in Nat
      /\ n \in Nat /\ Len(Given(d)) \in Nat /\ args.at \in Nat /\ Len(b) \in Nat
  BY DirectionTypes
<1>1. c \in Seq(Byte) /\ Consumed(d) \o (line[d] \o b) = c \o b
  <2>1. c \in Seq(Byte)
    BY <1>0
  <2>2. b \in Seq(Byte)
    OBVIOUS
  <2>3. Consumed(d) \o (line[d] \o b) = (Consumed(d) \o line[d]) \o b
    BY <1>0, <2>2, Associative
  <2> QED BY <2>1, <2>3
<1>2. Len(c) = n /\ n + Len(wire[d]) <= Len(Given(d))
  BY DEF OnTheWay
<1>3. \A i \in 1..n : c[i] = Passed(d, i)
  BY <1>2 DEF Follows
<1> HIDE DEF c
<1>4. Joined(c \o b, c, b)
  BY <1>1, Join
<1>5. Len(c \o b) = n + Len(b) /\ Len(c \o b) <= Len(Given(d))
  <2>1. Len(c \o b) = n + Len(b)
    BY <1>2, <1>4 DEF Joined
  <2> HIDE DEF n
  <2> QED BY ONLY <1>0, <1>2, <2>1, Len(b) <= Len(wire[d])
<1>6. ASSUME NEW i \in 1..Len(c \o b)
      PROVE  (c \o b)[i] = Passed(d, i)
  <2>1. CASE i \in 1..n
    BY <1>2, <1>3, <1>4, <2>1 DEF Joined
  <2>2. CASE i \notin 1..n
    <3> DEFINE j == i - n
    <3>1. j \in 1..Len(b) /\ i = n + j
      BY <1>0, <1>5, <2>2
    <3> HIDE DEF j
    <3>2. (c \o b)[n + j] = b[j]
      BY <1>2, <1>4, <3>1 DEF Joined
    <3>3. b[j] = Passed(d, n + j)
      BY <3>1
    <3> QED BY <3>1, <3>2, <3>3
  <2> QED BY <2>1, <2>2
<1>7. Tampers(d, "truncate") => Len(c \o b) <= args.at
  BY <1>5
<1> HIDE DEF n
<1> QED BY <1>1, <1>5, <1>6, <1>7 DEF Follows, n


-----------------------------------------------------------------------------
(* What is lost on the way.                                                *)

\* A sequence and the empty one are prefixes of it.
LEMMA SelfPrefix ==
    ASSUME NEW s \in Seq(Byte)
    PROVE  s \in Prefixes(s) /\ <<>> \in Prefixes(s)
<1>1. SubSeq(s, 1, Len(s)) = s /\ SubSeq(s, 1, 0) = <<>>
  BY SubSeqFull
<1>2. 0 \in 0..Len(s) /\ Len(s) \in 0..Len(s)
  OBVIOUS
<1> QED BY <1>1, <1>2 DEF Prefixes

\* A step that loses at most ends of the bytes on the way to the far end,
\* which were to be those of l, and of those on the way to the proxy.
Loses(d, l) ==
    /\ args' = args /\ sent'[d] = sent[d] /\ rest'[d] = rest[d] /\ transferred'[d] = transferred[d]
    /\ got'[d] = got[d] /\ kind'[d] = kind[d] /\ need'[d] = need[d] /\ buf'[d] = buf[d]
    /\ line'[d] \in Prefixes(l) /\ (~ open'[To(d)] => line'[d] = <<>>)
    /\ open'[From(d)] => open[From(d)]
    /\ open'[To(d)] => open[To(d)]
    /\ link' = "up" =>
         /\ link = "up" /\ wire'[d] \in Prefixes(wire[d])
         /\ open'[From(d)] => wire'[d] = wire[d]
         /\ open'[To(d)] => line'[d] = line[d]

\* Such a step keeps the invariant of the direction.
LEMMA LosesKeeps ==
    ASSUME Types, NEW d \in Directions, Direction(d), NEW l \in Seq(Byte), Follows(d, l), Loses(d, l)
    PROVE  line'[d] \in Seq(Byte) /\ Direction(d)'
<1>0. /\ wire[d] \in Seq(Byte) /\ Len(wire[d]) \in Nat /\ transferred[d] \in Nat
      /\ Len(Given(d)) \in Nat
  BY DirectionTypes
<1>1. PICK m \in Prefixes(l) : line'[d] = m
  BY DEF Loses
<1>2. m \in Seq(Byte) /\ Follows(d, m)
  BY FollowsShort
<1>3. Given(d)' = Given(d) /\ Consumed(d)' = Consumed(d) /\ Owed(d)' = Owed(d)
  BY DEF Loses, Given, Consumed, Owed
<1>4. \A i : Passed(d, i)' = Passed(d, i)
  BY <1>3 DEF Loses, Passed, Tampers
<1>5. Follows(d, line[d])'
  <2>1. ~ open'[To(d)] => m = <<>>
    BY <1>1 DEF Loses
  <2>2. /\ Len(Consumed(d) \o m) <= Len(Given(d))
        /\ \A i \in 1..Len(Consumed(d) \o m) : (Consumed(d) \o m)[i] = Passed(d, i)
        /\ Tampers(d, "truncate") => Len(Consumed(d) \o m) <= args.at
    BY <1>2 DEF Follows
  <2>3. Tampers(d, "truncate")' => Tampers(d, "truncate") /\ args'.at = args.at
    BY DEF Loses, Tampers
  <2> QED BY <1>1, <1>3, <1>4, <2>1, <2>2, <2>3 DEF Follows
<1>6. Reading(d)' /\ Sending(d)'
  BY <1>3 DEF Direction, Reading, Sending, Loses
<1>7. OnTheWay(d)'
  <2> SUFFICES ASSUME link' = "up"
               PROVE  (/\ transferred[d] + Len(wire[d]) <= Len(Given(d))
                       /\ \A i \in 1..Len(wire[d]) : wire[d][i] = Given(d)[transferred[d] + i]
                       /\ open[From(d)] => transferred[d] + Len(wire[d]) + Owed(d) = Len(Given(d))
                       /\ open[To(d)] => Len(Consumed(d) \o line[d]) = transferred[d]
                       /\ Tampers(d, "truncate") => transferred[d] <= args.at)'
    BY DEF OnTheWay
  <2>1. /\ transferred[d] + Len(wire[d]) <= Len(Given(d))
        /\ \A i \in 1..Len(wire[d]) : wire[d][i] = Given(d)[transferred[d] + i]
        /\ open[From(d)] => transferred[d] + Len(wire[d]) + Owed(d) = Len(Given(d))
        /\ open[To(d)] => Len(Consumed(d) \o line[d]) = transferred[d]
        /\ Tampers(d, "truncate") => transferred[d] <= args.at
    BY DEF Direction, OnTheWay, Loses
  <2>2. PICK k \in 0..Len(wire[d]) : wire'[d] = SubSeq(wire[d], 1, k)
    BY DEF Loses, Prefixes
  <2>3. Len(wire'[d]) = k /\ \A i \in 1..k : wire'[d][i] = wire[d][i] /\ i \in 1..Len(wire[d])
    BY <1>0, <2>2
  <2>4. transferred'[d] = transferred[d] /\ args' = args
    BY DEF Loses
  <2>5. transferred'[d] + Len(wire'[d]) <= Len(Given(d)')
    BY <1>0, <1>3, <2>1, <2>3, <2>4
  <2>6. \A i \in 1..Len(wire'[d]) : wire'[d][i] = Given(d)'[transferred'[d] + i]
    BY <1>3, <2>1, <2>3, <2>4
  <2>7. open'[From(d)] => transferred'[d] + Len(wire'[d]) + Owed(d)' = Len(Given(d)')
    BY <1>3, <2>1, <2>4 DEF Loses
  <2>8. open'[To(d)] => Len(Consumed(d)' \o line'[d]) = transferred'[d]
    BY <1>3, <2>1, <2>4 DEF Loses
  <2>9. Tampers(d, "truncate")' => transferred'[d] <= args'.at
    BY <2>1, <2>4 DEF Tampers
  <2> QED BY <2>5, <2>6, <2>7, <2>8, <2>9
<1> QED BY <1>1, <1>2, <1>5, <1>6, <1>7 DEF Direction

\* A step that leaves a direction alone.
Leaves(d) ==
    /\ args' = args /\ sent'[d] = sent[d] /\ rest'[d] = rest[d] /\ transferred'[d] = transferred[d]
    /\ got'[d] = got[d] /\ kind'[d] = kind[d] /\ need'[d] = need[d] /\ buf'[d] = buf[d]
    /\ line'[d] = line[d] /\ wire'[d] = wire[d] /\ link' = link
    /\ open'[From(d)] => open[From(d)]
    /\ open'[To(d)] = open[To(d)] \/ (line[d] = <<>> /\ open[To(d)])

\* ... keeps its invariant.
LEMMA LeavesKeeps ==
    ASSUME Types, NEW d \in Directions, Direction(d), Leaves(d)
    PROVE  Direction(d)'
<1>1. line[d] \in Seq(Byte) /\ wire[d] \in Seq(Byte)
  BY DirectionTypes
<1>2. line[d] \in Prefixes(line[d]) /\ wire[d] \in Prefixes(wire[d])
  BY <1>1, SelfPrefix
<1>3. Follows(d, line[d])
  BY DEF Direction
<1>4. ~ open'[To(d)] => line'[d] = <<>>
  BY <1>3 DEF Follows, Leaves
<1>5. Loses(d, line[d])
  BY <1>2, <1>4 DEF Leaves, Loses
<1> QED BY <1>1, <1>3, <1>5, LosesKeeps

\* The invariant holds initially, every step keeps it (the lemmas below, one
\* for each action), and so it holds always.
LEMMA InitFlow == Init => FlowInv
<1> SUFFICES ASSUME Init
             PROVE  FlowInv
  OBVIOUS
<1>0. /\ BASE \in Nat /\ BASE > 1 /\ LEN_PREFIX \in Nat /\ LEN_PREFIX > 0
      /\ \A d \in Directions : MaxFrames[d] \in Nat
  BY Constants
<1>1. Types
  BY <1>0, Constants DEF Init, Types
<1>2. Bounded
  BY <1>0 DEF Init, Bounded
<1>3. ASSUME NEW d \in Directions
      PROVE  Direction(d)
  <2>1. /\ sent[d] = <<>> /\ rest[d] = None /\ wire[d] = <<>> /\ transferred[d] = 0
        /\ line[d] = <<>> /\ got[d] = <<>> /\ kind[d] = "length" /\ need[d] = LEN_PREFIX
        /\ buf[d] = <<>> /\ open[To(d)] /\ open[From(d)]
    BY TwoDirections DEF Init
  <2>2. Given(d) = <<>> /\ Consumed(d) = <<>> \o <<>> /\ Owed(d) = 0
    BY <2>1, StreamOfNone DEF Given, Consumed, Owed
  <2>3. Len(<<>>) = 0 /\ <<>> \o <<>> = <<>>
    OBVIOUS
  <2>4. args.at \in Nat
    BY <1>1 DEF Types
  <2>5. Consumed(d) \o line[d] = <<>>
    BY <2>1, <2>2, <2>3
  <2>6. Follows(d, line[d])
    BY <2>1, <2>2, <2>3, <2>4, <2>5 DEF Follows
  <2>7. Reading(d) /\ Sending(d)
    BY <1>0, <2>1, <2>3 DEF Reading, Sending
  <2>8. OnTheWay(d)
    BY <2>1, <2>2, <2>3, <2>4, <2>5 DEF OnTheWay
  <2> QED BY <2>6, <2>7, <2>8 DEF Direction
<1> QED BY <1>1, <1>2, <1>3 DEF FlowInv


-----------------------------------------------------------------------------
(* The steps.                                                              *)

\* What is given grows at its end: nothing that came before changes.
LEMMA GivenGrows ==
    ASSUME Types, NEW d \in Directions, Follows(d, line[d]),
           args' = args, open' = open, line'[d] = line[d], Consumed(d)' = Consumed(d),
           Starts(Given(d), Given(d)'), Len(Given(d)') \in Nat
    PROVE  Follows(d, line[d])'
<1> DEFINE c == Consumed(d) \o line[d]
<1>0. Len(Given(d)) \in Nat /\ Consumed(d) \in Seq(Byte) /\ line[d] \in Seq(Byte)
  BY DirectionTypes
<1>1. Len(c) \in Nat
  BY <1>0
<1>2. /\ Len(c) <= Len(Given(d)) /\ \A i \in 1..Len(c) : c[i] = Passed(d, i)
      /\ Tampers(d, "truncate") => Len(c) <= args.at
      /\ ~ open[To(d)] => line[d] = <<>>
  BY DEF Follows
<1>3. (Consumed(d) \o line[d])' = c
  OBVIOUS
<1> HIDE DEF c
<1>4. \A i \in 1..Len(c) : Passed(d, i)' = Passed(d, i)
  <2> SUFFICES ASSUME NEW i \in 1..Len(c)
               PROVE  Passed(d, i)' = Passed(d, i)
    OBVIOUS
  <2>1. i \in 1..Len(Given(d))
    BY <1>0, <1>1, <1>2
  <2>2. Given(d)[i] = Given(d)'[i]
    BY <2>1 DEF Starts
  <2> QED BY <2>2 DEF Passed, Tampers
<1>5. Len(c) <= Len(Given(d)')
  BY <1>0, <1>1, <1>2 DEF Starts
<1>6. Tampers(d, "truncate")' => Len(c) <= args'.at
  BY <1>2 DEF Tampers
<1>7. \A i \in 1..Len(c) : c[i] = Passed(d, i)'
  BY <1>2, <1>4
<1>8. ~ open'[To(d)] => line'[d] = <<>>
  BY <1>2
<1> QED BY <1>3, <1>5, <1>6, <1>7, <1>8 DEF Follows

\* The stream grows by a frame, and its length goes to the proxy.
LEMMA SendLengthFlow ==
    ASSUME FlowInv, NEW d \in Directions, SendLength(d)
    PROVE  FlowInv'
<1>0. Types /\ Bounded /\ \A x \in Directions : Direction(x)
  BY DEF FlowInv
<1>1. PICK p \in Payloads[d] :
         /\ sent' = [sent EXCEPT ![d] = Append(@, p)]
         /\ rest' = [rest EXCEPT ![d] = p]
         /\ wire' = [wire EXCEPT ![d] = @ \o pack(Len(p))]
  BY DEF SendLength, sendall
<1>2. /\ open[From(d)] /\ rest[d] = None /\ Len(sent[d]) < MaxFrames[d] /\ link = "up"
      /\ UNCHANGED <<open, args, link, relay, transferred, line, got, kind, need, buf>>
  BY DEF SendLength, sendall, proxy, reader
<1>3. p \in Frame /\ p # None /\ Len(p) \in Nat /\ p \in Seq(Byte)
  BY Constants DEF Frame
<1>4. pack(Len(p)) \in Seq(Byte) /\ Len(pack(Len(p))) = LEN_PREFIX
  BY <1>3, Packed
<1>5. Types'
  <2>1. Append(sent[d], p) \in Seq(Frame) /\ wire[d] \o pack(Len(p)) \in Seq(Byte)
    BY <1>0, <1>3, <1>4, DirectionTypes
  <2>2. sent' \in [Directions -> Seq(Frame)]
    BY <1>0, <1>1, <2>1 DEF Types
  <2>3. rest' \in [Directions -> Frame \cup {None}]
    BY <1>0, <1>1, <1>3 DEF Types
  <2>4. wire' \in [Directions -> Seq(Byte)]
    BY <1>0, <1>1, <2>1 DEF Types
  <2> QED BY <1>0, <1>2, <2>2, <2>3, <2>4 DEF Types
<1>6. /\ sent'[d] = Append(sent[d], p) /\ rest'[d] = p /\ wire'[d] = wire[d] \o pack(Len(p))
      /\ \A x \in Directions : x # d =>
            sent'[x] = sent[x] /\ rest'[x] = rest[x] /\ wire'[x] = wire[x]
  BY <1>0, <1>1 DEF Types
<1>7. Bounded'
  <2>1. \A x \in Directions : Len(sent'[x]) <= MaxFrames[x]
    <3>1. Len(Append(sent[d], p)) = Len(sent[d]) + 1 /\ Len(sent[d]) \in Nat /\ MaxFrames[d] \in Nat
      BY <1>0, <1>3, Constants, DirectionTypes
    <3>2. Len(sent'[d]) <= MaxFrames[d]
      BY <1>2, <1>6, <3>1
    <3> QED BY <1>0, <1>6, <3>2 DEF Bounded
  <2> QED BY <1>0, <1>2, <2>1 DEF Bounded
<1>8. Direction(d)'
  <2> DEFINE g == Given(d)
             h == Given(d)'
             w == wire[d]
             n == transferred[d]
  <2>0. /\ Direction(d) /\ Follows(d, line[d]) /\ g \in Seq(Byte) /\ Len(g) \in Nat /\ w \in Seq(Byte)
        /\ Len(w) \in Nat /\ n \in Nat /\ sent[d] \in Seq(Frame)
        /\ LEN_PREFIX \in Nat
    BY <1>0, DirectionTypes, Constants DEF Direction
  <2>1. Laid(h, g, p)
    <3>1. h = g \o pack(Len(p)) \o p
      BY <1>3, <1>6, <2>0, StreamOfMore DEF Given
    <3>2. Laid(g \o pack(Len(p)) \o p, g, p)
      BY <1>3, <2>0, Layout
    <3> QED BY ONLY <3>1, <3>2
  <2>2. Consumed(d)' = Consumed(d)
    BY <1>2 DEF Consumed
  <2>3. /\ n + Len(w) = Len(g)
        /\ \A i \in 1..Len(w) : w[i] = g[n + i]
        /\ open[To(d)] => Len(Consumed(d) \o line[d]) = n
        /\ Tampers(d, "truncate") => n <= args.at
    <3>1. n + Len(w) + 0 = Len(g)
      BY <1>2, <2>0 DEF Direction, OnTheWay, Owed
    <3> QED BY <1>2, <2>0, <3>1 DEF Direction, OnTheWay
  <2>4. Joined(w \o pack(Len(p)), w, pack(Len(p)))
    BY <1>4, <2>0, Join
  <2> HIDE DEF g, h, w, n
  <2>5. /\ h \in Seq(Byte) /\ Len(h) = Len(g) + LEN_PREFIX + Len(p)
        /\ \A i \in 1..Len(g) : h[i] = g[i]
        /\ \A i \in 1..LEN_PREFIX : h[Len(g) + i] = pack(Len(p))[i]
        /\ \A i \in 1..Len(p) : h[Len(g) + LEN_PREFIX + i] = p[i]
    BY <2>1 DEF Laid
  <2>6. Len(h) \in Nat /\ Len(g) <= Len(h) /\ Starts(g, h)
    <3>1. Len(h) \in Nat /\ Len(g) <= Len(h)
      BY ONLY <1>3, <2>0, <2>5
    <3> QED BY ONLY <2>5, <3>1 DEF Starts
  <2>7. Follows(d, line[d])'
    BY <1>0, <1>2, <2>0, <2>2, <2>6, GivenGrows DEF g, h
  <2>8. Reading(d)'
    BY <1>2, <2>0 DEF Direction, Reading
  <2>9. Sending(d)'
    <3>1. Len(p) <= Len(h) /\ Len(h) - Len(p) = Len(g) + LEN_PREFIX
      BY ONLY <1>3, <2>0, <2>5
    <3>2. \A i \in 1..Len(p) : p[i] = h[Len(h) - Len(p) + i]
      BY ONLY <2>5, <3>1
    <3> QED BY <1>6, <3>1, <3>2 DEF Sending, h
  <2>10. OnTheWay(d)'
    <3> DEFINE v == wire'[d]
    <3>1. v = w \o pack(Len(p)) /\ Len(v) = Len(w) + LEN_PREFIX
      BY <1>4, <1>6, <2>4 DEF Joined, w
    <3> HIDE DEF v
    <3>2. n + Len(v) <= Len(h) /\ n + Len(v) + Len(p) = Len(h)
      <4>1. /\ n + Len(w) = Len(g) /\ Len(h) = Len(g) + LEN_PREFIX + Len(p)
            /\ Len(v) = Len(w) + LEN_PREFIX
        BY <2>3, <2>5, <3>1
      <4>2. n \in Nat /\ Len(w) \in Nat /\ Len(g) \in Nat /\ LEN_PREFIX \in Nat /\ Len(p) \in Nat
        BY <1>3, <2>0
      <4> QED BY ONLY <4>1, <4>2, SMTT(20)
    <3>3. ASSUME NEW i \in 1..Len(v)
          PROVE  v[i] = h[n + i]
      <4>1. CASE i \in 1..Len(w)
        <5>1. v[i] = w[i] /\ n + i \in 1..Len(g)
          BY <2>0, <2>3, <2>4, <3>1, <4>1 DEF Joined
        <5> QED BY <2>3, <2>5, <4>1, <5>1
      <4>2. CASE i \notin 1..Len(w)
        <5> DEFINE j == i - Len(w)
        <5>1. j \in 1..LEN_PREFIX /\ i = Len(w) + j /\ n + i = Len(g) + j
          BY <2>0, <2>3, <3>1, <4>2
        <5> HIDE DEF j
        <5>2. v[Len(w) + j] = pack(Len(p))[j]
          BY <1>4, <2>4, <3>1, <5>1 DEF Joined
        <5> QED BY <2>5, <5>1, <5>2
      <4> QED BY <4>1, <4>2
    <3>4. Owed(d)' = Len(p)
      BY <1>3, <1>6 DEF Owed
    <3>5. /\ transferred'[d] = n /\ (Consumed(d) \o line[d])' = Consumed(d) \o line[d]
          /\ args' = args /\ open' = open
      BY <1>2, <2>2 DEF n
    <3>6. (Tampers(d, "truncate") => transferred[d] <= args.at)'
      BY <2>3, <3>5 DEF Tampers
    <3> QED BY <2>3, <3>2, <3>3, <3>4, <3>5, <3>6 DEF OnTheWay, h, v
  <2> QED BY <2>7, <2>8, <2>9, <2>10 DEF Direction
<1>9. ASSUME NEW x \in Directions, x # d
      PROVE  Direction(x)'
  <2>1. Leaves(x)
    BY <1>2, <1>6, <1>9 DEF Leaves
  <2> QED BY <1>0, <2>1, LeavesKeeps
<1> QED BY <1>5, <1>7, <1>8, <1>9 DEF FlowInv


\* The payload, the end of the stream, goes to the proxy.
LEMMA SendPayloadFlow ==
    ASSUME FlowInv, NEW d \in Directions, SendPayload(d)
    PROVE  FlowInv'
<1>0. Types /\ Bounded /\ \A x \in Directions : Direction(x)
  BY DEF FlowInv
<1>1. PICK p : p = rest[d]
  OBVIOUS
<1>2. /\ rest' = [rest EXCEPT ![d] = None] /\ wire' = [wire EXCEPT ![d] = @ \o p]
      /\ open[From(d)] /\ p # None /\ link = "up"
      /\ UNCHANGED <<open, sent, args, link, relay, transferred, line, got, kind, need, buf>>
  BY <1>1 DEF SendPayload, sendall, proxy, reader
<1>3. p \in Seq(Byte) /\ Len(p) \in Nat
  <2>1. p \in Frame
    BY <1>0, <1>1, <1>2, DirectionTypes
  <2> QED BY <2>1 DEF Frame
<1>4. Types'
  <2>1. wire[d] \o p \in Seq(Byte)
    BY <1>0, <1>3, DirectionTypes
  <2>2. wire' \in [Directions -> Seq(Byte)]
    BY <1>0, <1>2, <2>1 DEF Types
  <2>3. rest' \in [Directions -> Frame \cup {None}]
    BY <1>0, <1>2 DEF Types
  <2> QED BY <1>0, <1>2, <2>2, <2>3 DEF Types
<1>5. Bounded'
  BY <1>0, <1>2 DEF Bounded
<1>6. /\ rest'[d] = None /\ wire'[d] = wire[d] \o p
      /\ \A x \in Directions : x # d => rest'[x] = rest[x] /\ wire'[x] = wire[x]
  BY <1>0, <1>2 DEF Types
<1>7. Direction(d)'
  <2> DEFINE g == Given(d)
             w == wire[d]
             n == transferred[d]
  <2>0. /\ Direction(d) /\ Follows(d, line[d]) /\ g \in Seq(Byte) /\ Len(g) \in Nat /\ w \in Seq(Byte)
        /\ Len(w) \in Nat /\ n \in Nat
    BY <1>0, DirectionTypes DEF Direction
  <2>1. Given(d)' = g /\ Consumed(d)' = Consumed(d)
    BY <1>2 DEF Given, Consumed
  <2>2. /\ n + Len(w) + Len(p) = Len(g)
        /\ \A i \in 1..Len(w) : w[i] = g[n + i]
        /\ open[To(d)] => Len(Consumed(d) \o line[d]) = n
        /\ Tampers(d, "truncate") => n <= args.at
    BY <1>1, <1>2, <2>0 DEF Direction, OnTheWay, Owed
  <2>3. \A i \in 1..Len(p) : p[i] = g[Len(g) - Len(p) + i]
    BY <1>1, <1>2, <2>0 DEF Direction, Sending
  <2>4. Joined(w \o p, w, p)
    BY <1>3, <2>0, Join
  <2>5. Starts(g, g)
    BY <2>0 DEF Starts
  <2>6. Follows(d, line[d])'
    BY <1>0, <1>2, <2>0, <2>1, <2>5, GivenGrows
  <2>7. Reading(d)' /\ Sending(d)'
    BY <1>2, <1>6, <2>0 DEF Direction, Reading, Sending
  <2>8. OnTheWay(d)'
    <3> DEFINE v == wire'[d]
    <3> HIDE DEF g, w, n
    <3>1. v = w \o p /\ Len(v) = Len(w) + Len(p)
      BY <1>6, <2>4 DEF Joined, w
    <3> HIDE DEF v
    <3>2. n + Len(v) <= Len(g) /\ n + Len(v) + 0 = Len(g)
      BY ONLY <1>3, <2>0, <2>2, <3>1
    <3>3. ASSUME NEW i \in 1..Len(v)
          PROVE  v[i] = g[n + i]
      <4>0. i \in 1..Len(v)
        OBVIOUS
      <4>1. CASE i \in 1..Len(w)
        BY <2>2, <2>4, <3>1, <4>1 DEF Joined
      <4>2. CASE i \notin 1..Len(w)
        <5> DEFINE j == i - Len(w)
        <5>1. j \in 1..Len(p) /\ i = Len(w) + j /\ n + i = Len(g) - Len(p) + j
          <6>1. n + Len(w) + Len(p) = Len(g)
            BY <2>2
          <6>2. i \in Int /\ i > Len(w) /\ i <= Len(w) + Len(p)
            BY ONLY <1>3, <2>0, <3>1, <4>0, <4>2
          <6>3. n \in Nat /\ Len(w) \in Nat /\ Len(g) \in Nat
            BY <2>0
          <6> QED BY ONLY <1>3, <6>1, <6>2, <6>3, SMTT(20)
        <5> HIDE DEF j
        <5>2. v[Len(w) + j] = p[j]
          BY <2>4, <3>1, <5>1 DEF Joined
        <5> QED BY <2>3, <5>1, <5>2
      <4> QED BY <4>1, <4>2
    <3>4. Owed(d)' = 0
      BY <1>6 DEF Owed
    <3>5. /\ transferred'[d] = n /\ Consumed(d)' \o line'[d] = Consumed(d) \o line[d]
          /\ args' = args /\ open' = open
      BY <1>2, <2>1 DEF n
    <3>6. (Tampers(d, "truncate") => transferred[d] <= args.at)'
      BY <2>2, <3>5 DEF Tampers
    <3> QED BY <2>1, <2>2, <3>2, <3>3, <3>4, <3>5, <3>6 DEF OnTheWay, v
  <2> QED BY <2>6, <2>7, <2>8 DEF Direction
<1>8. ASSUME NEW x \in Directions, x # d
      PROVE  Direction(x)'
  <2>1. Leaves(x)
    BY <1>2, <1>6, <1>8 DEF Leaves
  <2> QED BY <1>0, <2>1, LeavesKeeps
<1> QED BY <1>4, <1>5, <1>7, <1>8 DEF FlowInv

\* A closed socket loses what is on the way to it, and perhaps the end of
\* what it has sent.
LEMMA CloseFlow ==
    ASSUME FlowInv, NEW e \in Ends, Close(e)
    PROVE  FlowInv'
<1>0. Types /\ Bounded /\ \A x \in Directions : Direction(x)
  BY DEF FlowInv
<1>1. PICK d \in Directions :
         /\ From(d) = e
         /\ IF line[Back(d)] = <<>> THEN wire' = wire
            ELSE \E w \in Prefixes(wire[d]) : wire' = [wire EXCEPT ![d] = w]
         /\ line' = [line EXCEPT ![Back(d)] = <<>>]
  BY DEF Close
<1>2. /\ open' = [open EXCEPT ![e] = FALSE]
      /\ UNCHANGED <<sent, rest, args, link, relay, transferred, got, kind, need, buf>>
  BY DEF Close, flow, proxy, reader
<1>3. /\ Back(d) \in Directions /\ Back(d) # d
      /\ From(d) # To(d) /\ From(Back(d)) = To(d) /\ To(Back(d)) = From(d)
      /\ From(d) \in Ends /\ To(d) \in Ends
      /\ \A x \in Directions : x = d \/ x = Back(d)
  BY TwoDirections
<1>4. PICK w \in Prefixes(wire[d]) : wire' = [wire EXCEPT ![d] = w]
  <2>1. wire[d] \in Prefixes(wire[d])
    BY <1>0, DirectionTypes, SelfPrefix
  <2>2. wire = [wire EXCEPT ![d] = wire[d]]
    BY <1>0 DEF Types
  <2> QED BY <1>1, <2>1, <2>2
<1>5. w \in Seq(Byte)
  <2>1. wire[d] \in Seq(Byte) /\ Len(wire[d]) \in Nat
    BY <1>0, DirectionTypes
  <2> QED BY <2>1 DEF Prefixes
<1>6. /\ line'[d] = line[d] /\ line'[Back(d)] = <<>> /\ wire'[d] = w /\ wire'[Back(d)] = wire[Back(d)]
      /\ open'[From(d)] = FALSE /\ open'[To(d)] = open[To(d)]
  BY <1>0, <1>1, <1>2, <1>3, <1>4 DEF Types
<1>7. Types' /\ Bounded'
  <2>1. line' \in [Directions -> Seq(Byte)]
    <3>1. line' = [line EXCEPT ![Back(d)] = <<>>] /\ <<>> \in Seq(Byte)
      BY <1>1
    <3>2. line \in [Directions -> Seq(Byte)]
      BY <1>0 DEF Types
    <3> QED BY <3>1, <3>2
  <2>2. wire' \in [Directions -> Seq(Byte)]
    BY <1>0, <1>4, <1>5 DEF Types
  <2>3. open' \in [Ends -> BOOLEAN]
    BY <1>0, <1>2 DEF Types
  <2> QED BY <1>0, <1>2, <2>1, <2>2, <2>3 DEF Types, Bounded
<1>8. Direction(d)'
  <2>1. /\ line[d] \in Seq(Byte) /\ line[d] \in Prefixes(line[d]) /\ Follows(d, line[d])
    BY <1>0, DirectionTypes, SelfPrefix DEF Direction
  <2>2. ~ open'[To(d)] => line'[d] = <<>>
    BY <1>6, <2>1 DEF Follows
  <2>3. Loses(d, line[d])
    BY <1>2, <1>6, <2>1, <2>2 DEF Loses
  <2> QED BY <1>0, <2>1, <2>3, LosesKeeps
<1>9. Direction(Back(d))'
  <2> DEFINE b == Back(d)
  <2>1. /\ line[b] \in Seq(Byte) /\ <<>> \in Prefixes(line[b]) /\ Follows(b, line[b])
        /\ wire[b] \in Prefixes(wire[b]) /\ b \in Directions
    BY <1>0, <1>3, DirectionTypes, SelfPrefix DEF Direction
  <2>2. Loses(b, line[b])
    BY <1>2, <1>3, <1>6, <2>1 DEF Loses
  <2> QED BY <1>0, <2>1, <2>2, LosesKeeps
<1> QED BY <1>3, <1>7, <1>8, <1>9 DEF FlowInv

\* The far end leaves when there is nothing before it.
LEMMA PeerClosedFlow ==
    ASSUME FlowInv, NEW d \in Directions, PeerClosed(d)
    PROVE  FlowInv'
<1>0. Types /\ Bounded /\ \A x \in Directions : Direction(x)
  BY DEF FlowInv
<1>1. /\ open[To(d)] /\ line[d] = <<>> /\ open' = [open EXCEPT ![To(d)] = FALSE]
      /\ UNCHANGED <<sent, rest, wire, args, link, relay, transferred, line, got, kind, need, buf>>
  BY DEF PeerClosed, flow, proxy, reader
<1>2. Types' /\ Bounded'
  <2>1. open' \in [Ends -> BOOLEAN]
    BY <1>0, <1>1 DEF Types
  <2> QED BY <1>0, <1>1, <2>1 DEF Types, Bounded
<1>3. ASSUME NEW x \in Directions
      PROVE  Direction(x)'
  <2>1. /\ From(d) # To(d) /\ To(d) \in Ends /\ From(Back(d)) = To(d) /\ To(Back(d)) = From(d)
        /\ From(x) \in Ends /\ To(x) \in Ends /\ (x = d \/ x = Back(d))
    BY TwoDirections
  <2>2. open'[From(x)] => open[From(x)]
    BY <1>0, <1>1, <2>1 DEF Types
  <2>3. open'[To(x)] = open[To(x)] \/ (line[x] = <<>> /\ open[To(x)])
    BY <1>0, <1>1, <2>1 DEF Types
  <2>4. Leaves(x)
    BY <1>1, <2>2, <2>3 DEF Leaves
  <2> QED BY <1>0, <2>4, LeavesKeeps
<1> QED BY <1>2, <1>3 DEF FlowInv


LEMMA ShortestOf ==
    ASSUME NEW S \in SUBSET Nat, S # {}
    PROVE  Shortest(S) \in S /\ \A m \in S : Shortest(S) <= m
BY LeastNat DEF Shortest

LEMMA AppendNone ==
    ASSUME NEW s \in Seq(Byte)
    PROVE  s \o <<>> = s
BY ConcatEmptySeq

\* What is read leaves what was before the far end for what it has read.
LEMMA ReadMoves ==
    ASSUME FlowInv, NEW d \in Directions, recv_exact(d)
    PROVE  /\ \E k \in 1..Len(line[d]) :
                /\ line' = [line EXCEPT ![d] = SubSeq(@, k + 1, Len(@))]
                /\ Consumed(d)' = Consumed(d) \o SubSeq(line[d], 1, k)
           /\ got' \in [Directions -> Seq(Frame)] /\ kind' \in [Directions -> {"length", "payload"}]
           /\ need' \in [Directions -> Nat] /\ buf' \in [Directions -> Seq(Byte)]
           /\ Reading(d)'
           /\ \A x \in Directions : x # d =>
                got'[x] = got[x] /\ kind'[x] = kind[x] /\ need'[x] = need[x] /\ buf'[x] = buf[x]
<1> DEFINE bound == Shortest({RECV_MAX, need[d] - Len(buf[d]), Len(line[d])})
<1>0. Types /\ Bounded /\ Direction(d)
  BY DEF FlowInv
<1>1. PICK k \in 1..bound :
         LET bytes == buf[d] \o SubSeq(line[d], 1, k) IN
         /\ line' = [line EXCEPT ![d] = Drop(@, k)]
         /\ IF Len(bytes) < need[d]
            THEN buf' = [buf EXCEPT ![d] = bytes] /\ UNCHANGED <<got, kind, need>>
            ELSE Complete(d, bytes)
  BY DEF recv_exact
<1> DEFINE head == SubSeq(line[d], 1, k)
           bytes == buf[d] \o head
           s == Stream(got[d])
<1>2. /\ line[d] \in Seq(Byte) /\ buf[d] \in Seq(Byte) /\ Len(buf[d]) \in Nat /\ Len(line[d]) \in Nat
      /\ need[d] \in Nat /\ got[d] \in Seq(Frame) /\ kind[d] \in {"length", "payload"}
      /\ s \in Seq(Byte) /\ LEN_PREFIX \in Nat /\ LEN_PREFIX > 0 /\ RECV_MAX \in Nat
  BY <1>0, DirectionTypes, Constants
<1>3. /\ Len(buf[d]) < need[d]
      /\ kind[d] = "length" => need[d] = LEN_PREFIX
      /\ need[d] < Weight[LEN_PREFIX] \/ kind[d] = "length"
  BY <1>0 DEF Direction, Reading
<1>4. k \in 1..Len(line[d]) /\ k <= need[d] - Len(buf[d])
  <2> DEFINE S == {RECV_MAX, need[d] - Len(buf[d]), Len(line[d])}
  <2>1. S \in SUBSET Nat /\ S # {}
    BY <1>2, <1>3
  <2>2. bound \in S /\ \A m \in S : bound <= m
    BY <2>1, ShortestOf
  <2>3. bound \in Nat /\ bound <= need[d] - Len(buf[d]) /\ bound <= Len(line[d])
    BY <2>1, <2>2
  <2> HIDE DEF bound
  <2> QED BY <1>2, <2>3
<1>5. head \in Seq(Byte) /\ Len(head) = k
  BY <1>2, <1>4
<1> HIDE DEF head, s, bound
<1>6. bytes \in Seq(Byte) /\ Len(bytes) = Len(buf[d]) + k /\ Len(bytes) <= need[d]
  <2>1. Joined(bytes, buf[d], head)
    BY <1>2, <1>5, Join
  <2> QED BY <1>2, <1>4, <1>5, <2>1 DEF Joined
<1>7. /\ line' = [line EXCEPT ![d] = SubSeq(@, k + 1, Len(@))]
      /\ IF Len(bytes) < need[d]
         THEN buf' = [buf EXCEPT ![d] = bytes] /\ UNCHANGED <<got, kind, need>>
         ELSE Complete(d, bytes)
  BY <1>1 DEF Drop, head
<1>8. Consumed(d) \o head = IF kind[d] = "length" THEN s \o bytes ELSE (s \o pack(need[d])) \o bytes
  <2>1. CASE kind[d] = "length"
    <3>1. Consumed(d) = s \o buf[d]
      BY <2>1 DEF Consumed, s
    <3>2. s \o (buf[d] \o head) = (s \o buf[d]) \o head
      BY <1>2, <1>5, Associative
    <3> QED BY <2>1, <3>1, <3>2
  <2>2. CASE kind[d] # "length"
    <3> DEFINE h == pack(need[d])
    <3>1. h \in Seq(Byte)
      BY <1>2, Packed
    <3>2. Consumed(d) = s \o (h \o buf[d])
      BY <2>2 DEF Consumed, s
    <3> HIDE DEF h
    <3>3. s \o (h \o buf[d]) = (s \o h) \o buf[d] /\ s \o h \in Seq(Byte)
      <4>1. s \o h \in Seq(Byte)
        BY <1>2, <3>1
      <4>2. s \o (h \o buf[d]) = (s \o h) \o buf[d]
        BY <1>2, <3>1, Associative
      <4> QED BY <4>1, <4>2
    <3>4. (s \o h) \o (buf[d] \o head) = ((s \o h) \o buf[d]) \o head
      BY <1>2, <1>5, <3>3, Associative
    <3> QED BY <2>2, <3>2, <3>3, <3>4 DEF h
  <2> QED BY <2>1, <2>2
<1> DEFINE Goal ==
             /\ Consumed(d)' = Consumed(d) \o head
             /\ got' \in [Directions -> Seq(Frame)] /\ kind' \in [Directions -> {"length", "payload"}]
             /\ need' \in [Directions -> Nat] /\ buf' \in [Directions -> Seq(Byte)]
             /\ Reading(d)'
             /\ \A x \in Directions : x # d =>
                  got'[x] = got[x] /\ kind'[x] = kind[x] /\ need'[x] = need[x] /\ buf'[x] = buf[x]
<1> HIDE DEF bytes
<1>9. ASSUME Len(bytes) < need[d]
      PROVE  Goal
  <2>1. buf' = [buf EXCEPT ![d] = bytes] /\ UNCHANGED <<got, kind, need>>
    BY <1>7, <1>9
  <2>2. buf'[d] = bytes /\ buf' \in [Directions -> Seq(Byte)]
        /\ \A x \in Directions : x # d => buf'[x] = buf[x]
    BY <1>0, <1>6, <2>1 DEF Types
  <2>3. Consumed(d)' = IF kind[d] = "length" THEN s \o bytes ELSE s \o (pack(need[d]) \o bytes)
    BY <2>1, <2>2 DEF Consumed, s
  <2>4. s \o (pack(need[d]) \o bytes) = (s \o pack(need[d])) \o bytes
    <3>1. pack(need[d]) \in Seq(Byte)
      BY <1>2, Packed
    <3>2. s \in Seq(Byte) /\ bytes \in Seq(Byte)
      BY <1>2, <1>6
    <3> QED BY ONLY <3>1, <3>2, Associative
  <2>5. Consumed(d)' = Consumed(d) \o head
    BY <1>8, <2>3, <2>4
  <2>6. Reading(d)'
    BY <1>3, <1>9, <2>1, <2>2 DEF Reading
  <2>7. /\ got' \in [Directions -> Seq(Frame)] /\ kind' \in [Directions -> {"length", "payload"}]
        /\ need' \in [Directions -> Nat]
    BY <1>0, <2>1 DEF Types
  <2> QED BY <2>1, <2>2, <2>5, <2>6, <2>7
<1>10. ASSUME ~ (Len(bytes) < need[d])
       PROVE  Goal
  <2> DEFINE n == unpack(bytes)
             frame == IF kind[d] = "payload" THEN bytes ELSE <<>>
  <2>1. /\ buf' = [buf EXCEPT ![d] = <<>>]
        /\ IF kind[d] = "length" /\ n > 0
           THEN /\ kind' = [kind EXCEPT ![d] = "payload"]
                /\ need' = [need EXCEPT ![d] = n]
                /\ got' = got
           ELSE /\ kind' = [kind EXCEPT ![d] = "length"]
                /\ need' = [need EXCEPT ![d] = LEN_PREFIX]
                /\ got' = [got EXCEPT ![d] = Append(@, frame)]
    BY <1>7, <1>10 DEF Complete
  <2>2. Len(bytes) = need[d]
    <3>1. Len(bytes) \in Nat
      BY <1>6
    <3>2. need[d] \in Nat /\ Len(bytes) <= need[d] /\ ~ (Len(bytes) < need[d])
      BY <1>2, <1>6, <1>10
    <3> QED BY ONLY <3>1, <3>2
  <2>3. <<>> \in Seq(Byte) /\ Len(<<>>) = 0 /\ <<>> \o <<>> = <<>>
    OBVIOUS
  <2>4. buf'[d] = <<>> /\ buf' \in [Directions -> Seq(Byte)]
        /\ \A x \in Directions : x # d => buf'[x] = buf[x]
    BY <1>0, <2>1, <2>3 DEF Types
  <2>5. kind[d] = "length" => n \in Nat /\ n < Weight[LEN_PREFIX] /\ pack(n) = bytes
    BY <1>3, <1>6, <2>2, PackOfUnpack
  <2> HIDE DEF n
  <2>6. CASE kind[d] = "length" /\ n > 0
    <3>1. /\ kind'[d] = "payload" /\ need'[d] = n /\ got' = got
          /\ kind' \in [Directions -> {"length", "payload"}] /\ need' \in [Directions -> Nat]
          /\ \A x \in Directions : x # d => kind'[x] = kind[x] /\ need'[x] = need[x]
      <4>1. /\ kind' = [kind EXCEPT ![d] = "payload"]
            /\ need' = [need EXCEPT ![d] = n]
            /\ got' = got
        BY <2>1, <2>6
      <4>2. n \in Nat
        BY <2>5, <2>6
      <4> QED BY <1>0, <4>1, <4>2 DEF Types
    <3>2. Consumed(d)' = s \o (pack(n) \o <<>>)
      BY <2>4, <3>1 DEF Consumed, s
    <3>3. bytes \o <<>> = bytes
      BY <1>6, AppendNone
    <3>4. Consumed(d)' = Consumed(d) \o head
      BY <1>8, <2>5, <2>6, <3>2, <3>3
    <3>5. Reading(d)'
      BY <2>3, <2>4, <2>5, <2>6, <3>1 DEF Reading
    <3>6. got' \in [Directions -> Seq(Frame)]
      BY <1>0, <3>1 DEF Types
    <3> QED BY <2>4, <3>1, <3>4, <3>5, <3>6
  <2>7. CASE ~ (kind[d] = "length" /\ n > 0)
    <3>1. frame \in Frame
      <4>1. Weight[LEN_PREFIX] > 0
        BY <1>2, Weights
      <4> QED BY <1>2, <1>3, <1>6, <2>2, <2>3, <4>1 DEF Frame
    <3> HIDE DEF frame
    <3>2. Append(got[d], frame) \in Seq(Frame)
      BY <1>2, <3>1
    <3>3. /\ kind' = [kind EXCEPT ![d] = "length"]
          /\ need' = [need EXCEPT ![d] = LEN_PREFIX]
          /\ got' = [got EXCEPT ![d] = Append(@, frame)]
      BY <2>1, <2>7
    <3>4. /\ kind'[d] = "length" /\ need'[d] = LEN_PREFIX
          /\ kind' \in [Directions -> {"length", "payload"}] /\ need' \in [Directions -> Nat]
          /\ \A x \in Directions : x # d => kind'[x] = kind[x] /\ need'[x] = need[x]
      BY <1>0, <1>2, <3>3 DEF Types
    <3>5. /\ got'[d] = Append(got[d], frame) /\ got' \in [Directions -> Seq(Frame)]
          /\ \A x \in Directions : x # d => got'[x] = got[x]
      BY <1>0, <3>2, <3>3 DEF Types
    <3>6. Stream(Append(got[d], frame)) = (s \o pack(Len(frame))) \o frame
      BY <1>2, <3>1, StreamOfMore DEF s
    <3>7. (s \o pack(Len(frame))) \o frame \in Seq(Byte)
      BY <1>2, <3>1, Layout DEF Laid
    <3>8. Consumed(d)' = (s \o pack(Len(frame))) \o frame
      <4>1. Consumed(d)' = Stream(got'[d]) \o <<>>
        BY <2>4, <3>4 DEF Consumed
      <4>2. ((s \o pack(Len(frame))) \o frame) \o <<>> = (s \o pack(Len(frame))) \o frame
        BY <3>7, AppendNone
      <4> QED BY <3>5, <3>6, <4>1, <4>2
    <3>9. Consumed(d)' = Consumed(d) \o head
      <4>1. CASE kind[d] = "length"
        <5>1. n = 0 /\ frame = <<>> /\ pack(0) = bytes
          BY <2>5, <2>7, <4>1 DEF frame
        <5>2. s \o bytes \in Seq(Byte)
          BY <1>2, <1>6
        <5>3. (s \o bytes) \o <<>> = s \o bytes
          BY <5>2, AppendNone
        <5> QED BY <1>8, <2>3, <3>8, <4>1, <5>1, <5>3
      <4>2. CASE kind[d] # "length"
        <5>1. frame = bytes
          BY <1>2, <4>2 DEF frame
        <5> QED BY <1>8, <2>2, <3>8, <4>2, <5>1
      <4> QED BY <4>1, <4>2
    <3>10. Reading(d)'
      BY <1>2, <2>3, <2>4, <3>4 DEF Reading
    <3> QED BY <2>4, <3>4, <3>5, <3>9, <3>10
  <2> QED BY <2>6, <2>7
<1> QED BY <1>4, <1>7, <1>9, <1>10 DEF head

\* Reading changes nothing of the bytes read and before the far end together.
LEMMA recv_exactFlow ==
    ASSUME FlowInv, NEW d \in Directions, recv_exact(d)
    PROVE  FlowInv'
<1>0. Types /\ Bounded /\ \A x \in Directions : Direction(x)
  BY DEF FlowInv
<1>1. PICK k \in 1..Len(line[d]) :
         /\ line' = [line EXCEPT ![d] = SubSeq(@, k + 1, Len(@))]
         /\ Consumed(d)' = Consumed(d) \o SubSeq(line[d], 1, k)
  BY ReadMoves
<1>2. /\ got' \in [Directions -> Seq(Frame)] /\ kind' \in [Directions -> {"length", "payload"}]
      /\ need' \in [Directions -> Nat] /\ buf' \in [Directions -> Seq(Byte)]
      /\ Reading(d)'
      /\ \A x \in Directions : x # d =>
           got'[x] = got[x] /\ kind'[x] = kind[x] /\ need'[x] = need[x] /\ buf'[x] = buf[x]
  BY ReadMoves
<1>3. open[To(d)] /\ UNCHANGED <<open, sent, rest, wire, args, link, relay, transferred>>
  BY DEF recv_exact, flow, proxy
<1>4. line[d] \in Seq(Byte) /\ Len(line[d]) \in Nat /\ Consumed(d) \in Seq(Byte)
  BY <1>0, DirectionTypes
<1>5. PICK head : head = SubSeq(line[d], 1, k)
  OBVIOUS
<1>6. PICK tail : tail = SubSeq(line[d], k + 1, Len(line[d]))
  OBVIOUS
<1>7. head \in Seq(Byte) /\ tail \in Seq(Byte) /\ head \o tail = line[d]
  BY <1>4, <1>5, <1>6
<1>8. /\ line'[d] = tail /\ line' \in [Directions -> Seq(Byte)]
      /\ \A x \in Directions : x # d => line'[x] = line[x]
  BY <1>0, <1>1, <1>6, <1>7 DEF Types
<1>9. Types' /\ Bounded'
  BY <1>0, <1>2, <1>3, <1>8 DEF Types, Bounded
<1>10. Consumed(d)' \o line'[d] = Consumed(d) \o line[d]
  <2>1. Consumed(d) \o (head \o tail) = (Consumed(d) \o head) \o tail
    BY <1>4, <1>7, Associative
  <2> QED BY <1>1, <1>5, <1>7, <1>8, <2>1
<1>11. Given(d)' = Given(d) /\ Owed(d)' = Owed(d) /\ Tampers(d, "truncate")' = Tampers(d, "truncate")
       /\ \A i : Passed(d, i)' = Passed(d, i)
  BY <1>3 DEF Given, Owed, Passed, Tampers
<1>12. Direction(d)'
  <2>1. Follows(d, line[d])'
    BY <1>0, <1>3, <1>10, <1>11 DEF Direction, Follows
  <2>2. Sending(d)'
    BY <1>0, <1>3, <1>11 DEF Direction, Sending
  <2>3. OnTheWay(d)'
    <3>1. OnTheWay(d) /\ UNCHANGED <<open, wire, args, link, transferred>>
      BY <1>0, <1>3 DEF Direction
    <3> QED BY ONLY <1>10, <1>11, <3>1 DEF OnTheWay
  <2> QED BY <1>2, <2>1, <2>2, <2>3 DEF Direction
<1>13. ASSUME NEW x \in Directions, x # d
       PROVE  Direction(x)'
  <2>1. Leaves(x)
    BY <1>2, <1>3, <1>8, <1>13 DEF Leaves
  <2> QED BY <1>0, <2>1, LeavesKeeps
<1> QED BY <1>9, <1>12, <1>13 DEF FlowInv


\* The link is killed with at most l on the way to the far end.
Killed(d, l) ==
    /\ relay' = [relay EXCEPT ![d] = "done"]
    /\ link' = "down"
    /\ wire' = [x \in Directions |-> <<>>]
    /\ \E back \in Prefixes(line[Back(d)]) : \E ahead \in Prefixes(l) :
         line' = [x \in Directions |-> IF x = d THEN ahead ELSE back]
    /\ UNCHANGED <<args, open, sent, rest, transferred, got, kind, need, buf>>

\* Such a step keeps the invariant.
LEMMA KilledFlow ==
    ASSUME FlowInv, NEW d \in Directions, NEW l \in Seq(Byte), Follows(d, l), Killed(d, l)
    PROVE  FlowInv'
<1>0. Types /\ Bounded /\ \A x \in Directions : Direction(x)
  BY DEF FlowInv
<1>1. PICK back \in Prefixes(line[Back(d)]), ahead \in Prefixes(l) :
         line' = [x \in Directions |-> IF x = d THEN ahead ELSE back]
  BY DEF Killed
<1>2. /\ relay' = [relay EXCEPT ![d] = "done"] /\ link' = "down"
      /\ wire' = [x \in Directions |-> <<>>]
      /\ UNCHANGED <<args, open, sent, rest, transferred, got, kind, need, buf>>
  BY DEF Killed
<1>3. Back(d) \in Directions /\ Back(d) # d /\ \A x \in Directions : x = d \/ x = Back(d)
  BY TwoDirections
<1>4. line[Back(d)] \in Seq(Byte) /\ Follows(Back(d), line[Back(d)])
  BY <1>0, <1>3, DirectionTypes DEF Direction
<1>5. ahead \in Seq(Byte) /\ Follows(d, ahead) /\ back \in Seq(Byte) /\ Follows(Back(d), back)
  <2>1. ahead \in Seq(Byte) /\ Follows(d, ahead)
    BY <1>0, FollowsShort
  <2>2. back \in Seq(Byte) /\ Follows(Back(d), back)
    BY <1>0, <1>3, <1>4, FollowsShort
  <2> QED BY <2>1, <2>2
<1>6. line'[d] = ahead /\ line'[Back(d)] = back
  BY <1>1, <1>3
<1>7. Types'
  <2>1. line' \in [Directions -> Seq(Byte)]
    BY <1>1, <1>5
  <2>2. wire' \in [Directions -> Seq(Byte)]
    BY <1>2
  <2>3. relay' \in [Directions -> {"running", "done"}]
    BY <1>0, <1>2 DEF Types
  <2> QED BY <1>0, <1>2, <2>1, <2>2, <2>3 DEF Types
<1>8. Bounded'
  <2>1. relay'[d] = "done"
    BY <1>0, <1>2 DEF Types
  <2> QED BY <1>0, <1>2, <2>1 DEF Bounded
<1>9. Direction(d)'
  <2>1. ~ open'[To(d)] => line'[d] = <<>>
    BY <1>2, <1>5, <1>6 DEF Follows
  <2>2. Loses(d, l)
    BY <1>2, <1>6, <2>1 DEF Loses
  <2> QED BY <1>0, <2>2, LosesKeeps
<1>10. Direction(Back(d))'
  <2> DEFINE b == Back(d)
  <2>1. ~ open'[To(b)] => line'[b] = <<>>
    BY <1>2, <1>5, <1>6 DEF Follows
  <2>2. Loses(b, line[b])
    BY <1>2, <1>6, <2>1 DEF Loses
  <2> HIDE DEF b
  <2>3. b \in Directions /\ Direction(b) /\ line[b] \in Seq(Byte) /\ Follows(b, line[b])
    BY <1>0, <1>3, <1>4 DEF b
  <2>4. Direction(b)'
    BY <1>0, <2>2, <2>3, LosesKeeps
  <2> QED BY <2>4 DEF b
<1> QED BY <1>3, <1>7, <1>8, <1>9, <1>10 DEF FlowInv

LEMMA RelayEndsFlow ==
    ASSUME FlowInv, NEW d \in Directions, RelayEnds(d)
    PROVE  FlowInv'
<1>0. Types /\ Bounded /\ \A x \in Directions : Direction(x)
  BY DEF FlowInv
<1>1. UNCHANGED <<args, open, sent, rest, transferred, got, kind, need, buf>>
  BY DEF RelayEnds, flow, reader
<1>2. CASE link = "down" /\ relay' = [relay EXCEPT ![d] = "done"] /\ UNCHANGED <<wire, link, line>>
  <2>1. relay'[d] = "done" /\ relay' \in [Directions -> {"running", "done"}]
    BY <1>0, <1>2 DEF Types
  <2>2. Types' /\ Bounded'
    BY <1>0, <1>1, <1>2, <2>1 DEF Types, Bounded
  <2>3. ASSUME NEW x \in Directions
        PROVE  Direction(x)'
    <3>1. Leaves(x)
      BY <1>1, <1>2 DEF Leaves
    <3> QED BY <1>0, <3>1, LeavesKeeps
  <2> QED BY <2>2, <2>3 DEF FlowInv
<1>3. CASE KillLink(d, line[d], wire[d])
  <2>1. PICK l : l = line[d]
    OBVIOUS
  <2>2. l \in Seq(Byte) /\ Follows(d, l)
    BY <1>0, <2>1, DirectionTypes DEF Direction
  <2>3. Killed(d, l)
    BY <1>1, <1>3, <2>1 DEF Killed, KillLink
  <2> QED BY <2>2, <2>3, KilledFlow
<1> QED BY <1>2, <1>3 DEF RelayEnds

LEMMA UpstreamSilentFlow ==
    ASSUME FlowInv, UpstreamSilent
    PROVE  FlowInv'
<1> DEFINE d == "s2c"
<1>0. d \in Directions /\ Types /\ \A x \in Directions : Direction(x)
  BY DEF FlowInv, Directions
<1>1. UNCHANGED <<args, open, sent, rest, transferred, got, kind, need, buf>>
  BY DEF UpstreamSilent, flow, reader
<1>2. PICK l : l = line[d]
  OBVIOUS
<1>3. l \in Seq(Byte) /\ Follows(d, l)
  BY <1>0, <1>2, DirectionTypes DEF Direction
<1>4. Killed(d, l)
  BY <1>1, <1>2 DEF UpstreamSilent, Killed, KillLink
<1> QED BY <1>0, <1>3, <1>4, KilledFlow

\* A block of the stream as Relay passes it on.
LEMMA BlockPassed ==
    ASSUME Types, NEW d \in Directions, OnTheWay(d), link = "up",
           NEW n \in 1..Len(wire[d]), NEW b,
           b = IF Tampers(d, "flip") /\ args.at - transferred[d] \in 0..(n - 1)
               THEN Flip(SubSeq(wire[d], 1, n), args.at - transferred[d] + 1)
               ELSE SubSeq(wire[d], 1, n)
    PROVE  /\ b \in Seq(Byte) /\ Len(b) = n
           /\ \A i \in 1..n : b[i] = Passed(d, transferred[d] + i)
<1> DEFINE data == SubSeq(wire[d], 1, n)
           t == transferred[d]
           k == args.at - t
<1>0. /\ wire[d] \in Seq(Byte) /\ Len(wire[d]) \in Nat /\ t \in Nat /\ args.at \in Nat
      /\ BASE \in Nat /\ BASE > 1
  BY DirectionTypes, Constants
<1>1. data \in Seq(Byte) /\ Len(data) = n /\ n \in Nat /\ \A i \in 1..n : data[i] = wire[d][i]
  BY <1>0
<1>2. \A i \in 1..n : data[i] = Given(d)[t + i]
  <2>1. \A i \in 1..n : i \in 1..Len(wire[d])
    BY <1>0
  <2> QED BY <1>1, <2>1 DEF OnTheWay
<1> HIDE DEF data, t
<1>3. CASE Tampers(d, "flip") /\ k \in 0..(n - 1)
  <2>1. b = [data EXCEPT ![k + 1] = BASE - 1 - @]
    BY <1>3 DEF Flip, data, t
  <2>2. k + 1 \in 1..n /\ t + (k + 1) = args.at + 1
    BY <1>0, <1>1, <1>3
  <2>3. BASE - 1 - data[k + 1] \in Byte
    <3>1. data[k + 1] \in Byte
      BY <1>1, <2>2
    <3>2. PICK v : v = data[k + 1]
      OBVIOUS
    <3>3. v \in 0..(BASE - 1)
      BY <3>1, <3>2 DEF Byte
    <3>4. BASE - 1 - v \in 0..(BASE - 1)
      BY ONLY <1>0, <3>3
    <3> QED BY <3>2, <3>4 DEF Byte
  <2>4. /\ b \in Seq(Byte) /\ Len(b) = n /\ b[k + 1] = BASE - 1 - data[k + 1]
        /\ \A i \in 1..n : i # k + 1 => b[i] = data[i]
    <3>1. PICK j : j = k + 1
      OBVIOUS
    <3>2. PICK v : v = BASE - 1 - data[j]
      OBVIOUS
    <3>3. b = [data EXCEPT ![j] = v] /\ j \in 1..Len(data) /\ v \in Byte
      BY <1>1, <2>1, <2>2, <2>3, <3>1, <3>2
    <3>4. /\ b \in Seq(Byte) /\ Len(b) = Len(data) /\ b[j] = v
          /\ \A i \in 1..Len(data) : i # j => b[i] = data[i]
      BY ONLY <1>1, <3>3
    <3> QED BY <1>1, <3>1, <3>2, <3>4
  <2>5. ASSUME NEW i \in 1..n
        PROVE  b[i] = Passed(d, t + i)
    <3>1. t + i = args.at + 1 <=> i = k + 1
      <4>1. i \in Int /\ t \in Int /\ args.at \in Int /\ k = args.at - t
        BY <1>0, <1>1
      <4> HIDE DEF k
      <4> QED BY ONLY <4>1
    <3> HIDE DEF k
    <3>2. CASE i = k + 1
      BY <1>2, <1>3, <2>4, <3>1, <3>2 DEF Passed
    <3>3. CASE i # k + 1
      BY <1>2, <1>3, <2>4, <3>1, <3>3 DEF Passed
    <3> QED BY <3>2, <3>3
  <2> QED BY <2>4, <2>5 DEF t
<1>4. CASE ~ (Tampers(d, "flip") /\ k \in 0..(n - 1))
  <2>1. b = data
    BY <1>4 DEF data, t
  <2>2. ASSUME NEW i \in 1..n
        PROVE  b[i] = Passed(d, t + i)
    <3>1. Tampers(d, "flip") => t + i # args.at + 1
      BY <1>0, <1>1, <1>4
    <3> QED BY <1>2, <2>1, <3>1 DEF Passed
  <2> QED BY <1>1, <2>1, <2>2 DEF t
<1> QED BY <1>3, <1>4

\* A block moves from the way to the proxy to the way to the far end.
LEMMA RelayFlow ==
    ASSUME FlowInv, NEW d \in Directions, Relay(d)
    PROVE  FlowInv'
<1>0. Types /\ Bounded /\ \A x \in Directions : Direction(x)
  BY DEF FlowInv
<1>1. /\ link = "up" /\ wire[d] # <<>>
      /\ UNCHANGED <<args, open, sent, rest, got, kind, need, buf>>
  BY DEF Relay, flow, reader
<1>2. PICK n \in 1..Shortest({RECV_MAX, Len(wire[d])}) :
         LET data == SubSeq(wire[d], 1, n)
             i == args.at - transferred[d]
         IN  \/ /\ Tampers(d, "truncate") /\ i < n
                /\ KillLink(d, Arriving(d, Allowed(data, i)), Drop(wire[d], n))
                /\ UNCHANGED transferred
             \/ /\ ~ (Tampers(d, "truncate") /\ i < n)
                /\ line' = [line EXCEPT ![d] = Arriving(d,
                       IF Tampers(d, "flip") /\ i \in 0..(n - 1) THEN Flip(data, i + 1)
                       ELSE data)]
                /\ wire' = [wire EXCEPT ![d] = Drop(@, n)]
                /\ transferred' = [transferred EXCEPT ![d] = @ + n]
                /\ UNCHANGED <<link, relay>>
  BY DEF Relay
<1>3. /\ wire[d] \in Seq(Byte) /\ Len(wire[d]) \in Nat /\ Len(wire[d]) > 0
      /\ line[d] \in Seq(Byte) /\ transferred[d] \in Nat /\ args.at \in Nat
      /\ RECV_MAX \in Nat /\ Consumed(d) \in Seq(Byte) /\ Len(Given(d)) \in Nat
  <2>1. wire[d] \in Seq(Byte)
    BY <1>0, DirectionTypes
  <2>2. Len(wire[d]) \in Nat /\ Len(wire[d]) > 0
    BY <1>1, <2>1
  <2> QED BY <1>0, <2>1, <2>2, DirectionTypes, Constants
<1>4. n \in 1..Len(wire[d])
  <2> DEFINE S == {RECV_MAX, Len(wire[d])}
  <2>1. S \in SUBSET Nat /\ S # {}
    BY <1>3
  <2>2. Shortest(S) \in S /\ \A m \in S : Shortest(S) <= m
    BY <2>1, ShortestOf
  <2>3. PICK k : k = Shortest(S)
    OBVIOUS
  <2>4. k \in Nat /\ k <= Len(wire[d]) /\ n \in 1..k
    BY <1>2, <2>1, <2>2, <2>3
  <2> QED BY <1>3, <2>4
<1>5. Direction(d) /\ OnTheWay(d) /\ Follows(d, line[d])
  BY <1>0 DEF Direction
<1>6. /\ transferred[d] + Len(wire[d]) <= Len(Given(d))
      /\ \A i \in 1..Len(wire[d]) : wire[d][i] = Given(d)[transferred[d] + i]
      /\ open[From(d)] => transferred[d] + Len(wire[d]) + Owed(d) = Len(Given(d))
      /\ Tampers(d, "truncate") => transferred[d] <= args.at
  BY <1>1, <1>5 DEF OnTheWay
<1> DEFINE data == SubSeq(wire[d], 1, n)
           i == args.at - transferred[d]
<1>7. CASE /\ Tampers(d, "truncate") /\ i < n
           /\ KillLink(d, Arriving(d, Allowed(data, i)), Drop(wire[d], n))
           /\ UNCHANGED transferred
  <2>1. PICK b : b = SubSeq(data, 1, i)
    OBVIOUS
  <2>2. i \in 0..n
    BY <1>3, <1>4, <1>6, <1>7
  <2>3. b \in Seq(Byte) /\ Len(b) = i /\ \A j \in 1..i : b[j] = wire[d][j]
    <3>1. data \in Seq(Byte) /\ Len(data) = n /\ \A j \in 1..n : data[j] = wire[d][j]
      BY <1>3, <1>4
    <3> HIDE DEF data, i
    <3>2. b \in Seq(Byte) /\ Len(b) = i /\ \A j \in 1..i : b[j] = data[j]
      BY <2>1, <2>2, <3>1
    <3> QED BY <2>2, <3>1, <3>2
  <2>4. ~ Tampers(d, "flip")
    BY <1>7 DEF Tampers
  <2>5. \A j \in 1..Len(b) : b[j] = Passed(d, transferred[d] + j)
    <3>1. \A j \in 1..i : j \in 1..Len(wire[d])
      BY <1>3, <1>4, <2>2
    <3> QED BY <1>6, <2>3, <2>4, <3>1 DEF Passed
  <2>6. Len(b) <= Len(wire[d]) /\ transferred[d] + Len(b) <= args.at
    BY <1>3, <1>4, <2>2, <2>3
  <2>7. PICK l : l = Arriving(d, b)
    OBVIOUS
  <2>8. l \in Seq(Byte) /\ Follows(d, l)
    <3>1. CASE open[To(d)]
      <4>1. l = line[d] \o b
        BY <2>7, <3>1 DEF Arriving
      <4>2. Follows(d, line[d] \o b)
        BY <1>0, <1>1, <1>5, <2>3, <2>5, <2>6, <3>1, FollowsOn
      <4> QED BY <1>3, <2>3, <4>1, <4>2
    <3>2. CASE ~ open[To(d)]
      <4>1. l = <<>> /\ line[d] = <<>>
        BY <1>5, <2>7, <3>2 DEF Arriving, Follows
      <4> QED BY <1>3, <1>5, <4>1
    <3> QED BY <3>1, <3>2
  <2>9. Arriving(d, Allowed(data, i)) = l
    BY <2>1, <2>7 DEF Allowed
  <2>10. Killed(d, l)
    BY <1>1, <1>7, <2>9 DEF Killed, KillLink
  <2> QED BY <2>8, <2>10, KilledFlow
<1>8. CASE /\ ~ (Tampers(d, "truncate") /\ i < n)
           /\ line' = [line EXCEPT ![d] = Arriving(d,
                  IF Tampers(d, "flip") /\ i \in 0..(n - 1) THEN Flip(data, i + 1)
                  ELSE data)]
           /\ wire' = [wire EXCEPT ![d] = Drop(@, n)]
           /\ transferred' = [transferred EXCEPT ![d] = @ + n]
           /\ UNCHANGED <<link, relay>>
  <2>1. PICK b : b = IF Tampers(d, "flip") /\ i \in 0..(n - 1) THEN Flip(data, i + 1) ELSE data
    OBVIOUS
  <2>2. /\ b \in Seq(Byte) /\ Len(b) = n
        /\ \A j \in 1..n : b[j] = Passed(d, transferred[d] + j)
    BY <1>0, <1>1, <1>4, <1>5, <2>1, BlockPassed
  <2>3. PICK l : l = Arriving(d, b)
    OBVIOUS
  <2>4. Tampers(d, "truncate") => transferred[d] + n <= args.at
    BY <1>3, <1>4, <1>8
  <2>5. /\ l \in Seq(Byte) /\ Follows(d, l)
        /\ open[To(d)] => Len(Consumed(d) \o l) = transferred[d] + n
    <3>1. CASE open[To(d)]
      <4>1. l = line[d] \o b
        BY <2>3, <3>1 DEF Arriving
      <4>2. Len(b) <= Len(wire[d]) /\ (Tampers(d, "truncate") => transferred[d] + Len(b) <= args.at)
        BY <1>3, <1>4, <2>2, <2>4
      <4>3. \A j \in 1..Len(b) : b[j] = Passed(d, transferred[d] + j)
        BY <2>2
      <4>4. /\ Follows(d, line[d] \o b)
            /\ Len(Consumed(d) \o (line[d] \o b)) = transferred[d] + Len(b)
        BY <1>0, <1>1, <1>5, <2>2, <3>1, <4>2, <4>3, FollowsOn
      <4> QED BY <1>3, <2>2, <4>1, <4>4
    <3>2. CASE ~ open[To(d)]
      <4>1. l = <<>> /\ line[d] = <<>>
        BY <1>5, <2>3, <3>2 DEF Arriving, Follows
      <4> QED BY <1>3, <1>5, <3>2, <4>1
    <3> QED BY <3>1, <3>2
  <2>6. PICK w : w = SubSeq(wire[d], n + 1, Len(wire[d]))
    OBVIOUS
  <2>7. /\ w \in Seq(Byte) /\ Len(w) = Len(wire[d]) - n
        /\ \A j \in 1..Len(w) : w[j] = wire[d][n + j]
    BY <1>3, <1>4, <2>6
  <2>8. /\ line' = [line EXCEPT ![d] = l] /\ wire' = [wire EXCEPT ![d] = w]
        /\ transferred' = [transferred EXCEPT ![d] = @ + n] /\ UNCHANGED <<link, relay>>
    BY <1>8, <2>1, <2>3, <2>6 DEF Drop
  <2>9. /\ line'[d] = l /\ wire'[d] = w /\ transferred'[d] = transferred[d] + n
        /\ \A x \in Directions : x # d =>
             line'[x] = line[x] /\ wire'[x] = wire[x] /\ transferred'[x] = transferred[x]
    BY <1>0, <2>8 DEF Types
  <2>10. Types' /\ Bounded'
    <3>1. line' \in [Directions -> Seq(Byte)]
      BY <1>0, <2>5, <2>8 DEF Types
    <3>2. wire' \in [Directions -> Seq(Byte)]
      BY <1>0, <2>7, <2>8 DEF Types
    <3>3. transferred' \in [Directions -> Nat]
      <4>1. transferred \in [Directions -> Nat]
        BY <1>0 DEF Types
      <4>2. transferred[d] + n \in Nat
        BY <1>3, <1>4
      <4>3. transferred' = [transferred EXCEPT ![d] = transferred[d] + n]
        BY <2>8
      <4> QED BY <4>1, <4>2, <4>3
    <3> QED BY <1>0, <1>1, <2>8, <3>1, <3>2, <3>3 DEF Types, Bounded
  <2>11. Direction(d)'
    <3>1. /\ Given(d)' = Given(d) /\ Owed(d)' = Owed(d) /\ Consumed(d)' = Consumed(d)
          /\ args' = args /\ open' = open
          /\ \A j : Passed(d, j)' = Passed(d, j)
      BY <1>1 DEF Given, Owed, Consumed, Passed, Tampers
    <3>2. Follows(d, line[d])'
      BY <2>5, <2>9, <3>1 DEF Follows, Tampers
    <3>3. Reading(d)' /\ Sending(d)'
      BY <1>1, <1>5, <3>1 DEF Direction, Reading, Sending
    <3>4. OnTheWay(d)'
      <4>1. n \in Nat /\ Len(w) \in Nat /\ transferred'[d] + Len(w) = transferred[d] + Len(wire[d])
        <5>1. n \in Nat /\ Len(w) \in Nat
          BY <1>3, <1>4, <2>7
        <5>2. Len(w) = Len(wire[d]) - n /\ transferred'[d] = transferred[d] + n
          BY <2>7, <2>9
        <5> QED BY <1>3, <5>1, <5>2
      <4>2. \A j \in 1..Len(w) : w[j] = Given(d)[transferred'[d] + j]
        <5> SUFFICES ASSUME NEW j \in 1..Len(w)
                     PROVE  w[j] = Given(d)[transferred'[d] + j]
          OBVIOUS
        <5>1. n + j \in 1..Len(wire[d]) /\ transferred'[d] + j = transferred[d] + (n + j)
          <6>1. transferred'[d] = transferred[d] + n /\ Len(w) = Len(wire[d]) - n
            BY <2>7, <2>9
          <6>2. j \in Nat /\ 1 <= j /\ j <= Len(w)
            BY <4>1
          <6> QED BY ONLY <1>3, <4>1, <6>1, <6>2, SMTT(20)
        <5>2. w[j] = wire[d][n + j]
          BY <2>7
        <5>3. wire[d][n + j] = Given(d)[transferred[d] + (n + j)]
          BY <1>6, <5>1
        <5> QED BY <5>1, <5>2, <5>3
      <4>3. open[To(d)] => Len(Consumed(d) \o l) = transferred'[d]
        BY <2>5, <2>9
      <4>4. Tampers(d, "truncate") => transferred'[d] <= args.at
        BY <2>4, <2>9
      <4> QED BY <1>6, <2>9, <3>1, <4>1, <4>2, <4>3, <4>4 DEF OnTheWay, Tampers
    <3> QED BY <3>2, <3>3, <3>4 DEF Direction
  <2>12. ASSUME NEW x \in Directions, x # d
         PROVE  Direction(x)'
    <3>1. Leaves(x)
      BY <1>1, <2>8, <2>9, <2>12 DEF Leaves
    <3> QED BY <1>0, <3>1, LeavesKeeps
  <2> QED BY <2>10, <2>11, <2>12 DEF FlowInv
<1> QED BY <1>2, <1>7, <1>8


LEMMA NextFlow == FlowInv /\ [Next]_vars => FlowInv'
<1> SUFFICES ASSUME FlowInv, [Next]_vars
             PROVE  FlowInv'
  OBVIOUS
<1>1. ASSUME NEW d \in Directions, SendLength(d)
      PROVE  FlowInv'
  BY <1>1, SendLengthFlow
<1>2. ASSUME NEW d \in Directions, SendPayload(d)
      PROVE  FlowInv'
  BY <1>2, SendPayloadFlow
<1>3. ASSUME NEW d \in Directions, recv_exact(d)
      PROVE  FlowInv'
  BY <1>3, recv_exactFlow
<1>4. ASSUME NEW d \in Directions, PeerClosed(d)
      PROVE  FlowInv'
  BY <1>4, PeerClosedFlow
<1>5. ASSUME NEW d \in Directions, Relay(d)
      PROVE  FlowInv'
  BY <1>5, RelayFlow
<1>6. ASSUME NEW d \in Directions, RelayEnds(d)
      PROVE  FlowInv'
  BY <1>6, RelayEndsFlow
<1>7. ASSUME NEW e \in Ends, Close(e)
      PROVE  FlowInv'
  BY <1>7, CloseFlow
<1>8. ASSUME UpstreamSilent
      PROVE  FlowInv'
  BY <1>8, UpstreamSilentFlow
<1>9. ASSUME UNCHANGED vars
      PROVE  FlowInv'
  <2>1. UNCHANGED <<args, open, sent, rest, wire, link, relay, transferred, line, got, kind, need, buf>>
    BY <1>9 DEF vars
  <2>2. Types /\ Bounded /\ \A x \in Directions : Direction(x)
    BY DEF FlowInv
  <2>3. Types' /\ Bounded'
    BY <2>1, <2>2 DEF Types, Bounded
  <2>4. ASSUME NEW x \in Directions
        PROVE  Direction(x)'
    <3>1. Leaves(x)
      BY <2>1 DEF Leaves
    <3> QED BY <2>2, <3>1, LeavesKeeps
  <2> QED BY <2>3, <2>4 DEF FlowInv
<1> QED BY <1>1, <1>2, <1>3, <1>4, <1>5, <1>6, <1>7, <1>8, <1>9 DEF Next

LEMMA AlwaysFlow == Spec => []FlowInv
<1> QED BY InitFlow, NextFlow, PTL DEF Spec

\* The frames received come first in what was read.
LEMMA FramesRead ==
    ASSUME FlowInv, NEW d \in Directions
    PROVE  /\ Len(Stream(got[d])) <= Len(Given(d))
           /\ \A i \in 1..Len(Stream(got[d])) : Stream(got[d])[i] = Passed(d, i)
           /\ Tampers(d, "truncate") => Len(Stream(got[d])) <= args.at
<1> DEFINE s == Stream(got[d])
           c == Consumed(d)
<1>0. /\ s \in Seq(Byte) /\ Len(s) \in Nat /\ c \in Seq(Byte) /\ Len(c) \in Nat
      /\ line[d] \in Seq(Byte) /\ buf[d] \in Seq(Byte) /\ need[d] \in Nat /\ args.at \in Nat
      /\ Len(Given(d)) \in Nat
  BY DirectionTypes DEF FlowInv
<1>1. /\ Len(c \o line[d]) <= Len(Given(d))
      /\ \A i \in 1..Len(c \o line[d]) : (c \o line[d])[i] = Passed(d, i)
      /\ Tampers(d, "truncate") => Len(c \o line[d]) <= args.at
  BY DEF FlowInv, Direction, Follows
<1>2. \E u \in Seq(Byte) : c = s \o u
  <2>1. pack(need[d]) \in Seq(Byte)
    BY <1>0, Packed
  <2>2. pack(need[d]) \o buf[d] \in Seq(Byte)
    BY <1>0, <2>1
  <2> QED BY <1>0, <2>2 DEF Consumed
<1>3. PICK u \in Seq(Byte) : c = s \o u
  BY <1>2
<1> HIDE DEF s, c
<1>4. Joined(c, s, u) /\ Joined(c \o line[d], c, line[d])
  BY <1>0, <1>3, Join
<1>5. Len(s) <= Len(c) /\ Len(c) <= Len(c \o line[d]) /\ Len(c \o line[d]) \in Nat
  <2>1. /\ Len(c) = Len(s) + Len(u) /\ Len(c \o line[d]) = Len(c) + Len(line[d])
        /\ Len(u) \in Nat /\ Len(line[d]) \in Nat /\ Len(c \o line[d]) \in Nat
    BY <1>4 DEF Joined
  <2>2. \A x, y \in Nat : x <= x + y
    OBVIOUS
  <2>3. Len(s) <= Len(s) + Len(u) /\ Len(c) <= Len(c) + Len(line[d])
    BY <1>0, <2>1, <2>2
  <2> QED BY <2>1, <2>3, Zenon
<1>6. ASSUME NEW i \in 1..Len(s)
      PROVE  s[i] = Passed(d, i)
  <2>1. i \in 1..Len(c) /\ i \in 1..Len(c \o line[d])
    BY <1>0, <1>5
  <2>2. c[i] = s[i] /\ (c \o line[d])[i] = c[i]
    BY <1>4, <2>1 DEF Joined
  <2> QED BY <1>1, <2>1, <2>2
<1>7. /\ Len(s) <= Len(Given(d))
      /\ Tampers(d, "truncate") => Len(s) <= args.at
  BY <1>0, <1>1, <1>5
<1> QED BY <1>6, <1>7 DEF s

-----------------------------------------------------------------------------
\* The state has its shape, however many frames and bytes there are, and
\* recv_exact never holds more than was asked.
THEOREM FramingTypeCorrect == Spec => []TypeOK
<1>1. FlowInv => TypeOK
  <2> SUFFICES ASSUME FlowInv
               PROVE  TypeOK
    OBVIOUS
  <2>1. ASSUME NEW d \in Directions
        PROVE  /\ Len(sent[d]) <= MaxFrames[d] /\ Len(got[d]) <= Len(Stream(sent[d]))
               /\ kind[d] \in {"length", "payload"} /\ Len(buf[d]) <= need[d]
               /\ relay[d] \in {"running", "done"}
    <3>1. /\ got[d] \in Seq(Frame) /\ Len(got[d]) \in Nat
          /\ Len(Stream(got[d])) \in Nat /\ Len(Given(d)) \in Nat
          /\ kind[d] \in {"length", "payload"} /\ relay[d] \in {"running", "done"}
          /\ Len(buf[d]) \in Nat /\ need[d] \in Nat
      <4>1. got[d] \in Seq(Frame)
        BY DirectionTypes DEF FlowInv
      <4>2. Len(got[d]) \in Nat
        BY <4>1
      <4> QED BY <4>1, <4>2, DirectionTypes DEF FlowInv
    <3>2. Len(got[d]) <= Len(Stream(got[d]))
      BY <3>1, StreamLength
    <3>3. Len(Stream(got[d])) <= Len(Given(d))
      BY FramesRead
    <3>4. Len(got[d]) <= Len(Stream(sent[d]))
      <4>1. Len(got[d]) <= Len(Given(d))
        BY ONLY <3>1, <3>2, <3>3
      <4> QED BY <4>1 DEF Given
    <3>5. Len(buf[d]) <= need[d]
      <4>1. Len(buf[d]) < need[d]
        BY DEF FlowInv, Direction, Reading
      <4> QED BY ONLY <3>1, <4>1
    <3>6. Len(sent[d]) <= MaxFrames[d]
      BY DEF FlowInv, Bounded
    <3> QED BY <3>1, <3>4, <3>5, <3>6
  <2>2. link = "down" <=> \E d \in Directions : relay[d] = "done"
    BY DEF FlowInv, Bounded
  <2> QED BY <2>1, <2>2 DEF TypeOK
<1> QED BY <1>1, AlwaysFlow, PTL

\* A message cut short is never taken for a shorter one, nor for the end of a
\* stream, and the frames before a flipped byte are what was sent.
THEOREM Intact == Spec => []FramesIntact
<1>1. FlowInv => FramesIntact
  <2> SUFFICES ASSUME FlowInv, NEW d \in Directions
               PROVE  \/ IsPrefix(got[d], sent[d])
                      \/ /\ Tampers(d, "flip")
                         /\ \A i \in 1..Len(sent[d]) :
                              LET before == SubSeq(sent[d], 1, i) IN
                              Len(Stream(before)) <= args.at =>
                                  IsPrefix(got[d], before) \/ IsPrefix(before, got[d])
    BY DEF FramesIntact
  <2>0. /\ got[d] \in Seq(Frame) /\ sent[d] \in Seq(Frame) /\ args.at \in Nat
        /\ Stream(got[d]) \in Seq(Byte) /\ Len(Stream(got[d])) \in Nat
    BY DirectionTypes DEF FlowInv
  <2>1. /\ Len(Stream(got[d])) <= Len(Given(d))
        /\ \A i \in 1..Len(Stream(got[d])) : Stream(got[d])[i] = Passed(d, i)
    BY FramesRead
  <2>2. CASE ~ Tampers(d, "flip")
    <3>1. Starts(Stream(got[d]), Stream(sent[d]))
      BY <2>1, <2>2 DEF Starts, Passed, Given
    <3>2. IsPrefix(got[d], sent[d])
      BY <2>0, <3>1, FramesOfStart
    <3> QED BY <3>2
  <2>3. CASE Tampers(d, "flip")
    <3>1. ASSUME NEW i \in 1..Len(sent[d]), NEW before, before = SubSeq(sent[d], 1, i),
                 Len(Stream(before)) <= args.at
          PROVE  IsPrefix(got[d], before) \/ IsPrefix(before, got[d])
      <4>1. before \in Seq(Frame) /\ i \in 0..Len(sent[d]) /\ Len(sent[d]) \in i..Len(sent[d])
        BY <2>0, <3>1
      <4>2. Stream(before) \in Seq(Byte) /\ Len(Stream(before)) \in Nat
        BY <4>1, AllFrames
      <4>3. Starts(Stream(before), Given(d))
        <5>1. Starts(Stream(before), Stream(SubSeq(sent[d], 1, Len(sent[d]))))
          BY <2>0, <3>1, <4>1, StreamStarts
        <5>2. SubSeq(sent[d], 1, Len(sent[d])) = sent[d]
          BY <2>0, AllFrames
        <5> QED BY <5>1, <5>2 DEF Given
      <4>4. ASSUME NEW j \in 1..Len(Stream(got[d])), j <= Len(Stream(before))
            PROVE  Stream(got[d])[j] = Stream(before)[j]
        <5>1. j \in 1..Len(Stream(before)) /\ j # args.at + 1
          BY <2>0, <3>1, <4>2, <4>4
        <5>2. Stream(got[d])[j] = Given(d)[j]
          BY <2>1, <5>1 DEF Passed
        <5>3. Stream(before)[j] = Given(d)[j]
          BY <4>3, <5>1 DEF Starts
        <5> QED BY <5>2, <5>3
      <4>5. Agree(Stream(got[d]), Stream(before))
        BY <4>4 DEF Agree
      <4>6. Agree(got[d], before)
        BY <2>0, <4>1, <4>5, Parse
      <4> QED BY <2>0, <4>1, <4>6, AgreePrefix
    <3> QED BY <2>3, <3>1
  <2> QED BY <2>2, <2>3
<1> QED BY <1>1, AlwaysFlow, PTL

\* Nothing after the cutoff is received, wherever in a frame it falls.
THEOREM CutoffHolds == Spec => []NothingPastCutoff
<1>1. FlowInv => NothingPastCutoff
  BY FramesRead DEF NothingPastCutoff
<1> QED BY <1>1, AlwaysFlow, PTL
=============================================================================
