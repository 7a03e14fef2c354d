------------------------ MODULE DeltaTransfer_proofs ------------------------
(***************************************************************************)
(* Proofs about DeltaTransfer, for every modulus, every block size and     *)
(* every pair of files: the rolling checksum is the checksum, the matcher  *)
(* overlooks no block and agrees with the script, and what is patched is   *)
(* the source.                                                             *)
(***************************************************************************)
EXTENDS DeltaTransfer, SequenceTheorems, Induction, TLAPS

-----------------------------------------------------------------------------
(* Arithmetic modulo Modulus.                                              *)

Cong(x, y) == \E q \in Int : x = y + q * Modulus

\* Division with a remainder.
LEMMA DivMod == \A n \in Int : n > 0 => \A x \in Int : x = n * (x \div n) + (x % n)
OBVIOUS

\* What is reduced is a byte.
LEMMA ModBytes == \A x \in Int : x % Modulus \in Bytes
BY DeltaAssumption DEF Bytes

\* What is added to a multiple is the remainder.
LEMMA ModOfSum ==
    ASSUME NEW n \in Int, n > 0, NEW q \in Int, NEW r \in 0 .. n - 1
    PROVE  (q * n + r) % n = r
OBVIOUS

\* Congruent numbers have the same remainder ...
LEMMA CongEqual ==
    ASSUME NEW x \in Int, NEW y \in Int, Cong(x, y)
    PROVE  x % Modulus = y % Modulus
<1>1. Modulus \in Int /\ Modulus > 0
  BY DeltaAssumption
<1>2. PICK q \in Int : x = y + q * Modulus
  BY DEF Cong
<1>3. y = Modulus * (y \div Modulus) + (y % Modulus) /\ (y \div Modulus) \in Int
      /\ y % Modulus \in 0 .. Modulus - 1
  BY <1>1, DivMod
<1>. DEFINE d == y \div Modulus
            r == y % Modulus
<1>4. d \in Int /\ r \in 0 .. Modulus - 1 /\ y = Modulus * d + r
  BY <1>3
<1>. HIDE DEF d, r
<1>5. x = (d + q) * Modulus + r /\ y = d * Modulus + r /\ d + q \in Int
  BY <1>1, <1>2, <1>4
<1>. QED BY <1>1, <1>4, <1>5, ModOfSum

\* ... and a number is congruent to its remainder.
LEMMA CongMod ==
    ASSUME NEW x \in Int
    PROVE  Cong(x % Modulus, x) /\ Cong(x, x % Modulus)
<1>1. Modulus \in Int /\ Modulus > 0
  BY DeltaAssumption
<1>. DEFINE d == x \div Modulus
            r == x % Modulus
<1>2. d \in Int /\ r \in Int /\ x = Modulus * d + r
  BY <1>1, DivMod
<1>. HIDE DEF d, r
<1>3. x = r + d * Modulus /\ r = x + (-d) * Modulus /\ -d \in Int
  BY <1>1, <1>2
<1>4. Cong(r, x) /\ Cong(x, r)
  BY <1>2, <1>3 DEF Cong
<1>. QED BY <1>4 DEF r

\* Congruence is an equivalence that sums and differences respect.
LEMMA CongSame == ASSUME NEW x \in Int PROVE Cong(x, x)
<1>1. x = x + 0 * Modulus
  BY DeltaAssumption
<1>. QED BY <1>1 DEF Cong

\* Sums and differences of congruent numbers are congruent.
LEMMA CongSum ==
    ASSUME NEW x \in Int, NEW y \in Int, NEW u \in Int, NEW v \in Int, Cong(x, y), Cong(u, v)
    PROVE  Cong(x + u, y + v) /\ Cong(x - u, y - v)
<1>1. PICK q \in Int : x = y + q * Modulus
  BY DEF Cong
<1>2. PICK p \in Int : u = v + p * Modulus
  BY DEF Cong
<1>3. /\ x + u = (y + v) + (q + p) * Modulus
      /\ x - u = (y - v) + (q - p) * Modulus
  BY <1>1, <1>2, DeltaAssumption
<1>. QED BY <1>3 DEF Cong

\* Congruence is transitive.
LEMMA CongVia ==
    ASSUME NEW x \in Int, NEW y \in Int, NEW z \in Int, Cong(x, y), Cong(y, z)
    PROVE  Cong(x, z)
<1>1. PICK q \in Int : x = y + q * Modulus
  BY DEF Cong
<1>2. PICK p \in Int : y = z + p * Modulus
  BY DEF Cong
<1>3. x = z + (q + p) * Modulus
  BY <1>1, <1>2, DeltaAssumption
<1>. QED BY <1>3 DEF Cong

-----------------------------------------------------------------------------
(* The checksum.                                                           *)

\* The loops of RollingChecksum::new.
SumStep(terms, f, k) == IF k = 0 THEN 0 ELSE (f[k - 1] + terms[k]) % Modulus

\* The recursion is one: there is a function of the kind Sums is.
LEMMA SumsExist ==
    ASSUME NEW terms \in Seq(Int)
    PROVE  \E f : f = [k \in 0 .. Len(terms) |-> SumStep(terms, f, k)]
<1>. DEFINE T == {n \in Nat : \E f \in [0 .. Len(terms) -> Bytes] :
                     \A k \in 0 .. Len(terms) : k < n => f[k] = SumStep(terms, f, k)}
<1>0. 0 \in Bytes /\ Len(terms) \in Nat
  BY DeltaAssumption DEF Bytes
<1>1. 0 \in T
  <2>1. [k \in 0 .. Len(terms) |-> 0] \in [0 .. Len(terms) -> Bytes]
    BY <1>0
  <2>2. \A k \in 0 .. Len(terms) : ~(k < 0)
    BY <1>0
  <2>. QED BY <2>1, <2>2
<1>2. ASSUME NEW n \in Nat, n \in T
      PROVE  n + 1 \in T
  <2>1. PICK f \in [0 .. Len(terms) -> Bytes] :
          \A k \in 0 .. Len(terms) : k < n => f[k] = SumStep(terms, f, k)
    BY <1>2
  <2>. DEFINE g == [k \in 0 .. Len(terms) |-> IF k = n THEN SumStep(terms, f, k) ELSE f[k]]
  <2>2. \A k \in 0 .. Len(terms) : SumStep(terms, f, k) \in Bytes
    <3>. SUFFICES ASSUME NEW k \in 0 .. Len(terms), k # 0
                  PROVE  (f[k - 1] + terms[k]) % Modulus \in Bytes
      BY <1>0 DEF SumStep
    <3>1. f[k - 1] \in Int /\ terms[k] \in Int
      <4>1. k - 1 \in 0 .. Len(terms) /\ k \in 1 .. Len(terms)
        BY <1>0
      <4>2. f[k - 1] \in Bytes /\ terms[k] \in Int
        BY <4>1
      <4>. QED BY <4>2, DeltaAssumption DEF Bytes
    <3>. QED BY <3>1, ModBytes
  <2>3. g \in [0 .. Len(terms) -> Bytes]
    BY <2>2
  <2>4. ASSUME NEW k \in 0 .. Len(terms), k < n + 1
        PROVE  g[k] = SumStep(terms, g, k)
    <3>1. k # 0 => k - 1 \in 0 .. Len(terms) /\ k - 1 # n
      BY <1>0, <2>4
    <3>2. SumStep(terms, g, k) = SumStep(terms, f, k)
      BY <3>1 DEF SumStep
    <3>3. k # n => k < n
      BY <2>4
    <3>. QED BY <2>1, <3>2, <3>3
  <2>. HIDE DEF g
  <2>5. \E h \in [0 .. Len(terms) -> Bytes] :
          \A k \in 0 .. Len(terms) : k < n + 1 => h[k] = SumStep(terms, h, k)
    BY <2>3, <2>4
  <2>. QED BY <2>5
<1>. HIDE DEF T
<1>3. Len(terms) + 1 \in T
  BY <1>0, <1>1, <1>2, SetInduction
<1>4. PICK f \in [0 .. Len(terms) -> Bytes] :
        \A k \in 0 .. Len(terms) : k < Len(terms) + 1 => f[k] = SumStep(terms, f, k)
  BY <1>3 DEF T
<1>5. \A k \in 0 .. Len(terms) : f[k] = SumStep(terms, f, k)
  BY <1>0, <1>4
<1>6. f = [k \in 0 .. Len(terms) |-> SumStep(terms, f, k)]
  BY <1>5
<1>. QED BY <1>6

\* Sums is a function of the kind its recursion says.
LEMMA SumsUnfold ==
    ASSUME NEW terms \in Seq(Int)
    PROVE  Sums(terms) = [k \in 0 .. Len(terms) |-> SumStep(terms, Sums(terms), k)]
BY SumsExist DEF Sums, SumStep

\* The sums begin at 0, add one term after the other, and stay reduced.
LEMMA SumsAre ==
    ASSUME NEW terms \in Seq(Int)
    PROVE  /\ Sums(terms)[0] = 0
           /\ \A k \in 1 .. Len(terms) :
                Sums(terms)[k] = (Sums(terms)[k - 1] + terms[k]) % Modulus
           /\ \A k \in 0 .. Len(terms) : Sums(terms)[k] \in Bytes
<1>0. Len(terms) \in Nat /\ 0 \in Bytes
  BY DeltaAssumption DEF Bytes
<1>1. \A k \in 0 .. Len(terms) : Sums(terms)[k] = SumStep(terms, Sums(terms), k)
  <2>. DEFINE f == Sums(terms)
  <2>1. f = [k \in 0 .. Len(terms) |-> SumStep(terms, f, k)]
    BY SumsUnfold
  <2>. HIDE DEF f
  <2>2. \A k \in 0 .. Len(terms) : f[k] = SumStep(terms, f, k)
    BY <2>1
  <2>. QED BY <2>2 DEF f
<1>2. Sums(terms)[0] = 0
  BY <1>0, <1>1 DEF SumStep
<1>3. \A k \in 1 .. Len(terms) : Sums(terms)[k] = (Sums(terms)[k - 1] + terms[k]) % Modulus
  BY <1>0, <1>1 DEF SumStep
<1>4. \A k \in 0 .. Len(terms) : Sums(terms)[k] \in Bytes
  <2>. DEFINE T == {n \in Nat : n <= Len(terms) => Sums(terms)[n] \in Bytes}
  <2>1. 0 \in T
    BY <1>0, <1>2
  <2>2. ASSUME NEW n \in Nat, n \in T
        PROVE  n + 1 \in T
    <3>. SUFFICES ASSUME n + 1 <= Len(terms)
                  PROVE  Sums(terms)[n + 1] \in Bytes
      OBVIOUS
    <3>1. n + 1 \in 1 .. Len(terms) /\ (n + 1) - 1 = n
      BY <1>0
    <3>2. Sums(terms)[n] \in Int
      <4>1. Sums(terms)[n] \in Bytes
        BY <1>0, <2>2
      <4>. QED BY <4>1, DeltaAssumption DEF Bytes
    <3>3. Sums(terms)[n + 1] = (Sums(terms)[n] + terms[n + 1]) % Modulus
      BY <1>3, <3>1
    <3>. QED BY <3>1, <3>2, <3>3, ModBytes
  <2>. HIDE DEF T
  <2>3. Nat \subseteq T
    BY <2>1, <2>2, SetInduction
  <2>. QED BY <1>0, <2>3 DEF T
<1>. QED BY <1>2, <1>3, <1>4

\* y is x and a term more.
Adds(y, x, term) == Cong(y, x + term)

\* The next sum, up to multiples of the modulus.
LEMMA SumsCong ==
    ASSUME NEW terms \in Seq(Int), NEW k \in 1 .. Len(terms)
    PROVE  /\ Sums(terms)[k] \in Int /\ Sums(terms)[k - 1] \in Int /\ terms[k] \in Int
           /\ Adds(Sums(terms)[k], Sums(terms)[k - 1], terms[k])
<1>1. k \in 0 .. Len(terms) /\ k - 1 \in 0 .. Len(terms)
  OBVIOUS
<1>2. Sums(terms)[k] \in Bytes /\ Sums(terms)[k - 1] \in Bytes
  BY <1>1, SumsAre
<1>3. Sums(terms)[k] \in Int /\ Sums(terms)[k - 1] \in Int /\ terms[k] \in Int
  BY <1>2, DeltaAssumption DEF Bytes
<1>4. Sums(terms)[k] = (Sums(terms)[k - 1] + terms[k]) % Modulus
  BY SumsAre
<1>. QED BY <1>3, <1>4, CongMod DEF Adds

\* The terms of both sums.
LEMMA Terms ==
    ASSUME NEW buf \in Seq(Bytes)
    PROVE  /\ buf \in Seq(Int) /\ Weighted(buf) \in Seq(Int)
           /\ Len(Weighted(buf)) = Len(buf) /\ Len(buf) \in Nat
           /\ \A k \in 1 .. Len(buf) :
                buf[k] \in Bytes /\ Weighted(buf)[k] = (Len(buf) - k + 1) * buf[k]
<1>1. /\ Len(buf) \in Nat /\ DOMAIN buf = 1 .. Len(buf)
      /\ \A k \in 1 .. Len(buf) : buf[k] \in Bytes /\ buf[k] \in Int
  BY DeltaAssumption DEF Bytes
<1>2. Weighted(buf) = [k \in 1 .. Len(buf) |-> (Len(buf) - k + 1) * buf[k]]
  BY <1>1 DEF Weighted
<1>3. \A k \in 1 .. Len(buf) : (Len(buf) - k + 1) * buf[k] \in Int
  BY <1>1
<1>4. Weighted(buf) \in [1 .. Len(buf) -> Int]
  BY <1>2, <1>3
<1>5. Weighted(buf) \in Seq(Int) /\ Len(Weighted(buf)) = Len(buf)
  BY <1>1, <1>4
<1>6. buf \in Seq(Int)
  BY DeltaAssumption DEF Bytes
<1>. QED BY <1>1, <1>2, <1>5, <1>6

\* A checksum is reduced, and a weak hash is a number.
LEMMA ChecksumType ==
    ASSUME NEW buf \in Seq(Bytes)
    PROVE  Checksum(buf) \in [a : Bytes, b : Bytes, len : Nat] /\ WeakHash(buf) \in Nat
<1>1. Len(buf) \in 0 .. Len(buf) /\ Len(buf) \in Nat
  OBVIOUS
<1>2. Sums(buf)[Len(buf)] \in Bytes /\ Sums(Weighted(buf))[Len(buf)] \in Bytes
  BY <1>1, Terms, SumsAre
<1>3. Checksum(buf) \in [a : Bytes, b : Bytes, len : Nat]
  BY <1>1, <1>2 DEF Checksum
<1>4. \A x, y \in Bytes : x * Modulus + y \in Nat
  BY DeltaAssumption DEF Bytes
<1>. QED BY <1>3, <1>4 DEF WeakHash, WeakOf

\* The sums c, d of the next window are those of a window, a and b, one term behind:
\* without its first byte, which has been weighted with the length.
Behind(c, d, a, b, old, weighted) == Cong(c, a - old) /\ Cong(d, b - weighted + c)

\* They stay so when both go on by the same byte, which has one more weight in the
\* next window.
LEMMA BehindStep ==
    ASSUME NEW a1 \in Int, NEW a2 \in Int, NEW b1 \in Int, NEW b2 \in Int,
           NEW c1 \in Int, NEW c2 \in Int, NEW d1 \in Int, NEW d2 \in Int,
           NEW old \in Int, NEW weighted \in Int, NEW x \in Int, NEW t \in Int, NEW u \in Int,
           u = t + x, Behind(c1, d1, a1, b1, old, weighted),
           Adds(a2, a1, x), Adds(c2, c1, x), Adds(b2, b1, t), Adds(d2, d1, u)
    PROVE  Behind(c2, d2, a2, b2, old, weighted)
<1>. USE DEF Behind, Adds, Cong
<1>1. PICK q1 \in Int : c1 = (a1 - old) + q1 * Modulus
  OBVIOUS
<1>2. PICK q2 \in Int : d1 = (b1 - weighted + c1) + q2 * Modulus
  OBVIOUS
<1>3. PICK q3 \in Int : a2 = (a1 + x) + q3 * Modulus
  OBVIOUS
<1>4. PICK q4 \in Int : c2 = (c1 + x) + q4 * Modulus
  OBVIOUS
<1>5. PICK q5 \in Int : b2 = (b1 + t) + q5 * Modulus
  OBVIOUS
<1>6. PICK q6 \in Int : d2 = (d1 + u) + q6 * Modulus
  OBVIOUS
<1>. HIDE DEF Behind, Adds, Cong
<1>7. c2 = (a2 - old) + (q1 + q4 - q3) * Modulus
  BY <1>1, <1>3, <1>4, DeltaAssumption
<1>8. d2 = (b2 - weighted + c2) + (q2 + q6 - q5 - q4) * Modulus
  BY <1>2, <1>4, <1>5, <1>6, DeltaAssumption
<1>. QED BY <1>7, <1>8 DEF Behind, Cong

\* The sums of the first byte are the first step.
LEMMA BehindFirst ==
    ASSUME NEW a \in Int, NEW b \in Int, NEW old \in Int, NEW weighted \in Int,
           Adds(a, 0, old), Adds(b, 0, weighted)
    PROVE  Behind(0, 0, a, b, old, weighted)
<1>1. PICK q \in Int : a = (0 + old) + q * Modulus
  BY DEF Adds, Cong
<1>2. PICK p \in Int : b = (0 + weighted) + p * Modulus
  BY DEF Adds, Cong
<1>3. 0 = (a - old) + (-q) * Modulus /\ -q \in Int
  BY <1>1, DeltaAssumption
<1>4. 0 = (b - weighted + 0) + (-p) * Modulus /\ -p \in Int
  BY <1>2, DeltaAssumption
<1>. QED BY <1>3, <1>4 DEF Behind, Cong

\* A reduced number is its own remainder.
LEMMA ModSmall == ASSUME NEW c \in Bytes PROVE c % Modulus = c
<1>1. Modulus \in Int /\ Modulus > 0 /\ c \in 0 .. Modulus - 1 /\ 0 * Modulus + c = c
  BY DeltaAssumption DEF Bytes
<1>. QED BY <1>1, ModOfSum

\* What roll computes of a and b.
Rolled(c, d, a, b, old, weighted, x) ==
    /\ (Modulus + a + x - old) % Modulus = c
    /\ (Modulus + b + c - (weighted % Modulus)) % Modulus = d

\* The last step is that.
LEMMA BehindLast ==
    ASSUME NEW a \in Int, NEW b \in Int, NEW c0 \in Int, NEW d0 \in Int,
           NEW c \in Bytes, NEW d \in Bytes, NEW old \in Int, NEW weighted \in Int,
           NEW x \in Int, Behind(c0, d0, a, b, old, weighted), Adds(c, c0, x), Adds(d, d0, x)
    PROVE  Rolled(c, d, a, b, old, weighted, x)
<1>1. Modulus \in Int /\ c \in Int /\ d \in Int
  BY DeltaAssumption DEF Bytes
<1>2. PICK q \in Int : c = (c0 + x) + q * Modulus
  BY DEF Adds, Cong
<1>3. PICK p \in Int : c0 = (a - old) + p * Modulus
  BY DEF Behind, Cong
<1>4. PICK s \in Int : d = (d0 + x) + s * Modulus
  BY DEF Adds, Cong
<1>5. PICK r \in Int : d0 = (b - weighted + c0) + r * Modulus
  BY DEF Behind, Cong
<1>6. PICK u \in Int : weighted % Modulus = weighted + u * Modulus
  BY CongMod DEF Cong
<1>7. Modulus + a + x - old = c + (1 - q - p) * Modulus
  BY <1>1, <1>2, <1>3
<1>8. (Modulus + a + x - old) % Modulus = c % Modulus
  <2>1. Cong(Modulus + a + x - old, c)
    BY <1>7 DEF Cong
  <2>2. Modulus + a + x - old \in Int
    BY <1>1
  <2>. QED BY <1>1, <2>1, <2>2, CongEqual
<1>. DEFINE e == weighted % Modulus
<1>9. e = weighted + u * Modulus /\ e \in Int
  BY <1>1, <1>6
<1>. HIDE DEF e
<1>10. Modulus + b + c - e = d + (1 + q - u - r - s) * Modulus
  BY <1>1, <1>2, <1>4, <1>5, <1>9
<1>11. (Modulus + b + c - e) % Modulus = d % Modulus
  <2>1. Cong(Modulus + b + c - e, d)
    BY <1>10 DEF Cong
  <2>2. Modulus + b + c - e \in Int
    BY <1>1, <1>9
  <2>. QED BY <1>1, <2>1, <2>2, CongEqual
<1>. QED BY <1>8, <1>11, ModSmall DEF e, Rolled

\* The rolled checksum of a window is the checksum of the next window.
LEMMA RollIsChecksum ==
    ASSUME NEW w \in Seq(Bytes), NEW v \in Seq(Bytes), Len(v) = Len(w), Len(w) > 0,
           \A k \in 1 .. Len(w) - 1 : v[k] = w[k + 1]
    PROVE  Roll(Checksum(w), w[1], v[Len(v)]) = Checksum(v)
<1>. DEFINE n == Len(w)
            A == Sums(w)
            B == Sums(Weighted(w))
            C == Sums(v)
            D == Sums(Weighted(v))
            old == w[1]
            weighted == n * old
<1>1. n \in Nat /\ n > 0 /\ Len(v) = n
  BY Terms
<1>a. /\ w \in Seq(Int) /\ Weighted(w) \in Seq(Int) /\ Len(Weighted(w)) = n
      /\ \A k \in 1 .. n : w[k] \in Bytes /\ Weighted(w)[k] = (n - k + 1) * w[k]
  BY Terms
<1>b. /\ v \in Seq(Int) /\ Weighted(v) \in Seq(Int) /\ Len(Weighted(v)) = n
      /\ \A k \in 1 .. n : v[k] \in Bytes /\ Weighted(v)[k] = (n - k + 1) * v[k]
  BY Terms
<1>i. \A k \in 1 .. n : w[k] \in Int /\ v[k] \in Int
  BY <1>a, <1>b, DeltaAssumption DEF Bytes
<1>2. A[0] = 0 /\ B[0] = 0 /\ C[0] = 0 /\ D[0] = 0
  BY <1>a, <1>b, SumsAre
<1>3. \A k \in 1 .. n :
        /\ A[k] \in Int /\ B[k] \in Int /\ C[k] \in Int /\ D[k] \in Int
        /\ Adds(A[k], A[k - 1], w[k]) /\ Adds(B[k], B[k - 1], (n - k + 1) * w[k])
        /\ Adds(C[k], C[k - 1], v[k]) /\ Adds(D[k], D[k - 1], (n - k + 1) * v[k])
  <2>. SUFFICES ASSUME NEW k \in 1 .. n
                PROVE  /\ A[k] \in Int /\ B[k] \in Int /\ C[k] \in Int /\ D[k] \in Int
                       /\ Adds(A[k], A[k - 1], w[k]) /\ Adds(B[k], B[k - 1], Weighted(w)[k])
                       /\ Adds(C[k], C[k - 1], v[k]) /\ Adds(D[k], D[k - 1], Weighted(v)[k])
    BY <1>a, <1>b
  <2>1. A[k] \in Int /\ Adds(A[k], A[k - 1], w[k])
    BY <1>a, SumsCong
  <2>2. B[k] \in Int /\ Adds(B[k], B[k - 1], Weighted(w)[k])
    BY <1>a, SumsCong
  <2>3. C[k] \in Int /\ Adds(C[k], C[k - 1], v[k])
    BY <1>1, <1>b, SumsCong
  <2>4. D[k] \in Int /\ Adds(D[k], D[k - 1], Weighted(v)[k])
    BY <1>b, SumsCong
  <2>. QED BY <2>1, <2>2, <2>3, <2>4
<1>4. \A k \in 0 .. n : A[k] \in Int /\ B[k] \in Int /\ C[k] \in Int /\ D[k] \in Int
  BY <1>1, <1>2, <1>3
<1>5. C[n] \in Bytes /\ D[n] \in Bytes
  BY <1>1, <1>b, SumsAre
<1>6. 1 \in 1 .. n /\ n \in 1 .. n /\ old \in Int /\ weighted \in Int
  BY <1>1, <1>i
<1>7. /\ Checksum(w) = [a |-> A[n], b |-> B[n], len |-> n]
      /\ Checksum(v) = [a |-> C[n], b |-> D[n], len |-> n]
  BY DEF Checksum
<1>. HIDE DEF A, B, C, D, weighted
<1>. DEFINE P(k) == Behind(C[k], D[k], A[k + 1], B[k + 1], old, weighted)
            T == {k \in Nat : k < n => P(k)}
<1>8. 0 \in T
  <2>1. Adds(A[1], 0, old) /\ Adds(B[1], 0, weighted)
    <3>1. 1 - 1 = 0 /\ n - 1 + 1 = n
      BY <1>1
    <3>. QED BY <1>2, <1>3, <1>6, <3>1 DEF weighted
  <2>2. P(0)
    BY <1>2, <1>3, <1>6, <2>1, BehindFirst
  <2>. QED BY <2>2
<1>9. ASSUME NEW k \in Nat, k \in T
      PROVE  k + 1 \in T
  <2>. SUFFICES ASSUME k + 1 < n PROVE P(k + 1)
    OBVIOUS
  <2>1. P(k)
    BY <1>1, <1>9
  <2>2. /\ k \in 0 .. n /\ k + 1 \in 1 .. n /\ k + 2 \in 1 .. n /\ k + 1 \in 0 .. n /\ k + 2 \in 0 .. n
        /\ (k + 1) + 1 = k + 2 /\ (k + 2) - 1 = k + 1 /\ (k + 1) - 1 = k
        /\ k + 1 \in 1 .. n - 1
    BY <1>1
  <2>. DEFINE x == w[k + 2]
              m == n - (k + 2) + 1
              t == m * x
              j == n - (k + 1) + 1
              u == j * x
  <2>3. v[k + 1] = x /\ x \in Int /\ m \in Int
    BY <1>1, <1>i, <2>2
  <2>4. t \in Int /\ u \in Int /\ u = t + x
    <3>1. j = m + 1
      BY <1>1
    <3>. HIDE DEF x, m, j
    <3>2. (m + 1) * x = m * x + x /\ m * x \in Int
      BY <2>3
    <3>. QED BY <2>3, <3>1, <3>2
  <2>5. Adds(A[k + 2], A[k + 1], x) /\ Adds(B[k + 2], B[k + 1], t)
    BY <1>3, <2>2
  <2>6. Adds(C[k + 1], C[k], x) /\ Adds(D[k + 1], D[k], u)
    BY <1>3, <2>2, <2>3
  <2>7. /\ A[k + 1] \in Int /\ A[k + 2] \in Int /\ B[k + 1] \in Int /\ B[k + 2] \in Int
        /\ C[k] \in Int /\ C[k + 1] \in Int /\ D[k] \in Int /\ D[k + 1] \in Int
    BY <1>4, <2>2
  <2>. HIDE DEF x, t, u, m
  <2>8. Behind(C[k + 1], D[k + 1], A[k + 2], B[k + 2], old, weighted)
    <3>. DEFINE a1 == A[k + 1]
                a2 == A[k + 2]
                b1 == B[k + 1]
                b2 == B[k + 2]
                c1 == C[k]
                c2 == C[k + 1]
                d1 == D[k]
                d2 == D[k + 1]
    <3>1. /\ a1 \in Int /\ a2 \in Int /\ b1 \in Int /\ b2 \in Int
          /\ c1 \in Int /\ c2 \in Int /\ d1 \in Int /\ d2 \in Int
      BY <2>7
    <3>2. x \in Int /\ t \in Int /\ u \in Int /\ u = t + x
      BY <2>3, <2>4
    <3>3. Behind(c1, d1, a1, b1, old, weighted)
      BY <2>1
    <3>4. Adds(a2, a1, x) /\ Adds(c2, c1, x) /\ Adds(b2, b1, t) /\ Adds(d2, d1, u)
      BY <2>5, <2>6
    <3>. HIDE DEF a1, a2, b1, b2, c1, c2, d1, d2, old, n
    <3>5. Behind(c2, d2, a2, b2, old, weighted)
      BY <1>6, <3>1, <3>2, <3>3, <3>4, BehindStep
    <3>. QED BY <3>5 DEF a2, b2, c2, d2
  <2>. QED BY <2>2, <2>8
<1>. HIDE DEF T
<1>10. P(n - 1)
  <2>1. n - 1 \in Nat /\ n - 1 < n
    BY <1>1
  <2>2. n - 1 \in T
    BY <1>8, <1>9, <2>1, SetInduction
  <2>. QED BY <2>1, <2>2 DEF T
<1>11. n - 1 \in 0 .. n /\ n \in 0 .. n /\ (n - 1) + 1 = n /\ n - n + 1 = 1
  BY <1>1
<1>. DEFINE x == v[n]
<1>12. x \in Int /\ Adds(C[n], C[n - 1], x) /\ Adds(D[n], D[n - 1], x)
  <2>1. Adds(C[n], C[n - 1], v[n]) /\ Adds(D[n], D[n - 1], 1 * v[n])
    BY <1>3, <1>6, <1>11
  <2>2. v[n] \in Int /\ 1 * v[n] = v[n]
    BY <1>i, <1>6
  <2>. QED BY <2>1, <2>2
<1>13. /\ A[n] \in Int /\ B[n] \in Int /\ C[n - 1] \in Int /\ D[n - 1] \in Int
       /\ Behind(C[n - 1], D[n - 1], A[n], B[n], old, weighted)
  BY <1>4, <1>10, <1>11
<1>. HIDE DEF x, n, old
<1>14. /\ (Modulus + A[n] + x - old) % Modulus = C[n]
       /\ (Modulus + B[n] + C[n] - (weighted % Modulus)) % Modulus = D[n]
  <2>1. Rolled(C[n], D[n], A[n], B[n], old, weighted, x)
    BY <1>5, <1>6, <1>12, <1>13, BehindLast
  <2>. QED BY <2>1 DEF Rolled
<1>15. Roll([a |-> A[n], b |-> B[n], len |-> n], old, x) = [a |-> C[n], b |-> D[n], len |-> n]
  <2>. DEFINE r == [a |-> A[n], b |-> B[n], len |-> n]
  <2>1. r.a = A[n] /\ r.b = B[n] /\ r.len * old = weighted
    BY DEF weighted
  <2>2. Roll(r, old, x) = [r EXCEPT !.a = C[n], !.b = D[n]]
    BY <1>14, <2>1 DEF Roll
  <2>. QED BY <2>2
<1>. QED BY <1>1, <1>7, <1>15 DEF old, x, n

-----------------------------------------------------------------------------
(* Pieces of a file.                                                       *)

\* A piece within the file has its type, its length and its bytes.
LEMMA SliceFits ==
    ASSUME NEW S, NEW buf \in Seq(S), NEW from \in Nat, NEW to \in Nat,
           from <= to, to <= Len(buf)
    PROVE  /\ Slice(buf, from, to) \in Seq(S)
           /\ Len(Slice(buf, from, to)) = to - from
           /\ \A k \in 1 .. to - from : Slice(buf, from, to)[k] = buf[from + k]
<1>1. Len(buf) \in Nat /\ from + 1 \in Nat /\ to - (from + 1) + 1 = to - from
  OBVIOUS
<1>2. CASE from = to
  <2>1. Slice(buf, from, to) = <<>>
    BY <1>1, <1>2, SubSeqEmpty DEF Slice
  <2>. QED BY <1>2, <2>1
<1>3. CASE from < to
  <2>1. \A k \in from + 1 .. to : buf[k] \in S
    BY <1>1
  <2>2. /\ Slice(buf, from, to) \in Seq(S)
        /\ Len(Slice(buf, from, to)) = to - from
    BY <1>1, <1>3, <2>1, SubSeqProperties DEF Slice
  <2>3. \A k \in 1 .. to - from : Slice(buf, from, to)[k] = buf[from + k]
    BY <1>1, <1>3, SubSeqProperties DEF Slice
  <2>. QED BY <2>2, <2>3
<1>. QED BY <1>1, <1>2, <1>3

\* The same for a file, in one word.
IsPiece(piece, buf, from, to) ==
    /\ piece \in Seq(Bytes)
    /\ Len(piece) = to - from
    /\ \A k \in 1 .. to - from : piece[k] = buf[from + k]

\* A slice within a buffer is the piece it should be.
LEMMA PieceFits ==
    ASSUME NEW buf \in Seq(Bytes), NEW from \in Nat, NEW to \in Nat, from <= to, to <= Len(buf)
    PROVE  IsPiece(Slice(buf, from, to), buf, from, to)
BY SliceFits DEF IsPiece

\* A piece of a piece, and a piece and the piece that follows it.
LEMMA SliceOfSlice ==
    ASSUME NEW buf \in Seq(Bytes), NEW from \in Nat, NEW to \in Nat, NEW m \in Nat, NEW n \in Nat,
           from <= to, to <= Len(buf), m <= n, n <= to - from
    PROVE  Slice(Slice(buf, from, to), m, n) = Slice(buf, from + m, from + n)
<1>. DEFINE piece == Slice(buf, from, to)
<1>0. Len(buf) \in Nat
  OBVIOUS
<1>1. /\ piece \in Seq(Bytes) /\ Len(piece) = to - from
      /\ \A k \in 1 .. to - from : piece[k] = buf[from + k]
  BY SliceFits
<1>. HIDE DEF piece
<1>2. /\ Slice(piece, m, n) \in Seq(Bytes) /\ Len(Slice(piece, m, n)) = n - m
      /\ \A k \in 1 .. n - m : Slice(piece, m, n)[k] = piece[m + k]
  <2>1. n <= Len(piece) /\ piece \in Seq(Bytes)
    BY <1>1
  <2>. QED BY <2>1, SliceFits
<1>3. /\ from + m \in Nat /\ from + n \in Nat /\ from + m <= from + n /\ from + n <= Len(buf)
      /\ (from + n) - (from + m) = n - m
  BY <1>0
<1>4. /\ Slice(buf, from + m, from + n) \in Seq(Bytes) /\ Len(Slice(buf, from + m, from + n)) = n - m
      /\ \A k \in 1 .. n - m : Slice(buf, from + m, from + n)[k] = buf[(from + m) + k]
  <2>. DEFINE f == from + m
              t == from + n
  <2>1. f \in Nat /\ t \in Nat /\ f <= t /\ t <= Len(buf) /\ t - f = n - m
    BY <1>3
  <2>. HIDE DEF f, t
  <2>2. /\ Slice(buf, f, t) \in Seq(Bytes) /\ Len(Slice(buf, f, t)) = t - f
        /\ \A k \in 1 .. t - f : Slice(buf, f, t)[k] = buf[f + k]
    <3>1. IsPiece(Slice(buf, f, t), buf, f, t)
      BY <2>1, PieceFits
    <3>. QED BY <3>1 DEF IsPiece
  <2>. QED BY <2>1, <2>2 DEF f, t
<1>5. \A k \in 1 .. n - m : m + k \in 1 .. to - from /\ from + (m + k) = (from + m) + k
  OBVIOUS
<1>6. \A k \in 1 .. n - m : Slice(piece, m, n)[k] = Slice(buf, from + m, from + n)[k]
  BY <1>1, <1>2, <1>4, <1>5
<1>7. Slice(piece, m, n) = Slice(buf, from + m, from + n)
  BY <1>2, <1>4, <1>6, SeqEqual
<1>. QED BY <1>7 DEF piece

\* Adjacent slices make up the slice over both.
LEMMA SliceAdjacent ==
    ASSUME NEW buf \in Seq(Bytes), NEW from \in Nat, NEW mid \in Nat, NEW to \in Nat,
           from <= mid, mid <= to, to <= Len(buf)
    PROVE  Slice(buf, from, mid) \o Slice(buf, mid, to) = Slice(buf, from, to)
<1>1. /\ from + 1 \in 1 .. Len(buf) + 1 /\ mid \in (from + 1) - 1 .. Len(buf)
      /\ to \in mid .. Len(buf)
  OBVIOUS
<1>. QED BY <1>1, ConcatAdjacentSubSeq DEF Slice

\* The slice over all of a buffer is the buffer.
LEMMA SliceAll ==
    ASSUME NEW buf \in Seq(Bytes)
    PROVE  Slice(buf, 0, Len(buf)) = buf
BY SubSeqFull DEF Slice

\* A slice from a position to itself is empty.
LEMMA SliceNothing ==
    ASSUME NEW buf, NEW from \in Nat
    PROVE  Slice(buf, from, from) = <<>>
<1>1. from + 1 \in Int /\ from \in Int /\ from < from + 1
  OBVIOUS
<1>. QED BY <1>1, SubSeqEmpty DEF Slice

\* A window of the source.
LEMMA WindowFits ==
    ASSUME source \in Seq(Bytes), NEW from \in Nat, from + BlockSize <= Len(source)
    PROVE  /\ Window(from) \in Seq(Bytes) /\ Len(Window(from)) = BlockSize
           /\ \A k \in 1 .. BlockSize : Window(from)[k] = source[from + k]
<1>. DEFINE to == from + BlockSize
<1>1. to \in Nat /\ from <= to /\ to - from = BlockSize /\ to <= Len(source)
  BY DeltaAssumption
<1>. HIDE DEF to
<1>2. /\ Slice(source, from, to) \in Seq(Bytes) /\ Len(Slice(source, from, to)) = to - from
      /\ \A k \in 1 .. to - from : Slice(source, from, to)[k] = source[from + k]
  BY <1>1, SliceFits
<1>3. Window(from) = Slice(source, from, to)
  BY DEF Window, to
<1>. QED BY <1>1, <1>2, <1>3

\* The least of the candidates is one.
LEMMA LeastCandidate ==
    ASSUME NEW found \in SUBSET Nat, found # {}
    PROVE  Min(found) \in found
<1>1. PICK n \in found : \A m \in found : n <= m
  BY LeastNat
<1>. QED BY <1>1 DEF Min

\* The lesser of two numbers.
LEMMA LesserOf ==
    ASSUME NEW x \in Nat, NEW y \in Nat
    PROVE  Min({x, y}) \in Nat /\ Min({x, y}) = (IF x <= y THEN x ELSE y)
BY DEF Min

-----------------------------------------------------------------------------
(* Types.                                                                  *)

\* A checksum that is rolled stays reduced.
LEMMA RollType ==
    ASSUME NEW r \in [a : Bytes, b : Bytes, len : Nat], NEW old \in Bytes, NEW new \in Bytes
    PROVE  Roll(r, old, new) \in [a : Bytes, b : Bytes, len : Nat]
<1>1. /\ r.a \in Int /\ r.b \in Int /\ r.len \in Int /\ old \in Int /\ new \in Int
      /\ Modulus \in Int
  BY DeltaAssumption DEF Bytes
<1>. DEFINE a == (Modulus + r.a + new - old) % Modulus
            less == (r.len * old) % Modulus
            b == (Modulus + r.b + a - less) % Modulus
<1>2. a \in Bytes
  BY <1>1, ModBytes
<1>3. less \in Bytes
  BY <1>1, ModBytes
<1>4. b \in Bytes
  <2>. HIDE DEF a, less
  <2>1. Modulus + r.b + a - less \in Int
    BY <1>1, <1>2, <1>3, DeltaAssumption DEF Bytes
  <2>. QED BY <2>1, ModBytes
<1>5. Roll(r, old, new) = [r EXCEPT !.a = a, !.b = b]
  BY DEF Roll
<1>. HIDE DEF a, b
<1>. QED BY <1>2, <1>4, <1>5

\* What is known of the checksum at a position is reduced.
LEMMA ChecksumAtType ==
    ASSUME source \in Seq(Bytes), NEW from \in Nat
    PROVE  ChecksumAt(from) \in [a : Bytes, b : Bytes, len : Nat]
<1>1. NoChecksum \in [a : Bytes, b : Bytes, len : Nat]
  BY DeltaAssumption DEF NoChecksum, Bytes
<1>2. CASE from + BlockSize <= Len(source)
  BY <1>2, WindowFits, ChecksumType DEF ChecksumAt, Window
<1>. QED BY <1>1, <1>2 DEF ChecksumAt

\* A literal of the source, when there is one, is an op.
LEMMA LiteralType ==
    ASSUME source \in Seq(Bytes), NEW from \in Nat, NEW to \in Nat, to <= Len(source)
    PROVE  Literal(from, to) \in Seq(DeltaOp)
<1>1. CASE from < to
  <2>1. Slice(source, from, to) \in Seq(Bytes)
    BY <1>1, SliceFits
  <2>2. [kind |-> "literal", data |-> Slice(source, from, to)] \in DeltaOp
    BY <2>1 DEF DeltaOp
  <2>. QED BY <1>1, <2>2 DEF Literal
<1>2. CASE ~(from < to)
  BY <1>2 DEF Literal
<1>. QED BY <1>1, <1>2

\* A copy of a block is an op.
LEMMA CopyType ==
    ASSUME NEW block \in Block
    PROVE  Copy(block) \in DeltaOp
BY DEF Copy, Block, DeltaOp

\* The block that is matched is one of the candidates.
LEMMA MatchedFits ==
    ASSUME blocks \in Seq(Block), NEW weak, NEW window, Candidates(weak, window) # {}
    PROVE  /\ Min(Candidates(weak, window)) \in Candidates(weak, window)
           /\ Min(Candidates(weak, window)) \in DOMAIN blocks
           /\ Matched(weak, window) \in Block
<1>1. Candidates(weak, window) \subseteq DOMAIN blocks /\ DOMAIN blocks = 1 .. Len(blocks)
      /\ Len(blocks) \in Nat
  BY DEF Candidates
<1>2. Candidates(weak, window) \in SUBSET Nat
  BY <1>1
<1>3. Min(Candidates(weak, window)) \in Candidates(weak, window)
  BY <1>2, LeastCandidate
<1>. QED BY <1>1, <1>3 DEF Matched

\* What an op is.
LEMMA OpType ==
    ASSUME NEW op \in DeltaOp
    PROVE  \/ op.kind = "copy" /\ op.index \in Nat /\ op.len \in Nat
           \/ op.kind = "literal" /\ op.kind # "copy" /\ op.data \in Seq(Bytes)
BY DEF DeltaOp

\* The initial states have their types.
LEMMA TypeInit == Init => TypeOK
<1>. SUFFICES ASSUME Init PROVE TypeOK
  OBVIOUS
<1>1. source \in Seq(Bytes) /\ basis \in Seq(Bytes) /\ 0 \in Bytes /\ Len(source) \in Nat
  BY DeltaAssumption DEF Init, Bytes
<1>2. rolling \in [a : Bytes, b : Bytes, len : Nat]
  BY <1>1 DEF Init, NoChecksum
<1>3. <<>> \in Seq(Bytes) /\ <<>> \in Seq(Block) /\ <<>> \in Seq(DeltaOp) /\ Len(<<>>) = 0
  OBVIOUS
<1>4. 0 \in 0 .. MaxDisturbances /\ 0 \in 0 .. Len(source) /\ 0 \in 0 .. 0 /\ 0 \in Nat
  BY <1>1, DeltaAssumption
<1>. QED BY <1>1, <1>2, <1>3, <1>4 DEF Init, TypeOK

\* A block of the signature has its type, if the reads are within the basis.
LEMMA SignBlockType ==
    ASSUME TypeOK, NEW n \in Nat, SignBlock(n)
    PROVE  /\ BlockSig(Slice(basis, pos, pos + n)) \in Block
           /\ Slice(basis, pos, pos + n) \in Seq(Bytes)
           /\ Len(Slice(basis, pos, pos + n)) = n
           /\ blocks' \in Seq(Block) /\ pos' \in Nat
<1>. DEFINE to == pos + n
            piece == Slice(basis, pos, to)
<1>1. /\ basis \in Seq(Bytes) /\ pos \in Nat /\ blocks \in Seq(Block) /\ to \in Nat
      /\ pos <= to /\ to <= Len(basis) /\ to - pos = n
  BY DEF TypeOK, SignBlock
<1>2. piece \in Seq(Bytes) /\ Len(piece) = n
  <2>. HIDE DEF to
  <2>. QED BY <1>1, SliceFits
<1>3. blocks' = Append(blocks, BlockSig(piece)) /\ pos' = to
  BY DEF SignBlock
<1>. HIDE DEF to, piece
<1>4. BlockSig(piece) \in Block
  <2>1. Len(blocks) \in Nat /\ WeakHash(piece) \in Nat /\ Len(piece) \in Nat
    BY <1>1, <1>2, ChecksumType
  <2>. QED BY <1>2, <2>1 DEF BlockSig, Block
<1>5. blocks' \in Seq(Block) /\ pos' \in Nat
  BY <1>1, <1>3, <1>4, AppendProperties
<1>. QED BY <1>2, <1>4, <1>5 DEF piece, to

\* What Disturb counts stays within its bound.
LEMMA DisturbType ==
    ASSUME TypeOK, Disturb
    PROVE  disturbances' \in 0 .. MaxDisturbances
BY DeltaAssumption DEF TypeOK, Disturb

\* What a block matched adds to the plan.
Added == Literal(literalStart, i) \o <<Copy(Matched(Weak, Window(i)))>>

\* The script says that, and then what the rest of the plan says.
LEMMA MatchAdds ==
    ASSUME TypeOK, MatchBlock
    PROVE  /\ Literal(literalStart, i) \in Seq(DeltaOp)
           /\ <<Copy(Matched(Weak, Window(i)))>> \in Seq(DeltaOp)
           /\ ops' \in Seq(DeltaOp) /\ Len(ops) <= Len(ops')
           /\ i + BlockSize \in Nat /\ i + BlockSize <= Len(source)
<1>. DEFINE lit == Literal(literalStart, i)
            one == <<Copy(Matched(Weak, Window(i)))>>
<1>1. /\ source \in Seq(Bytes) /\ blocks \in Seq(Block) /\ ops \in Seq(DeltaOp)
      /\ i \in Nat /\ i <= Len(source) /\ literalStart \in Nat
  BY DEF TypeOK
<1>2. lit \in Seq(DeltaOp)
  BY <1>1, LiteralType
<1>3. one \in Seq(DeltaOp)
  <2>1. Matched(Weak, Window(i)) \in Block
    BY <1>1, MatchedFits DEF MatchBlock
  <2>2. Copy(Matched(Weak, Window(i))) \in DeltaOp
    BY <2>1, CopyType
  <2>. QED BY <2>2
<1>4. ops' = ops \o lit \o one
  BY DEF MatchBlock
<1>. HIDE DEF lit, one
<1>5. ops' \in Seq(DeltaOp) /\ Len(ops') = Len(ops) + Len(lit) + Len(one)
  BY <1>1, <1>2, <1>3, <1>4
<1>6. Len(ops) \in Nat /\ Len(lit) \in Nat /\ Len(one) \in Nat
  BY <1>1, <1>2, <1>3
<1>7. i + BlockSize \in Nat /\ i + BlockSize <= Len(source)
  BY <1>1, DeltaAssumption DEF MatchBlock, MoreWindows
<1>. QED BY <1>2, <1>3, <1>5, <1>6, <1>7 DEF lit, one

\* The op the patch is at, and the piece of the basis that it copies.
LEMMA OpFits ==
    ASSUME TypeOK, next < Len(ops)
    PROVE  /\ Op \in DeltaOp /\ next + 1 \in 1 .. Len(ops) /\ next + 1 \in 0 .. Len(ops)
           /\ Op.kind = "copy" /\ CopyEnd <= Len(basis) =>
                /\ CopyStart \in Nat /\ CopyEnd \in Nat /\ CopyStart <= CopyEnd
                /\ Slice(basis, CopyStart, CopyEnd) \in Seq(Bytes)
<1>1. /\ ops \in Seq(DeltaOp) /\ next \in Nat /\ Len(ops) \in Nat /\ basis \in Seq(Bytes)
  BY DEF TypeOK
<1>2. next + 1 \in 1 .. Len(ops) /\ next + 1 \in 0 .. Len(ops)
  BY <1>1
<1>3. Op \in DeltaOp
  BY <1>1, <1>2 DEF Op
<1>4. ASSUME Op.kind = "copy", CopyEnd <= Len(basis)
      PROVE  /\ CopyStart \in Nat /\ CopyEnd \in Nat /\ CopyStart <= CopyEnd
             /\ Slice(basis, CopyStart, CopyEnd) \in Seq(Bytes)
  <2>1. Op.index \in Nat /\ Op.len \in Nat
    BY <1>3, <1>4, OpType
  <2>2. CopyStart \in Nat
    BY <2>1, DeltaAssumption DEF CopyStart
  <2>3. CopyEnd \in Nat /\ CopyStart <= CopyEnd
    BY <2>1, <2>2 DEF CopyEnd
  <2>. QED BY <1>1, <1>4, <2>2, <2>3, SliceFits
<1>. QED BY <1>2, <1>3, <1>4

\* Every step keeps the types.
LEMMA TypeStep == TypeOK /\ [Next]_vars => TypeOK'
<1>. SUFFICES ASSUME TypeOK, [Next]_vars PROVE TypeOK'
  OBVIOUS
<1>0. /\ source \in Seq(Bytes) /\ basis \in Seq(Bytes) /\ Len(source) \in Nat /\ Len(basis) \in Nat
      /\ pos \in Nat /\ blocks \in Seq(Block)
      /\ i \in Nat /\ i <= Len(source) /\ literalStart \in Nat /\ literalStart <= i
      /\ rolling \in [a : Bytes, b : Bytes, len : Nat]
      /\ copyBytes \in Nat /\ copyBytes <= literalStart
      /\ ops \in Seq(DeltaOp) /\ Len(ops) \in Nat /\ next \in Nat /\ next <= Len(ops)
      /\ out \in Seq(Bytes) /\ BlockSize \in Nat
  BY DeltaAssumption DEF TypeOK
<1>1. CASE ReadBlock
  <2>1. Min({BlockSize, Len(basis) - pos}) \in Nat
    BY <1>0, <1>1, LesserOf DEF ReadBlock
  <2>2. blocks' \in Seq(Block) /\ pos' \in Nat
    BY <1>1, <2>1, SignBlockType DEF ReadBlock
  <2>. QED BY <1>1, <2>2 DEF ReadBlock, SignBlock, TypeOK, matcherVars, patchVars
<1>2. CASE ReadShort
  <2>1. PICK n \in 1 .. Min({BlockSize, Len(basis) - pos}) - 1 : SignBlock(n)
    BY <1>2 DEF ReadShort
  <2>2. n \in Nat
    OBVIOUS
  <2>3. blocks' \in Seq(Block) /\ pos' \in Nat
    BY <2>1, <2>2, SignBlockType
  <2>4. disturbances' \in 0 .. MaxDisturbances
    BY <1>2, DisturbType DEF ReadShort
  <2>. QED BY <2>1, <2>3, <2>4 DEF SignBlock, TypeOK, matcherVars, patchVars
<1>3. CASE Signed
  <2>1. rolling' \in [a : Bytes, b : Bytes, len : Nat]
    BY <1>0, <1>3, ChecksumAtType DEF Signed
  <2>. QED BY <1>3, <2>1 DEF Signed, Finish, TypeOK, signatureVars, patchVars
<1>4. CASE MatchBlock
  <2>1. /\ ops' \in Seq(DeltaOp) /\ Len(ops) <= Len(ops')
        /\ i' \in 0 .. Len(source) /\ literalStart' \in 0 .. i'
    BY <1>0, <1>4, MatchAdds DEF MatchBlock
  <2>2. rolling' \in [a : Bytes, b : Bytes, len : Nat]
    BY <1>0, <1>4, MatchAdds, ChecksumAtType DEF MatchBlock
  <2>3. copyBytes' \in 0 .. literalStart'
    BY <1>0, <1>4 DEF MatchBlock
  <2>4. next \in 0 .. Len(ops')
    BY <1>0, <2>1
  <2>. QED BY <1>4, <2>1, <2>2, <2>3, <2>4 DEF MatchBlock, TypeOK, signatureVars, patchVars
<1>5. CASE Slide
  <2>1. rolling' \in [a : Bytes, b : Bytes, len : Nat]
    <3>1. CASE rolling # NoChecksum /\ i + 1 + BlockSize <= Len(source)
      <4>1. source[i + 1] \in Bytes /\ source[i + 1 + BlockSize] \in Bytes
        <5>1. i + 1 \in 1 .. Len(source) /\ i + 1 + BlockSize \in 1 .. Len(source)
          BY <1>0, <3>1
        <5>. QED BY <1>0, <5>1
      <4>2. rolling' = Roll(rolling, source[i + 1], source[i + 1 + BlockSize])
        BY <1>5, <3>1 DEF Slide
      <4>. QED BY <1>0, <4>1, <4>2, RollType
    <3>. QED BY <1>0, <1>5, <3>1 DEF Slide
  <2>2. i' \in 0 .. Len(source) /\ literalStart \in 0 .. i'
    BY <1>0, <1>5, DeltaAssumption DEF Slide, MoreWindows
  <2>. QED BY <1>5, <2>1, <2>2 DEF Slide, TypeOK, signatureVars, patchVars
<1>6. CASE MatchedAll
  <2>1. Literal(literalStart, Len(source)) \in Seq(DeltaOp)
    BY <1>0, LiteralType
  <2>2. ops' \in Seq(DeltaOp) /\ next \in 0 .. Len(ops')
    BY <1>0, <1>6, <2>1, ConcatProperties DEF MatchedAll
  <2>. QED BY <1>6, <2>2 DEF MatchedAll, TypeOK, signatureVars, patchVars
<1>7. CASE Refuse
  BY <1>7 DEF Refuse, Finish, TypeOK, signatureVars, matcherVars, patchVars
<1>8. CASE Agree
  BY <1>8 DEF Agree, TypeOK, signatureVars, matcherVars, patchVars
<1>9. CASE OpenFiles
  <2>1. 0 \in 0 .. Len(ops) /\ <<>> \in Seq(Bytes)
    BY <1>0
  <2>. QED BY <1>0, <1>9, <2>1 DEF OpenFiles, TypeOK, signatureVars, matcherVars
<1>10. CASE Apply
  <2>1. next < Len(ops)
    BY <1>10 DEF Apply
  <2>2. CASE ApplyCopy
    <3>1. Slice(basis, CopyStart, CopyEnd) \in Seq(Bytes) /\ next + 1 \in 0 .. Len(ops)
      BY <2>1, <2>2, OpFits DEF ApplyCopy
    <3>2. out' \in Seq(Bytes) /\ next' \in 0 .. Len(ops)
      BY <1>0, <2>2, <3>1, ConcatProperties DEF ApplyCopy, Write
    <3>. QED BY <2>2, <3>2 DEF ApplyCopy, Write, TypeOK, signatureVars, matcherVars
  <2>3. CASE ApplyLiteral
    <3>1. Op.data \in Seq(Bytes) /\ next + 1 \in 0 .. Len(ops)
      BY <2>1, <2>3, OpFits, OpType DEF ApplyLiteral
    <3>2. out' \in Seq(Bytes) /\ next' \in 0 .. Len(ops)
      BY <1>0, <2>3, <3>1, ConcatProperties DEF ApplyLiteral, Write
    <3>. QED BY <2>3, <3>2 DEF ApplyLiteral, Write, TypeOK, signatureVars, matcherVars
  <2>4. CASE CopyFails
    BY <2>4 DEF CopyFails, Finish, TypeOK, signatureVars, matcherVars, patchVars
  <2>. QED BY <1>10, <2>2, <2>3, <2>4 DEF Apply
<1>11. CASE Applied
  BY <1>11 DEF Applied, TypeOK, signatureVars, matcherVars, patchVars
<1>12. CASE Accept
  BY <1>12 DEF Accept, Finish, TypeOK, signatureVars, matcherVars, patchVars
<1>13. CASE Reject
  BY <1>13 DEF Reject, Finish, TypeOK, signatureVars, matcherVars
<1>14. CASE EditBasis
  <2>1. basis' \in Seq(Bytes)
    <3>1. Shortened(basis) \subseteq Seq(Bytes)
      <4>. SUFFICES ASSUME basis # <<>> PROVE Slice(basis, 0, Len(basis) - 1) \in Seq(Bytes)
        BY DEF Shortened
      <4>1. Len(basis) - 1 \in Nat /\ 0 <= Len(basis) - 1 /\ Len(basis) - 1 <= Len(basis)
        BY <1>0
      <4>. QED BY <1>0, <4>1, SliceFits
    <3>2. Changed(basis) \subseteq Seq(Bytes)
      <4>. SUFFICES ASSUME NEW k \in DOMAIN basis, NEW b \in Bytes
                    PROVE  [basis EXCEPT ![k] = b] \in Seq(Bytes)
        BY DEF Changed
      <4>1. basis \in [1 .. Len(basis) -> Bytes]
        BY <1>0
      <4>2. [basis EXCEPT ![k] = b] \in [1 .. Len(basis) -> Bytes]
        BY <4>1
      <4>. QED BY <1>0, <4>2
    <3>. QED BY <1>14, <3>1, <3>2 DEF EditBasis
  <2>2. disturbances' \in 0 .. MaxDisturbances
    BY <1>14, DisturbType DEF EditBasis
  <2>. QED BY <1>14, <2>1, <2>2 DEF EditBasis, TypeOK, signatureVars, matcherVars, patchVars
<1>15. CASE UNCHANGED vars
  BY <1>15 DEF TypeOK, vars, signatureVars, matcherVars, patchVars
<1>. QED
  BY <1>1, <1>2, <1>3, <1>4, <1>5, <1>6, <1>7, <1>8, <1>9, <1>10, <1>11, <1>12, <1>13, <1>14, <1>15
  DEF Next

\* Type correctness.
THEOREM TypeCorrect == Spec => []TypeOK
<1>1. Init => TypeOK
  BY TypeInit
<1>2. TypeOK /\ [Next]_vars => TypeOK'
  BY TypeStep
<1>. QED BY <1>1, <1>2, PTL DEF Spec

-----------------------------------------------------------------------------
(* The matcher.                                                            *)

\* The types that the following proofs use.
LEMMA Typed ==
    ASSUME TypeOK
    PROVE  /\ source \in Seq(Bytes) /\ Len(source) \in Nat
           /\ basis \in Seq(Bytes) /\ Len(basis) \in Nat
           /\ blocks \in Seq(Block) /\ DOMAIN blocks = 1 .. Len(blocks) /\ Len(blocks) \in Nat
           /\ i \in Nat /\ i <= Len(source) /\ literalStart \in Nat /\ literalStart <= i
           /\ ops \in Seq(DeltaOp) /\ DOMAIN ops = 1 .. Len(ops) /\ Len(ops) \in Nat
           /\ next \in Nat /\ next <= Len(ops) /\ out \in Seq(Bytes) /\ pos \in Nat
           /\ BlockSize \in Nat /\ BlockSize > 0
BY DeltaAssumption DEF TypeOK

\* A step that is none of the signature's or the matcher's.
MatcherRests ==
    /\ UNCHANGED <<source, blocks, i, literalStart, rolling, ops>>
    /\ pc' \in {"sign", "match", "review"} => pc' = pc

\* The steps by what they are to the matcher.
LEMMA MatcherSteps ==
    ASSUME TypeOK, [Next]_vars
    PROVE  \/ \E n \in Nat : SignBlock(n)
           \/ Signed \/ MatchBlock \/ Slide \/ MatchedAll
           \/ MatcherRests
<1>1. CASE ReadBlock
  <2>1. Min({BlockSize, Len(basis) - pos}) \in Nat
    <3>1. Len(basis) - pos \in Nat /\ BlockSize \in Nat
      BY <1>1, Typed DEF ReadBlock
    <3>. QED BY <3>1, LesserOf
  <2>. QED BY <1>1, <2>1 DEF ReadBlock
<1>2. CASE ReadShort
  BY <1>2 DEF ReadShort
<1>3. CASE Refuse \/ Agree \/ OpenFiles
  BY <1>3 DEF MatcherRests, Refuse, Agree, OpenFiles, Finish, signatureVars, matcherVars
<1>4. CASE Apply
  BY <1>4 DEF MatcherRests, Apply, ApplyCopy, ApplyLiteral, CopyFails, Write, Finish,
              signatureVars, matcherVars
<1>5. CASE Applied \/ Accept \/ Reject
  BY <1>5 DEF MatcherRests, Applied, Accept, Reject, Finish, signatureVars, matcherVars
<1>6. CASE EditBasis
  BY <1>6 DEF MatcherRests, EditBasis, signatureVars, matcherVars
<1>7. CASE UNCHANGED vars
  BY <1>7 DEF MatcherRests, vars, signatureVars, matcherVars
<1>. QED BY <1>1, <1>2, <1>3, <1>4, <1>5, <1>6, <1>7 DEF Next

\* The matcher has planned nothing before it is begun.
LEMMA NothingPlannedStep ==
    ASSUME TypeOK, NothingPlanned, [Next]_vars
    PROVE  NothingPlanned'
<1>1. CASE \E n \in Nat : SignBlock(n)
  BY <1>1 DEF NothingPlanned, SignBlock, matcherVars
<1>2. CASE Signed \/ MatchBlock \/ Slide \/ MatchedAll
  BY <1>2 DEF NothingPlanned, Signed, Finish, MatchBlock, Slide, MatchedAll
<1>3. CASE MatcherRests
  BY <1>3 DEF NothingPlanned, MatcherRests
<1>. QED BY <1>1, <1>2, <1>3, MatcherSteps

\* A block that is read is numbered and hashed.
LEMMA SignatureStep ==
    ASSUME TypeOK, SignatureFits, [Next]_vars
    PROVE  SignatureFits'
<1>1. ASSUME NEW n \in Nat, SignBlock(n)
      PROVE  SignatureFits'
  <2>. DEFINE piece == Slice(basis, pos, pos + n)
              sig == BlockSig(piece)
  <2>1. sig \in Block /\ blocks' = Append(blocks, sig) /\ blocks \in Seq(Block)
        /\ Len(blocks) \in Nat /\ DOMAIN blocks = 1 .. Len(blocks)
    BY <1>1, SignBlockType, Typed DEF SignBlock
  <2>2. /\ sig.index = Len(blocks) /\ sig.len = Len(sig.strong)
        /\ sig.weak = WeakHash(sig.strong)
    BY DEF BlockSig
  <2>. HIDE DEF sig
  <2>3. /\ blocks' \in Seq(Block) /\ Len(blocks') = Len(blocks) + 1
        /\ \A k \in 1 .. Len(blocks) : blocks'[k] = blocks[k]
        /\ blocks'[Len(blocks) + 1] = sig
    BY <2>1, AppendProperties
  <2>4. DOMAIN blocks' = 1 .. Len(blocks) + 1
    BY <2>3
  <2>. SUFFICES ASSUME NEW k \in 1 .. Len(blocks) + 1
                PROVE  /\ blocks'[k].index = k - 1
                       /\ blocks'[k].len = Len(blocks'[k].strong)
                       /\ blocks'[k].weak = WeakHash(blocks'[k].strong)
    BY <2>4 DEF SignatureFits
  <2>5. CASE k = Len(blocks) + 1
    BY <2>1, <2>2, <2>3, <2>5
  <2>6. CASE k \in 1 .. Len(blocks)
    BY <2>1, <2>3, <2>6 DEF SignatureFits
  <2>. QED BY <2>1, <2>5, <2>6
<1>2. CASE blocks' = blocks
  BY <1>2 DEF SignatureFits
<1>3. CASE Signed \/ MatchBlock \/ Slide \/ MatchedAll
  BY <1>2, <1>3 DEF Signed, MatchBlock, Slide, MatchedAll, signatureVars
<1>4. CASE MatcherRests
  BY <1>2, <1>4 DEF MatcherRests
<1>. QED BY <1>1, <1>3, <1>4, MatcherSteps

\* The checksum that slides over the source is that of the next window.
LEMMA RollingStep ==
    ASSUME TypeOK, NothingPlanned, RollingFits, [Next]_vars
    PROVE  RollingFits'
<1>0. /\ source \in Seq(Bytes) /\ Len(source) \in Nat /\ i \in Nat /\ i <= Len(source)
      /\ BlockSize \in Nat /\ BlockSize > 0
  BY Typed
<1>. SUFFICES ASSUME pc' = "match", MoreWindows'
              PROVE  rolling' \in {NoChecksum, Checksum(Window(i)')}
  BY DEF RollingFits, Checksum
<1>1. CASE Signed
  <2>1. i = 0 /\ i' = 0 /\ source' = source /\ rolling' = ChecksumAt(0)
    BY <1>1 DEF Signed, Finish, NothingPlanned
  <2>. QED BY <2>1 DEF ChecksumAt, Window
<1>2. CASE MatchBlock
  BY <1>2 DEF MatchBlock, ChecksumAt, Window
<1>3. CASE Slide
  <2>1. /\ MoreWindows /\ pc = "match" /\ i' = i + 1 /\ source' = source
        /\ i + 1 + BlockSize <= Len(source) /\ i + BlockSize <= Len(source)
        /\ i + 1 \in Nat
    BY <1>0, <1>3 DEF Slide, MoreWindows
  <2>2. CASE rolling = NoChecksum
    BY <1>3, <2>2 DEF Slide
  <2>3. CASE rolling # NoChecksum
    <3>. DEFINE w == Window(i)
                v == Window(i + 1)
    <3>1. rolling = Checksum(w)
      BY <2>1, <2>3 DEF RollingFits
    <3>2. /\ w \in Seq(Bytes) /\ Len(w) = BlockSize
          /\ \A k \in 1 .. BlockSize : w[k] = source[i + k]
      BY <1>0, <2>1, WindowFits
    <3>3. /\ v \in Seq(Bytes) /\ Len(v) = BlockSize
          /\ \A k \in 1 .. BlockSize : v[k] = source[(i + 1) + k]
      BY <1>0, <2>1, WindowFits
    <3>4. rolling' = Roll(rolling, source[i + 1], source[i + 1 + BlockSize])
      BY <1>3, <2>1, <2>3 DEF Slide
    <3>5. Window(i)' = v
      BY <2>1 DEF Window
    <3>. HIDE DEF w, v
    <3>6. w[1] = source[i + 1] /\ v[Len(v)] = source[i + 1 + BlockSize]
      BY <1>0, <3>2, <3>3
    <3>7. \A k \in 1 .. Len(w) - 1 : v[k] = w[k + 1]
      <4>. SUFFICES ASSUME NEW k \in 1 .. BlockSize - 1 PROVE v[k] = w[k + 1]
        BY <3>2
      <4>1. k \in 1 .. BlockSize /\ k + 1 \in 1 .. BlockSize /\ (i + 1) + k = i + (k + 1)
        BY <1>0
      <4>. QED BY <3>2, <3>3, <4>1
    <3>8. Roll(Checksum(w), w[1], v[Len(v)]) = Checksum(v)
      <4>1. Len(v) = Len(w) /\ Len(w) > 0
        BY <1>0, <3>2, <3>3
      <4>. QED BY <3>2, <3>3, <3>7, <4>1, RollIsChecksum
    <3>. QED BY <3>1, <3>4, <3>5, <3>6, <3>8
  <2>. QED BY <2>2, <2>3
<1>4. CASE MatchedAll
  BY <1>4 DEF MatchedAll
<1>5. CASE MatcherRests
  <2>1. pc = "match" /\ i' = i /\ source' = source /\ rolling' = rolling
    BY <1>5 DEF MatcherRests
  <2>2. MoreWindows /\ Window(i)' = Window(i)
    BY <2>1 DEF MoreWindows, Window
  <2>. QED BY <2>1, <2>2 DEF RollingFits
<1>6. CASE \E n \in Nat : SignBlock(n)
  BY <1>6 DEF SignBlock
<1>. QED BY <1>1, <1>2, <1>3, <1>4, <1>5, <1>6, MatcherSteps

\* Where there is a window, Weak is its weak hash.
LEMMA WeakIsWeakHash ==
    ASSUME RollingFits, pc = "match", MoreWindows
    PROVE  Weak = WeakHash(Window(i))
BY DEF RollingFits, Weak, WeakHash

\* The candidates for a window are the blocks that hold it.
LEMMA CandidatesAreBlocks ==
    ASSUME TypeOK, SignatureFits, NEW window \in Seq(Bytes), Len(window) = BlockSize
    PROVE  Candidates(WeakHash(window), window) = {} <=> ~IsBlock(window)
<1>1. ASSUME NEW k \in DOMAIN blocks, blocks[k].strong = window
      PROVE  blocks[k].weak = WeakHash(window) /\ blocks[k].len = BlockSize
  BY <1>1 DEF SignatureFits
<1>. QED BY <1>1 DEF Candidates, IsBlock

\* The matcher passes no window that is a block.
LEMMA ScannedStep ==
    ASSUME TypeOK, NothingPlanned, SignatureFits, RollingFits, Scanned, [Next]_vars
    PROVE  Scanned'
<1>0. /\ source \in Seq(Bytes) /\ Len(source) \in Nat /\ i \in Nat /\ literalStart \in Nat
      /\ literalStart <= i /\ BlockSize \in Nat /\ BlockSize > 0
  BY Typed
<1>1. CASE Signed
  <2>1. i' = 0 /\ literalStart' = 0
    BY <1>0, <1>1 DEF Signed, NothingPlanned
  <2>2. literalStart' .. i' - 1 = {}
    BY <2>1
  <2>. QED BY <2>2 DEF Scanned
<1>2. CASE MatchBlock
  <2>1. literalStart' .. i' - 1 = {}
    BY <1>0, <1>2 DEF MatchBlock
  <2>. QED BY <2>1 DEF Scanned
<1>3. CASE Slide
  <2>1. /\ pc = "match" /\ MoreWindows /\ i' = i + 1 /\ literalStart' = literalStart
        /\ source' = source /\ blocks' = blocks /\ Candidates(Weak, Window(i)) = {}
    BY <1>3 DEF Slide, signatureVars
  <2>2. ~IsBlock(Window(i))
    <3>1. Window(i) \in Seq(Bytes) /\ Len(Window(i)) = BlockSize
      BY <1>0, <2>1, WindowFits DEF MoreWindows
    <3>. QED BY <2>1, <3>1, WeakIsWeakHash, CandidatesAreBlocks
  <2>3. ASSUME NEW from \in literalStart .. i, from + BlockSize <= Len(source)
        PROVE  ~IsBlock(Window(from))
    <3>1. CASE from = i
      BY <2>2, <3>1
    <3>2. CASE from \in literalStart .. i - 1
      BY <2>1, <2>3, <3>2 DEF Scanned
    <3>. QED BY <1>0, <3>1, <3>2
  <2>4. literalStart' .. i' - 1 = literalStart .. i
    BY <1>0, <2>1
  <2>. QED BY <2>1, <2>3, <2>4 DEF Scanned, IsBlock, Window
<1>4. CASE MatchedAll
  BY <1>4 DEF MatchedAll, Scanned
<1>5. CASE MatcherRests
  BY <1>5 DEF MatcherRests, Scanned, IsBlock, Window
<1>6. CASE \E n \in Nat : SignBlock(n)
  BY <1>6 DEF SignBlock, Scanned
<1>. QED BY <1>1, <1>2, <1>3, <1>4, <1>5, <1>6, MatcherSteps

\* The literal up to the matcher, or up to the end when no window is left, holds
\* no block.
LEMMA LiteralClean ==
    ASSUME TypeOK, Scanned, pc = "match", NEW to \in Nat,
           to = i \/ (to = Len(source) /\ ~MoreWindows)
    PROVE  \A k \in DOMAIN Literal(literalStart, to) : Clean(Literal(literalStart, to)[k])
<1>0. /\ source \in Seq(Bytes) /\ Len(source) \in Nat /\ i \in Nat /\ literalStart \in Nat
      /\ literalStart <= i /\ BlockSize \in Nat /\ BlockSize > 0 /\ i <= Len(source)
  BY Typed
<1>1. CASE ~(literalStart < to)
  BY <1>1 DEF Literal
<1>2. CASE literalStart < to
  <2>. DEFINE data == Slice(source, literalStart, to)
  <2>1. to <= Len(source) /\ literalStart <= to
    BY <1>0, <1>2
  <2>2. data \in Seq(Bytes) /\ Len(data) = to - literalStart
    <3>1. IsPiece(data, source, literalStart, to)
      BY <1>0, <2>1, PieceFits
    <3>. QED BY <3>1 DEF IsPiece
  <2>3. ASSUME NEW from \in 0 .. Len(data) - BlockSize
        PROVE  ~IsBlock(Slice(data, from, from + BlockSize))
    <3>1. /\ from \in Nat /\ from + BlockSize \in Nat /\ from <= from + BlockSize
          /\ from + BlockSize <= to - literalStart
          /\ literalStart + (from + BlockSize) = (literalStart + from) + BlockSize
      BY <1>0, <2>2
    <3>2. Slice(data, from, from + BlockSize)
            = Slice(source, literalStart + from, literalStart + (from + BlockSize))
      <4>. DEFINE end == from + BlockSize
      <4>. HIDE DEF end
      <4>1. end \in Nat /\ from <= end /\ end <= to - literalStart
        BY <3>1 DEF end
      <4>2. Slice(data, from, end) = Slice(source, literalStart + from, literalStart + end)
        BY <1>0, <2>1, <3>1, <4>1, SliceOfSlice
      <4>. QED BY <4>2 DEF end
    <3>3. Slice(data, from, from + BlockSize) = Window(literalStart + from)
      BY <3>1, <3>2 DEF Window
    <3>4. literalStart + from \in literalStart .. i - 1
      BY <1>0, <2>1, <3>1 DEF MoreWindows
    <3>5. (literalStart + from) + BlockSize <= Len(source)
      BY <1>0, <2>1, <3>1
    <3>. QED BY <3>3, <3>4, <3>5 DEF Scanned
  <2>4. Literal(literalStart, to) = << [kind |-> "literal", data |-> data] >>
    BY <1>2 DEF Literal
  <2>. HIDE DEF data
  <2>5. Clean([kind |-> "literal", data |-> data])
    BY <2>3 DEF Clean
  <2>. QED BY <2>4, <2>5
<1>. QED BY <1>1, <1>2

\* What holds for the elements of two sequences holds for those of both.
LEMMA CleanBoth ==
    ASSUME NEW s \in Seq(DeltaOp), NEW t \in Seq(DeltaOp),
           \A k \in DOMAIN s : Clean(s[k]), \A k \in DOMAIN t : Clean(t[k])
    PROVE  \A k \in DOMAIN (s \o t) : Clean((s \o t)[k])
<1>1. /\ Len(s) \in Nat /\ Len(t) \in Nat /\ DOMAIN s = 1 .. Len(s) /\ DOMAIN t = 1 .. Len(t)
      /\ s \o t \in Seq(DeltaOp) /\ DOMAIN (s \o t) = 1 .. Len(s) + Len(t)
      /\ \A k \in 1 .. Len(s) + Len(t) :
           (s \o t)[k] = IF k <= Len(s) THEN s[k] ELSE t[k - Len(s)]
  BY ConcatProperties
<1>2. ASSUME NEW k \in 1 .. Len(s) + Len(t)
      PROVE  Clean((s \o t)[k])
  <2>1. CASE k <= Len(s)
    BY <1>1, <2>1
  <2>2. CASE ~(k <= Len(s))
    <3>1. k - Len(s) \in 1 .. Len(t)
      BY <1>1, <2>2
    <3>. QED BY <1>1, <2>2, <3>1
  <2>. QED BY <2>1, <2>2
<1>. QED BY <1>1, <1>2

\* The plan gets clean literals only.
LEMMA LiteralsStep ==
    ASSUME TypeOK, NothingPlanned, Scanned, LiteralsClean, [Next]_vars
    PROVE  LiteralsClean'
<1>0. /\ source \in Seq(Bytes) /\ Len(source) \in Nat /\ i \in Nat /\ literalStart \in Nat
      /\ ops \in Seq(DeltaOp) /\ i <= Len(source)
  BY Typed
<1>1. CASE \E n \in Nat : SignBlock(n)
  <2>1. ops' = <<>>
    BY <1>1 DEF SignBlock, NothingPlanned, matcherVars
  <2>. QED BY <2>1 DEF LiteralsClean
<1>2. CASE ops' = ops /\ blocks' = blocks
  BY <1>2 DEF LiteralsClean, Clean, IsBlock
<1>3. CASE Signed \/ Slide \/ MatcherRests
  BY <1>2, <1>3 DEF Signed, Slide, MatcherRests, signatureVars
<1>4. ASSUME blocks' = blocks, \A k \in DOMAIN ops' : Clean(ops'[k])
      PROVE  LiteralsClean'
  BY <1>4 DEF LiteralsClean, Clean, IsBlock
<1>5. CASE MatchBlock
  <2>. DEFINE lit == Literal(literalStart, i)
              one == <<Copy(Matched(Weak, Window(i)))>>
  <2>1. lit \in Seq(DeltaOp) /\ one \in Seq(DeltaOp) /\ ops' = ops \o lit \o one
        /\ blocks' = blocks
    BY <1>5, MatchAdds DEF MatchBlock, signatureVars
  <2>2. \A k \in DOMAIN lit : Clean(lit[k])
    BY <1>0, <1>5, LiteralClean DEF MatchBlock
  <2>3. \A k \in DOMAIN one : Clean(one[k])
    BY DEF Clean, Copy
  <2>. HIDE DEF lit, one
  <2>4. \A k \in DOMAIN (ops \o lit) : Clean((ops \o lit)[k])
    BY <1>0, <2>1, <2>2, CleanBoth DEF LiteralsClean
  <2>5. ops \o lit \in Seq(DeltaOp)
    BY <1>0, <2>1, ConcatProperties
  <2>6. \A k \in DOMAIN ops' : Clean(ops'[k])
    BY <2>1, <2>3, <2>4, <2>5, CleanBoth
  <2>. QED BY <1>4, <2>1, <2>6
<1>6. CASE MatchedAll
  <2>. DEFINE lit == Literal(literalStart, Len(source))
  <2>1. lit \in Seq(DeltaOp) /\ ops' = ops \o lit /\ blocks' = blocks
    BY <1>0, <1>6, LiteralType DEF MatchedAll, signatureVars
  <2>2. \A k \in DOMAIN lit : Clean(lit[k])
    BY <1>0, <1>6, LiteralClean DEF MatchedAll
  <2>. HIDE DEF lit
  <2>3. \A k \in DOMAIN ops' : Clean(ops'[k])
    BY <1>0, <2>1, <2>2, CleanBoth DEF LiteralsClean
  <2>. QED BY <1>4, <2>1, <2>3
<1>. QED BY <1>1, <1>3, <1>5, <1>6, MatcherSteps

-----------------------------------------------------------------------------
(* The script that takes the helper's place.                               *)

\* One turn of the script's loop, f being what it makes of the rest.
ScriptStep(f, from, start) ==
    IF from + BlockSize > Len(source) THEN Literal(start, Len(source))
    ELSE LET found == Candidates(WeakHash(Window(from)), Window(from))
         IN  IF found # {}
             THEN Literal(start, from) \o <<Copy(blocks[Min(found)])>>
                    \o f[from + BlockSize][from + BlockSize]
             ELSE f[from + 1][start]

Positions == 0 .. Len(source)

\* One turn adds ops to those of the rest.
LEMMA ScriptStepType ==
    ASSUME TypeOK, NEW f, NEW from \in Positions, NEW start \in Positions,
           \A later \in Positions : later > from => f[later] \in [Positions -> Seq(DeltaOp)]
    PROVE  ScriptStep(f, from, start) \in Seq(DeltaOp)
<1>0. /\ source \in Seq(Bytes) /\ Len(source) \in Nat /\ blocks \in Seq(Block)
      /\ from \in Nat /\ start \in Nat /\ from <= Len(source) /\ start <= Len(source)
      /\ BlockSize \in Nat /\ BlockSize > 0
  BY Typed DEF Positions
<1>1. CASE from + BlockSize > Len(source)
  <2>1. Literal(start, Len(source)) \in Seq(DeltaOp)
    <3>1. source \in Seq(Bytes) /\ start \in Nat /\ Len(source) \in Nat /\ Len(source) <= Len(source)
      BY <1>0
    <3>. QED BY <3>1, LiteralType
  <2>. QED BY <1>1, <2>1 DEF ScriptStep
<1>. DEFINE found == Candidates(WeakHash(Window(from)), Window(from))
<1>2. CASE ~(from + BlockSize > Len(source)) /\ found # {}
  <2>. DEFINE lit == Literal(start, from)
              one == <<Copy(blocks[Min(found)])>>
              rest == f[from + BlockSize][from + BlockSize]
  <2>1. lit \in Seq(DeltaOp)
    BY <1>0, LiteralType
  <2>2. one \in Seq(DeltaOp)
    <3>1. Copy(blocks[Min(found)]) \in DeltaOp
      BY <1>0, <1>2, MatchedFits, CopyType DEF Matched
    <3>. QED BY <3>1
  <2>3. rest \in Seq(DeltaOp)
    <3>1. from + BlockSize \in Positions /\ from + BlockSize > from
      BY <1>0, <1>2 DEF Positions
    <3>. QED BY <3>1
  <2>4. ScriptStep(f, from, start) = lit \o one \o rest
    BY <1>2 DEF ScriptStep
  <2>. HIDE DEF lit, one, rest
  <2>. QED BY <2>1, <2>2, <2>3, <2>4
<1>3. CASE ~(from + BlockSize > Len(source)) /\ found = {}
  <2>1. from + 1 \in Positions /\ from + 1 > from
    BY <1>0, <1>3 DEF Positions
  <2>2. ScriptStep(f, from, start) = f[from + 1][start]
    BY <1>3 DEF ScriptStep
  <2>. QED BY <2>1, <2>2
<1>. QED BY <1>1, <1>2, <1>3

\* One turn looks only at what comes later.
LEMMA ScriptStepLater ==
    ASSUME TypeOK, NEW f, NEW g, NEW from \in Positions, NEW start \in Positions,
           \A later \in Positions : later > from => f[later] = g[later]
    PROVE  ScriptStep(f, from, start) = ScriptStep(g, from, start)
<1>0. Len(source) \in Nat /\ from \in Nat /\ BlockSize \in Nat /\ BlockSize > 0
  BY Typed DEF Positions
<1>1. CASE from + BlockSize > Len(source)
  BY <1>1 DEF ScriptStep
<1>2. CASE ~(from + BlockSize > Len(source))
  <2>1. /\ from + BlockSize \in Positions /\ from + BlockSize > from
        /\ from + 1 \in Positions /\ from + 1 > from
    BY <1>0, <1>2 DEF Positions
  <2>2. f[from + BlockSize] = g[from + BlockSize] /\ f[from + 1] = g[from + 1]
    BY <2>1
  <2>. QED BY <2>2 DEF ScriptStep
<1>. QED BY <1>1, <1>2

\* The recursion is one, and it ends.
LEMMA ScriptExists ==
    ASSUME TypeOK
    PROVE  \E f \in [Positions -> [Positions -> Seq(DeltaOp)]] :
              f = [from \in Positions |-> [start \in Positions |-> ScriptStep(f, from, start)]]
<1>. DEFINE Plans == [Positions -> Seq(DeltaOp)]
            Agrees(f, from) == f[from] = [start \in Positions |-> ScriptStep(f, from, start)]
            T == {n \in Nat : \E f \in [Positions -> Plans] :
                     \A from \in Positions : Len(source) - from < n => Agrees(f, from)}
<1>0. Len(source) \in Nat /\ (\A from \in Positions : from \in Nat /\ from <= Len(source))
  BY Typed DEF Positions
<1>1. 0 \in T
  <2>1. [from \in Positions |-> [start \in Positions |-> <<>>]] \in [Positions -> Plans]
    OBVIOUS
  <2>2. \A from \in Positions : ~(Len(source) - from < 0)
    BY <1>0
  <2>. QED BY <2>1, <2>2
<1>2. ASSUME NEW n \in Nat, n \in T
      PROVE  n + 1 \in T
  <2>1. PICK f \in [Positions -> Plans] :
          \A from \in Positions : Len(source) - from < n => Agrees(f, from)
    BY <1>2
  <2>. DEFINE plan(from) == [start \in Positions |-> ScriptStep(f, from, start)]
              g == [from \in Positions |-> IF Len(source) - from = n THEN plan(from) ELSE f[from]]
  <2>2. \A from \in Positions : plan(from) \in Plans
    <3>. SUFFICES ASSUME NEW from \in Positions, NEW start \in Positions
                  PROVE  ScriptStep(f, from, start) \in Seq(DeltaOp)
      OBVIOUS
    <3>1. \A later \in Positions : later > from => f[later] \in [Positions -> Seq(DeltaOp)]
      OBVIOUS
    <3>. QED BY <3>1, ScriptStepType
  <2>3. g \in [Positions -> Plans]
    <3>. HIDE DEF plan, Plans
    <3>. QED BY <2>2
  <2>4. ASSUME NEW from \in Positions, Len(source) - from < n + 1
        PROVE  Agrees(g, from)
    <3>1. \A later \in Positions : later > from => f[later] = g[later]
      <4>. SUFFICES ASSUME NEW later \in Positions, later > from
                    PROVE  Len(source) - later # n
        OBVIOUS
      <4>. QED BY <1>0, <2>4
    <3>2. \A start \in Positions : ScriptStep(f, from, start) = ScriptStep(g, from, start)
      <4>. HIDE DEF g
      <4>. QED BY <3>1, ScriptStepLater
    <3>3. CASE Len(source) - from = n
      <4>1. g[from] = plan(from)
        BY <3>3
      <4>. QED BY <3>2, <4>1
    <3>4. CASE Len(source) - from # n
      <4>1. Len(source) - from < n
        <5>. DEFINE left == Len(source) - from
        <5>1. left \in Int /\ left < n + 1 /\ left # n
          BY <1>0, <2>4, <3>4
        <5>. HIDE DEF left
        <5>2. left < n
          BY <5>1
        <5>. QED BY <5>2 DEF left
      <4>2. g[from] = f[from]
        BY <3>4
      <4>. QED BY <2>1, <3>2, <4>1, <4>2
    <3>. QED BY <3>3, <3>4
  <2>. HIDE DEF g, Agrees, Plans
  <2>. QED BY <2>3, <2>4
<1>. HIDE DEF T
<1>3. Len(source) + 1 \in T
  BY <1>0, <1>1, <1>2, SetInduction
<1>4. PICK f \in [Positions -> Plans] :
        \A from \in Positions : Len(source) - from < Len(source) + 1 => Agrees(f, from)
  BY <1>3 DEF T
<1>5. \A from \in Positions : Agrees(f, from)
  <2>1. \A from \in Positions : Len(source) - from < Len(source) + 1
    BY <1>0
  <2>. HIDE DEF Agrees
  <2>. QED BY <1>4, <2>1
<1>6. f = [from \in Positions |-> [start \in Positions |-> ScriptStep(f, from, start)]]
  BY <1>5
<1>. QED BY <1>6

\* Script is a function of the kind its recursion says.
LEMMA ScriptUnfold ==
    ASSUME TypeOK
    PROVE  Script = [from \in Positions |-> [start \in Positions |-> ScriptStep(Script, from, start)]]
<1>1. \E f : f = [from \in Positions |-> [start \in Positions |-> ScriptStep(f, from, start)]]
  BY ScriptExists
<1>. QED BY <1>1 DEF Script, ScriptStep, Positions

\* What the script makes of the rest are ops.
LEMMA ScriptType ==
    ASSUME TypeOK
    PROVE  Script \in [Positions -> [Positions -> Seq(DeltaOp)]]
<1>. DEFINE Plans == [Positions -> Seq(DeltaOp)]
            T == {n \in Nat : \A from \in Positions : Len(source) - from < n => Script[from] \in Plans}
<1>0. Len(source) \in Nat /\ (\A from \in Positions : from \in Nat /\ from <= Len(source))
  BY Typed DEF Positions
<1>1. 0 \in T
  BY <1>0
<1>2. ASSUME NEW n \in Nat, n \in T
      PROVE  n + 1 \in T
  <2>1. ASSUME NEW from \in Positions, Len(source) - from < n + 1
        PROVE  Script[from] \in Plans
    <3>1. \A later \in Positions : later > from => Script[later] \in [Positions -> Seq(DeltaOp)]
      <4>. SUFFICES ASSUME NEW later \in Positions, later > from PROVE Len(source) - later < n
        BY <1>2
      <4>. QED BY <1>0, <2>1
    <3>2. \A start \in Positions : ScriptStep(Script, from, start) \in Seq(DeltaOp)
      BY <3>1, ScriptStepType
    <3>3. Script[from] = [start \in Positions |-> ScriptStep(Script, from, start)]
      BY ScriptUnfold
    <3>. QED BY <3>2, <3>3
  <2>. QED BY <2>1
<1>. HIDE DEF T
<1>3. Len(source) + 1 \in T
  BY <1>0, <1>1, <1>2, SetInduction
<1>4. \A from \in Positions : Script[from] \in Plans
  BY <1>0, <1>3 DEF T
<1>5. DOMAIN Script = Positions /\ Script = [from \in Positions |-> Script[from]]
  BY ScriptUnfold
<1>. QED BY <1>4, <1>5

\* The script's plan for the rest, when it finds no window, finds no block, or finds one.
LEMMA ScriptTurns ==
    ASSUME TypeOK, NEW from \in Positions, NEW start \in Positions
    PROVE  /\ Script[from][start] \in Seq(DeltaOp)
           /\ Script[from][start] = ScriptStep(Script, from, start)
<1>1. Script[from] = [s \in Positions |-> ScriptStep(Script, from, s)]
  BY ScriptUnfold
<1>2. Script[from][start] = ScriptStep(Script, from, start)
  BY <1>1
<1>3. Script[from] \in [Positions -> Seq(DeltaOp)]
  BY ScriptType
<1>. QED BY <1>2, <1>3

\* It depends on the source and on the signature alone.
LEMMA ScriptSame ==
    ASSUME source' = source, blocks' = blocks
    PROVE  Script' = Script /\ FallbackOps' = FallbackOps
<1>1. Script' = Script
  BY DEF Script, Candidates, Literal, Copy, Window, Slice
<1>. QED BY <1>1 DEF FallbackOps

\* At every step of the matcher the script would end the plan in the same way.
LEMMA PlanStep ==
    ASSUME TypeOK, NothingPlanned, RollingFits, PlanAgrees, [Next]_vars
    PROVE  PlanAgrees'
<1>0. /\ source \in Seq(Bytes) /\ Len(source) \in Nat /\ i \in Nat /\ i <= Len(source)
      /\ literalStart \in Nat /\ literalStart <= i /\ ops \in Seq(DeltaOp)
      /\ BlockSize \in Nat /\ BlockSize > 0
  BY Typed
<1>p. 0 \in Positions /\ i \in Positions /\ literalStart \in Positions
  BY <1>0 DEF Positions
<1>1. CASE \E n \in Nat : SignBlock(n)
  BY <1>1 DEF SignBlock, PlanAgrees
<1>2. CASE Signed
  <2>. SUFFICES ASSUME pc' = "match"
                PROVE  ops' \o Script'[i'][literalStart'] = FallbackOps'
    BY <1>2 DEF PlanAgrees, Signed, Finish
  <2>1. /\ i' = 0 /\ literalStart' = 0 /\ ops' = <<>> /\ source' = source /\ blocks' = blocks
    BY <1>0, <1>2 DEF Signed, NothingPlanned, signatureVars
  <2>2. <<>> \o Script[0][0] = Script[0][0]
    BY <1>p, ScriptTurns, ConcatEmptySeq
  <2>. QED BY <2>1, <2>2, ScriptSame DEF FallbackOps
<1>3. CASE MatchBlock
  <2>. DEFINE lit == Literal(literalStart, i)
              one == <<Copy(Matched(Weak, Window(i)))>>
              rest == Script[i + BlockSize][i + BlockSize]
  <2>1. /\ pc = "match" /\ pc' = "match" /\ MoreWindows /\ source' = source /\ blocks' = blocks
        /\ i' = i + BlockSize /\ literalStart' = i + BlockSize /\ ops' = ops \o lit \o one
        /\ Candidates(Weak, Window(i)) # {}
    BY <1>3 DEF MatchBlock, signatureVars
  <2>2. Weak = WeakHash(Window(i))
    BY <2>1, WeakIsWeakHash
  <2>3. ~(i + BlockSize > Len(source)) /\ i + BlockSize \in Positions
    BY <1>0, <2>1 DEF MoreWindows, Positions
  <2>4. Script[i][literalStart] = lit \o one \o rest
    <3>1. ScriptStep(Script, i, literalStart) = lit \o one \o rest
      BY <2>1, <2>2, <2>3 DEF ScriptStep, Matched
    <3>. QED BY <1>p, <3>1, ScriptTurns
  <2>5. lit \in Seq(DeltaOp) /\ one \in Seq(DeltaOp) /\ rest \in Seq(DeltaOp)
    BY <1>3, <2>3, MatchAdds, ScriptTurns
  <2>6. ops \o Script[i][literalStart] = FallbackOps
    BY <2>1 DEF PlanAgrees
  <2>7. ops' \o rest = FallbackOps
    <3>. HIDE DEF lit, one, rest
    <3>a. \A s, t, u \in Seq(DeltaOp) : (s \o t) \o u = s \o (t \o u)
      BY ConcatAssociative
    <3>1. (ops \o lit) \o one = ops \o (lit \o one)
      BY <1>0, <2>5, <3>a
    <3>. DEFINE both == lit \o one
    <3>2. both \in Seq(DeltaOp)
      BY <2>5, ConcatProperties
    <3>. HIDE DEF both
    <3>3. ops \in Seq(DeltaOp) /\ rest \in Seq(DeltaOp)
      BY <1>0, <2>5
    <3>4. (ops \o both) \o rest = ops \o (both \o rest)
      BY <3>2, <3>3, <3>a
    <3>. QED BY <2>1, <2>4, <2>6, <3>1, <3>4 DEF both
  <2>8. ops' \o Script'[i'][literalStart'] = FallbackOps'
    BY <2>1, <2>7, ScriptSame
  <2>. QED BY <2>1, <2>8 DEF PlanAgrees
<1>4. CASE Slide
  <2>1. /\ pc = "match" /\ pc' = "match" /\ MoreWindows /\ source' = source /\ blocks' = blocks
        /\ i' = i + 1 /\ literalStart' = literalStart /\ ops' = ops
        /\ Candidates(Weak, Window(i)) = {}
    BY <1>4 DEF Slide, signatureVars
  <2>2. Weak = WeakHash(Window(i))
    BY <2>1, WeakIsWeakHash
  <2>3. ~(i + BlockSize > Len(source))
    BY <1>0, <2>1 DEF MoreWindows
  <2>4. Script[i][literalStart] = Script[i + 1][literalStart]
    <3>1. ScriptStep(Script, i, literalStart) = Script[i + 1][literalStart]
      BY <2>1, <2>2, <2>3 DEF ScriptStep
    <3>. QED BY <1>p, <3>1, ScriptTurns
  <2>5. ops' \o Script'[i'][literalStart'] = FallbackOps'
    BY <2>1, <2>4, ScriptSame DEF PlanAgrees
  <2>. QED BY <2>1, <2>5 DEF PlanAgrees
<1>5. CASE MatchedAll
  <2>1. /\ pc = "match" /\ pc' = "review" /\ ~MoreWindows /\ source' = source /\ blocks' = blocks
        /\ ops' = ops \o Literal(literalStart, Len(source))
    BY <1>5 DEF MatchedAll, signatureVars
  <2>2. i + BlockSize > Len(source)
    BY <1>0, <2>1 DEF MoreWindows
  <2>3. Script[i][literalStart] = Literal(literalStart, Len(source))
    <3>1. ScriptStep(Script, i, literalStart) = Literal(literalStart, Len(source))
      BY <2>2 DEF ScriptStep
    <3>. QED BY <1>p, <3>1, ScriptTurns
  <2>4. ops' = FallbackOps'
    BY <2>1, <2>3, ScriptSame DEF PlanAgrees
  <2>. QED BY <2>1, <2>4 DEF PlanAgrees
<1>6. CASE MatcherRests
  <2>1. Script' = Script /\ FallbackOps' = FallbackOps
    BY <1>6, ScriptSame DEF MatcherRests
  <2>. QED BY <1>6, <2>1 DEF MatcherRests, PlanAgrees
<1>. QED BY <1>1, <1>2, <1>3, <1>4, <1>5, <1>6, MatcherSteps

\* The inductive invariant of the matcher.
LEMMA MatcherInvInit == Init => MatcherInv
<1>. SUFFICES ASSUME Init PROVE MatcherInv
  OBVIOUS
<1>1. TypeOK
  BY TypeInit
<1>2. NothingPlanned /\ RollingFits /\ Scanned /\ PlanAgrees
  BY DEF Init, NothingPlanned, RollingFits, Scanned, PlanAgrees
<1>3. SignatureFits /\ LiteralsClean
  BY DEF Init, SignatureFits, LiteralsClean
<1>. QED BY <1>1, <1>2, <1>3 DEF MatcherInv

\* Every step keeps what is known of the matcher.
LEMMA MatcherInvStep == MatcherInv /\ [Next]_vars => MatcherInv'
<1>. SUFFICES ASSUME MatcherInv, [Next]_vars PROVE MatcherInv'
  OBVIOUS
<1>1. /\ TypeOK /\ NothingPlanned /\ SignatureFits /\ RollingFits /\ Scanned
      /\ LiteralsClean /\ PlanAgrees
  BY DEF MatcherInv
<1>2. TypeOK' /\ NothingPlanned' /\ SignatureFits'
  BY <1>1, TypeStep, NothingPlannedStep, SignatureStep
<1>3. RollingFits' /\ Scanned'
  BY <1>1, RollingStep, ScannedStep
<1>4. LiteralsClean' /\ PlanAgrees'
  BY <1>1, LiteralsStep, PlanStep
<1>. QED BY <1>2, <1>3, <1>4 DEF MatcherInv

\* The matcher keeps its invariant.
THEOREM MatcherInvariance == Spec => []MatcherInv
BY MatcherInvInit, MatcherInvStep, PTL DEF Spec

\* The checksum the matcher rolls is that of the window it stands for.
THEOREM RollingIsWeakHashHolds == Spec => []RollingIsWeakHash
<1>1. MatcherInv => RollingIsWeakHash
  BY WeakIsWeakHash DEF MatcherInv, RollingIsWeakHash
<1>. QED BY <1>1, MatcherInvariance, PTL

\* The matcher overlooks no block, at no offset.
THEOREM NoBlockMissedHolds == Spec => []NoBlockMissed
<1>1. MatcherInv => NoBlockMissed
  BY DEF MatcherInv, LiteralsClean, Clean, IsBlock, NoBlockMissed
<1>. QED BY <1>1, MatcherInvariance, PTL

\* The helper and the script that takes its place make the same plan.
THEOREM FallbackAgreesHolds == Spec => []FallbackAgrees
<1>1. MatcherInv => FallbackAgrees
  BY DEF MatcherInv, PlanAgrees, FallbackAgrees
<1>. QED BY <1>1, MatcherInvariance, PTL

-----------------------------------------------------------------------------
(* The patch.                                                              *)

\* A step nobody disturbs is not an edit of the basis nor a short read.
LEMMA Undisturbed ==
    ASSUME TypeOK, [Next]_vars, disturbances' = disturbances
    PROVE  \/ ReadBlock \/ Signed \/ MatchBlock \/ Slide \/ MatchedAll
           \/ Refuse \/ Agree \/ OpenFiles \/ Apply \/ Applied \/ Accept \/ Reject
           \/ UNCHANGED vars
<1>1. disturbances \in Int
  BY DEF TypeOK
<1>2. ~Disturb
  BY <1>1 DEF Disturb
<1>. QED BY <1>2 DEF Next, ReadShort, EditBasis

\* The signature numbers the blocks by their place.
LEMMA InPlaceStep ==
    ASSUME TypeOK, BlocksInPlace, [Next]_vars, disturbances' = disturbances
    PROVE  BlocksInPlace'
<1>0. /\ basis \in Seq(Bytes) /\ Len(basis) \in Nat /\ pos \in Nat /\ blocks \in Seq(Block)
      /\ Len(blocks) \in Nat /\ DOMAIN blocks = 1 .. Len(blocks)
      /\ BlockSize \in Nat /\ BlockSize > 0
  BY Typed
<1>1. CASE ReadBlock
  <2>. DEFINE left == Len(basis) - pos
              n == Min({BlockSize, left})
              piece == Slice(basis, pos, pos + n)
              sig == BlockSig(piece)
  <2>1. /\ pc = "sign" /\ pos < Len(basis) /\ SignBlock(n) /\ basis' = basis
        /\ blocks' = Append(blocks, sig) /\ pos' = pos + n /\ pc' = pc
    BY <1>1 DEF ReadBlock, SignBlock
  <2>2. /\ n \in Nat /\ n = (IF BlockSize <= left THEN BlockSize ELSE left)
    <3>1. left \in Nat
      BY <1>0, <2>1
    <3>. HIDE DEF left
    <3>. QED BY <1>0, <3>1, LesserOf
  <2>3. Len(piece) = n /\ sig \in Block
    BY <2>1, <2>2, SignBlockType
  <2>4. sig.index = Len(blocks) /\ sig.len = n /\ sig.strong = piece
    BY <2>3 DEF BlockSig
  <2>. DEFINE place == Len(blocks) * BlockSize
  <2>5. pos = place
    BY <1>0, <2>1 DEF BlocksInPlace
  <2>6. (Len(blocks) + 1) * BlockSize = place + BlockSize /\ place \in Nat
    BY <1>0
  <2>7. /\ Len(blocks') = Len(blocks) + 1 /\ DOMAIN blocks' = 1 .. Len(blocks) + 1
        /\ \A k \in 1 .. Len(blocks) : blocks'[k] = blocks[k]
        /\ blocks'[Len(blocks) + 1] = sig
    BY <1>0, <2>1, <2>3, AppendProperties
  <2>. HIDE DEF n, piece, sig, place
  <2>8. pos' <= Len(basis) /\ (pos' = Len(blocks') * BlockSize \/ pos' = Len(basis))
    <3>1. CASE BlockSize <= left
      BY <1>0, <2>1, <2>2, <2>5, <2>6, <2>7, <3>1
    <3>2. CASE ~(BlockSize <= left)
      BY <1>0, <2>1, <2>2, <3>2
    <3>. QED BY <3>1, <3>2
  <2>9. ASSUME NEW k \in 1 .. Len(blocks) + 1, blocks'[k].len = BlockSize
        PROVE  /\ blocks'[k].index * BlockSize + BlockSize <= Len(basis)
               /\ blocks'[k].strong = Slice(basis, blocks'[k].index * BlockSize,
                                                   blocks'[k].index * BlockSize + BlockSize)
    <3>1. CASE k \in 1 .. Len(blocks)
      BY <1>0, <2>7, <2>9, <3>1 DEF BlocksInPlace
    <3>2. CASE k = Len(blocks) + 1
      <4>1. blocks'[k].index * BlockSize = place /\ blocks'[k].strong = piece /\ n = BlockSize
        BY <2>4, <2>7, <2>9, <3>2 DEF place
      <4>2. piece = Slice(basis, place, place + BlockSize)
        BY <2>5, <4>1 DEF piece
      <4>3. place + BlockSize <= Len(basis)
        BY <1>0, <2>1, <2>2, <2>5, <4>1
      <4>. QED BY <4>1, <4>2, <4>3
    <3>. QED BY <1>0, <3>1, <3>2
  <2>. QED BY <2>1, <2>7, <2>8, <2>9 DEF BlocksInPlace
<1>2. ASSUME UNCHANGED <<basis, blocks>>, pc' # "sign"
      PROVE  BlocksInPlace'
  BY <1>2 DEF BlocksInPlace
<1>3. CASE Signed \/ MatchBlock \/ Slide \/ MatchedAll
  BY <1>2, <1>3 DEF Signed, MatchBlock, Slide, MatchedAll, Finish, signatureVars
<1>4. CASE Refuse \/ Agree \/ OpenFiles \/ Applied \/ Accept \/ Reject
  BY <1>2, <1>4 DEF Refuse, Agree, OpenFiles, Applied, Accept, Reject, Finish, signatureVars
<1>5. CASE Apply
  BY <1>2, <1>5 DEF Apply, ApplyCopy, ApplyLiteral, CopyFails, Write, Finish, signatureVars
<1>6. CASE UNCHANGED vars
  BY <1>6 DEF BlocksInPlace, vars, signatureVars
<1>. QED BY <1>1, <1>3, <1>4, <1>5, <1>6, Undisturbed

\* A plan spells the source up to a position.
CutsUpTo(plan, cut, to) ==
    /\ cut \in [0 .. Len(plan) -> 0 .. Len(source)]
    /\ cut[0] = 0
    /\ \A k \in 1 .. Len(plan) :
         /\ InBasis(plan[k])
         /\ cut[k - 1] <= cut[k]
         /\ Spelled(plan[k]) = Slice(source, cut[k - 1], cut[k])
    /\ cut[Len(plan)] = to

\* One op more spells the source a piece further.
LEMMA CutFurther ==
    ASSUME TypeOK, NEW plan \in Seq(DeltaOp), NEW op \in DeltaOp, NEW cut, NEW from \in Nat,
           NEW to \in Nat, from <= to, to <= Len(source), CutsUpTo(plan, cut, from),
           InBasis(op), Spelled(op) = Slice(source, from, to)
    PROVE  \E further : CutsUpTo(plan \o <<op>>, further, to)
<1>. DEFINE n == Len(plan)
            longer == plan \o <<op>>
            further == [k \in 0 .. n + 1 |-> IF k = n + 1 THEN to ELSE cut[k]]
<1>0. n \in Nat /\ Len(source) \in Nat
  BY Typed
<1>1. /\ longer \in Seq(DeltaOp) /\ Len(longer) = n + 1 /\ longer[n + 1] = op
      /\ \A k \in 1 .. n : longer[k] = plan[k]
  OBVIOUS
<1>2. /\ cut \in [0 .. n -> 0 .. Len(source)] /\ cut[0] = 0 /\ cut[n] = from
      /\ \A k \in 1 .. n :
           /\ InBasis(plan[k])
           /\ cut[k - 1] <= cut[k]
           /\ Spelled(plan[k]) = Slice(source, cut[k - 1], cut[k])
  BY DEF CutsUpTo
<1>. HIDE DEF n, longer
<1>3. /\ further \in [0 .. n + 1 -> 0 .. Len(source)] /\ further[n + 1] = to
      /\ \A k \in 0 .. n : further[k] = cut[k]
  <2>1. \A k \in 0 .. n + 1 : k # n + 1 => k \in 0 .. n
    BY <1>0
  <2>2. to \in 0 .. Len(source)
    BY <1>0
  <2>3. n + 1 \in 0 .. n + 1 /\ (\A k \in 0 .. n : k \in 0 .. n + 1 /\ k # n + 1)
    BY <1>0
  <2>. QED BY <1>2, <2>1, <2>2, <2>3
<1>. HIDE DEF further
<1>4. ASSUME NEW k \in 1 .. n + 1
      PROVE  /\ InBasis(longer[k])
             /\ further[k - 1] <= further[k]
             /\ Spelled(longer[k]) = Slice(source, further[k - 1], further[k])
  <2>1. CASE k \in 1 .. n
    <3>1. further[k] = cut[k] /\ further[k - 1] = cut[k - 1] /\ longer[k] = plan[k]
      BY <1>0, <1>1, <1>3, <2>1
    <3>. QED BY <1>2, <2>1, <3>1
  <2>2. CASE k = n + 1
    <3>1. further[k] = to /\ further[k - 1] = from /\ longer[k] = op
      BY <1>0, <1>1, <1>2, <1>3, <2>2
    <3>. QED BY <3>1
  <2>. QED BY <1>0, <2>1, <2>2
<1>5. further[0] = 0
  BY <1>0, <1>2, <1>3
<1>6. CutsUpTo(longer, further, to)
  BY <1>1, <1>3, <1>4, <1>5 DEF CutsUpTo
<1>. QED BY <1>6 DEF longer

\* So does a literal, which may be empty.
LEMMA CutLiteral ==
    ASSUME TypeOK, NEW cut, NEW to \in Nat, literalStart <= to, to <= Len(source),
           CutsUpTo(ops, cut, literalStart)
    PROVE  \E further : CutsUpTo(ops \o Literal(literalStart, to), further, to)
<1>0. source \in Seq(Bytes) /\ literalStart \in Nat /\ ops \in Seq(DeltaOp)
  BY Typed
<1>1. CASE literalStart < to
  <2>. DEFINE op == [kind |-> "literal", data |-> Slice(source, literalStart, to)]
  <2>1. op \in DeltaOp
    BY <1>0, SliceFits DEF DeltaOp
  <2>2. InBasis(op) /\ Spelled(op) = Slice(source, literalStart, to)
    BY DEF InBasis, Spelled
  <2>3. Literal(literalStart, to) = <<op>>
    BY <1>1 DEF Literal
  <2>. HIDE DEF op
  <2>. QED BY <1>0, <2>1, <2>2, <2>3, CutFurther
<1>2. CASE ~(literalStart < to)
  <2>1. literalStart = to /\ ops \o Literal(literalStart, to) = ops
    BY <1>0, <1>2, ConcatEmptySeq DEF Literal
  <2>. QED BY <2>1
<1>. QED BY <1>1, <1>2

\* A cut that spells the next plan, of the same files.
LEMMA SpellsNext ==
    ASSUME source' = source, basis' = basis, ops' \in Seq(DeltaOp), NEW cut, NEW to,
           CutsUpTo(ops', cut, to)
    PROVE  Spells(cut)' /\ cut \in [0 .. Len(ops') -> 0 .. Len(source')] /\ cut[Len(ops')] = to
<1>1. DOMAIN ops' = 1 .. Len(ops')
  OBVIOUS
<1>. QED BY <1>1 DEF CutsUpTo, Spells, InBasis, Spelled

\* The plan always spells the source, and so does what is written of it.
LEMMA SpellStep ==
    ASSUME TypeOK, BlocksInPlace, PlanSpells, pc = "patch" => basisLen = Len(basis),
           [Next]_vars, disturbances' = disturbances
    PROVE  PlanSpells'
<1>0. /\ source \in Seq(Bytes) /\ Len(source) \in Nat /\ basis \in Seq(Bytes)
      /\ i \in Nat /\ i <= Len(source) /\ literalStart \in Nat /\ literalStart <= i
      /\ ops \in Seq(DeltaOp) /\ Len(ops) \in Nat /\ DOMAIN ops = 1 .. Len(ops)
      /\ next \in Nat /\ next <= Len(ops) /\ BlockSize \in Nat /\ BlockSize > 0
      /\ blocks \in Seq(Block)
  BY Typed
<1>1. PICK cut \in [0 .. Len(ops) -> 0 .. Len(source)] :
        /\ Spells(cut)
        /\ pc \in {"sign", "match"} => cut[Len(ops)] = literalStart
        /\ pc \in {"review", "open", "patch"} => cut[Len(ops)] = Len(source)
        /\ pc = "patch" => out = Slice(source, 0, cut[next])
  BY DEF PlanSpells
<1>2. ASSUME UNCHANGED <<source, basis, ops>>,
             pc' \in {"sign", "match"} => cut[Len(ops)] = literalStart',
             pc' \in {"review", "open", "patch"} => cut[Len(ops)] = Len(source),
             pc' = "patch" => out' = Slice(source, 0, cut[next'])
      PROVE  PlanSpells'
  <2>1. Spells(cut)'
    BY <1>1, <1>2 DEF Spells, InBasis, Spelled
  <2>. QED BY <1>2, <2>1 DEF PlanSpells
<1>3. CASE ReadBlock
  <2>1. /\ UNCHANGED <<source, basis, ops>> /\ pc = "sign" /\ pc' = "sign"
        /\ literalStart' = literalStart
    BY <1>3 DEF ReadBlock, SignBlock, matcherVars
  <2>. QED BY <1>1, <1>2, <2>1
<1>4. CASE Signed
  <2>1. /\ UNCHANGED <<source, basis, ops>> /\ pc = "sign" /\ pc' \in {"match", "end"}
        /\ literalStart' = literalStart
    BY <1>4 DEF Signed, Finish
  <2>. QED BY <1>1, <1>2, <2>1
<1>5. CASE Slide
  <2>1. /\ UNCHANGED <<source, basis, ops>> /\ pc = "match" /\ pc' = "match"
        /\ literalStart' = literalStart
    BY <1>5 DEF Slide
  <2>. QED BY <1>1, <1>2, <2>1
<1>a. pc = "match" => CutsUpTo(ops, cut, literalStart)
  BY <1>0, <1>1 DEF CutsUpTo, Spells
<1>6. CASE MatchBlock
  <2>. DEFINE lit == Literal(literalStart, i)
              block == Matched(Weak, Window(i))
              op == Copy(block)
              to == i + BlockSize
  <2>1. /\ pc = "match" /\ pc' = "match" /\ source' = source /\ basis' = basis
        /\ ops' = ops \o lit \o <<op>> /\ literalStart' = to
        /\ Candidates(Weak, Window(i)) # {}
    BY <1>6 DEF MatchBlock
  <2>2. lit \in Seq(DeltaOp) /\ ops' \in Seq(DeltaOp) /\ to \in Nat /\ to <= Len(source) /\ i <= to
    BY <1>0, <1>6, MatchAdds
  <2>3. block \in Block /\ op \in DeltaOp
    BY <1>0, <2>1, MatchedFits, CopyType
  <2>4. InBasis(op) /\ Spelled(op) = Slice(source, i, to)
    <3>1. PICK k \in DOMAIN blocks : /\ block = blocks[k] /\ block.len = BlockSize
                                     /\ block.strong = Window(i)
      <4>. DEFINE found == Candidates(Weak, Window(i))
      <4>1. Min(found) \in found /\ block = blocks[Min(found)]
        BY <1>0, <2>1, MatchedFits DEF Matched
      <4>2. \A k \in found : /\ k \in DOMAIN blocks /\ blocks[k].len = BlockSize
                             /\ blocks[k].strong = Window(i)
        BY DEF Candidates
      <4>. HIDE DEF found, block
      <4>. QED BY <4>1, <4>2
    <3>2. /\ block.index * BlockSize + BlockSize <= Len(basis)
          /\ block.strong = Slice(basis, block.index * BlockSize, block.index * BlockSize + BlockSize)
      BY <3>1 DEF BlocksInPlace
    <3>3. op.kind = "copy" /\ op.index = block.index /\ op.len = BlockSize
      BY <3>1 DEF Copy
    <3>4. Window(i) = Slice(source, i, to)
      BY DEF Window
    <3>. HIDE DEF op, to, block
    <3>5. InBasis(op)
      BY <3>2, <3>3 DEF InBasis
    <3>6. Spelled(op) = Slice(source, i, to)
      BY <3>1, <3>2, <3>3, <3>4 DEF Spelled
    <3>. QED BY <3>5, <3>6
  <2>. HIDE DEF lit, op, to
  <2>5. PICK c1 : CutsUpTo(ops \o lit, c1, i)
    BY <1>0, <1>a, <2>1, CutLiteral DEF lit
  <2>6. ops \o lit \in Seq(DeltaOp)
    BY <1>0, <2>2, ConcatProperties
  <2>7. PICK c2 : CutsUpTo(ops', c2, to)
    BY <1>0, <2>1, <2>2, <2>3, <2>4, <2>5, <2>6, CutFurther
  <2>8. Spells(c2)' /\ c2 \in [0 .. Len(ops') -> 0 .. Len(source')] /\ c2[Len(ops')] = to
    BY <2>1, <2>2, <2>7, SpellsNext
  <2>. QED BY <2>1, <2>8 DEF PlanSpells
<1>7. CASE MatchedAll
  <2>1. /\ pc = "match" /\ pc' = "review" /\ source' = source /\ basis' = basis
        /\ ops' = ops \o Literal(literalStart, Len(source))
    BY <1>7 DEF MatchedAll
  <2>2. ops' \in Seq(DeltaOp)
    <3>1. Literal(literalStart, Len(source)) \in Seq(DeltaOp)
      BY <1>0, LiteralType
    <3>. QED BY <1>0, <2>1, <3>1, ConcatProperties
  <2>3. PICK c1 : CutsUpTo(ops', c1, Len(source))
    BY <1>0, <1>a, <2>1, CutLiteral
  <2>4. /\ Spells(c1)' /\ c1 \in [0 .. Len(ops') -> 0 .. Len(source')]
        /\ c1[Len(ops')] = Len(source)
    BY <2>1, <2>2, <2>3, SpellsNext
  <2>. QED BY <2>1, <2>4 DEF PlanSpells
<1>8. CASE Refuse \/ Accept \/ Reject
  <2>1. UNCHANGED <<source, basis, ops>> /\ pc' = "end"
    BY <1>8 DEF Refuse, Accept, Reject, Finish, matcherVars
  <2>. QED BY <1>2, <2>1
<1>9. CASE Agree
  <2>1. UNCHANGED <<source, basis, ops>> /\ pc = "review" /\ pc' = "open"
    BY <1>9 DEF Agree, matcherVars
  <2>. QED BY <1>1, <1>2, <2>1
<1>10. CASE OpenFiles
  <2>1. /\ UNCHANGED <<source, basis, ops>> /\ pc = "open" /\ pc' = "patch"
        /\ out' = <<>> /\ next' = 0
    BY <1>10 DEF OpenFiles, matcherVars
  <2>2. Slice(source, 0, cut[0]) = <<>>
    BY <1>1, SliceNothing DEF Spells
  <2>. QED BY <1>1, <1>2, <2>1, <2>2
<1>11. CASE Apply
  <2>1. next < Len(ops) /\ pc = "patch"
    BY <1>11 DEF Apply
  <2>2. /\ next + 1 \in DOMAIN ops /\ next + 1 \in 0 .. Len(ops) /\ (next + 1) - 1 = next
        /\ next \in 0 .. Len(ops)
    BY <1>0, <2>1
  <2>3. /\ cut[next] <= cut[next + 1] /\ InBasis(Op)
        /\ Spelled(Op) = Slice(source, cut[next], cut[next + 1])
    BY <1>1, <2>2 DEF Spells, Op
  <2>4. cut[next] \in Nat /\ cut[next + 1] \in Nat /\ cut[next + 1] <= Len(source)
    <3>1. cut[next] \in 0 .. Len(source) /\ cut[next + 1] \in 0 .. Len(source)
      BY <1>1, <2>2
    <3>. QED BY <1>0, <3>1
  <2>5. ASSUME Write(Spelled(Op))
        PROVE  PlanSpells'
    <3>1. /\ UNCHANGED <<source, basis, ops>> /\ pc' = "patch" /\ next' = next + 1
          /\ out' = Slice(source, 0, cut[next]) \o Slice(source, cut[next], cut[next + 1])
      BY <1>1, <2>1, <2>3, <2>5 DEF Write, matcherVars
    <3>2. Slice(source, 0, cut[next]) \o Slice(source, cut[next], cut[next + 1])
            = Slice(source, 0, cut[next + 1])
      <4>. DEFINE mid == cut[next]
                  to == cut[next + 1]
      <4>1. /\ 0 \in Nat /\ mid \in Nat /\ to \in Nat /\ 0 <= mid /\ mid <= to
            /\ to <= Len(source)
        BY <2>3, <2>4
      <4>. HIDE DEF mid, to
      <4>2. source \in Seq(Bytes)
        BY <1>0
      <4>3. Slice(source, 0, mid) \o Slice(source, mid, to) = Slice(source, 0, to)
        BY <4>1, <4>2, SliceAdjacent
      <4>. QED BY <4>3 DEF mid, to
    <3>3. out' = Slice(source, 0, cut[next'])
      BY <3>1, <3>2
    <3>. QED BY <1>1, <1>2, <2>1, <3>1, <3>3
  <2>6. CASE ApplyCopy
    <3>1. Op.kind = "copy" /\ Write(Slice(basis, CopyStart, CopyEnd))
      BY <2>6 DEF ApplyCopy
    <3>2. Spelled(Op) = Slice(basis, CopyStart, CopyEnd)
      BY <3>1 DEF Spelled, CopyStart, CopyEnd
    <3>. QED BY <2>5, <3>1, <3>2
  <2>7. CASE ApplyLiteral
    <3>1. Op.kind # "copy" /\ Write(Op.data)
      BY <2>7 DEF ApplyLiteral
    <3>2. Spelled(Op) = Op.data
      BY <3>1 DEF Spelled
    <3>. QED BY <2>5, <3>1, <3>2
  <2>8. CASE CopyFails
    <3>1. UNCHANGED <<source, basis, ops>> /\ pc' = "end"
      BY <2>8 DEF CopyFails, Finish, matcherVars
    <3>. QED BY <1>2, <3>1
  <2>. QED BY <1>11, <2>6, <2>7, <2>8 DEF Apply
<1>12. CASE Applied
  <2>1. UNCHANGED <<source, basis, ops>> /\ pc' = "verify"
    BY <1>12 DEF Applied, matcherVars
  <2>. QED BY <1>2, <2>1
<1>13. CASE UNCHANGED vars
  <2>1. UNCHANGED <<source, basis, ops, pc, literalStart, out, next>>
    BY <1>13 DEF vars, matcherVars, patchVars
  <2>. QED BY <1>1, <1>2, <2>1
<1>. QED
  BY <1>3, <1>4, <1>5, <1>6, <1>7, <1>8, <1>9, <1>10, <1>11, <1>12, <1>13, Undisturbed

\* A copy of an undisturbed plan is within the basis.
LEMMA CopyFits ==
    ASSUME TypeOK, PlanSpells, pc = "patch", basisLen = Len(basis), next < Len(ops)
    PROVE  ~CopyFails
<1>1. PICK cut \in [0 .. Len(ops) -> 0 .. Len(source)] : Spells(cut)
  BY DEF PlanSpells
<1>2. next + 1 \in DOMAIN ops
  BY Typed
<1>3. InBasis(Op)
  BY <1>1, <1>2 DEF Spells, Op
<1>4. Op.kind = "copy" => CopyEnd <= Len(basis)
  BY <1>3 DEF InBasis, CopyEnd, CopyStart
<1>5. Op.kind = "copy" => CopyEnd \in Int /\ Len(basis) \in Int
  <2>1. Op \in DeltaOp
    BY OpFits
  <2>2. Op.kind = "copy" => Op.index \in Nat /\ Op.len \in Nat
    BY <2>1, OpType
  <2>3. BlockSize \in Nat /\ Len(basis) \in Nat
    BY Typed
  <2>4. Op.kind = "copy" => CopyStart \in Nat
    BY <2>2, <2>3 DEF CopyStart
  <2>. QED BY <2>2, <2>3, <2>4 DEF CopyEnd
<1>. QED BY <1>4, <1>5 DEF CopyFails

\* When all ops are applied, the source is written.
LEMMA AppliedAll ==
    ASSUME TypeOK, PlanSpells, pc = "patch", next = Len(ops)
    PROVE  out = source
<1>1. PICK cut : out = Slice(source, 0, cut[next]) /\ cut[Len(ops)] = Len(source)
  BY DEF PlanSpells
<1>. QED BY <1>1, Typed, SliceAll

\* The inductive invariant of the patch.
LEMMA PatchInvInit == Init => PatchInv
<1>. SUFFICES ASSUME Init PROVE PatchInv
  OBVIOUS
<1>0. TypeOK
  BY TypeInit
<1>1. outcome = "none" /\ pc = "sign" /\ disturbances = 0
  BY DEF Init
<1>2. BlocksInPlace
  <2>1. blocks = <<>> /\ pos = 0 /\ Len(blocks) = 0 /\ 0 * BlockSize = 0 /\ pos <= Len(basis)
    BY <1>0, Typed DEF Init
  <2>. QED BY <2>1 DEF BlocksInPlace
<1>3. PlanSpells
  <2>. DEFINE cut == [k \in 0 .. Len(ops) |-> 0]
  <2>1. ops = <<>> /\ Len(ops) = 0 /\ literalStart = 0 /\ 0 \in 0 .. Len(source)
    BY <1>0, Typed DEF Init
  <2>2. cut \in [0 .. Len(ops) -> 0 .. Len(source)] /\ cut[0] = 0 /\ cut[Len(ops)] = literalStart
    BY <2>1
  <2>3. Spells(cut)
    BY <2>1, <2>2 DEF Spells
  <2>. HIDE DEF cut
  <2>. QED BY <1>1, <2>2, <2>3 DEF PlanSpells
<1>. QED BY <1>1, <1>2, <1>3 DEF PatchInv, UndisturbedFits

\* Every step keeps what is known of what is rebuilt.
LEMMA PatchInvStep == TypeOK /\ PatchInv /\ [Next]_vars => PatchInv'
<1>. SUFFICES ASSUME TypeOK, PatchInv, [Next]_vars PROVE PatchInv'
  OBVIOUS
<1>0. /\ outcome # "none" => pc = "end"
      /\ outcome \in {"broken", "mismatch"} => disturbances > 0
  BY DEF PatchInv, UndisturbedFits
<1>1. disturbances = 0 =>
        /\ BlocksInPlace /\ PlanSpells
        /\ pc = "patch" => basisLen = Len(basis)
        /\ pc = "verify" => out = source
  BY DEF PatchInv
<1>2. disturbances \in Nat /\ disturbances' \in Nat
  <2>1. TypeOK'
    BY TypeStep
  <2>. QED BY <2>1 DEF TypeOK
<1>3. disturbances' = disturbances \/ disturbances' = disturbances + 1
  BY DEF Next, ReadBlock, ReadShort, Signed, MatchBlock, Slide, MatchedAll, Refuse, Agree, OpenFiles,
         Apply, ApplyCopy, ApplyLiteral, CopyFails, Write, Applied, Accept, Reject, EditBasis,
         Disturb, vars
<1>4. disturbances' = 0 => disturbances = 0 /\ disturbances' = disturbances
  BY <1>2, <1>3
<1>5. outcome' # "none" => pc' = "end"
  BY <1>0 DEF Next, ReadBlock, ReadShort, SignBlock, Signed, MatchBlock, Slide, MatchedAll, Refuse,
              Agree, OpenFiles, Apply, ApplyCopy, ApplyLiteral, CopyFails, Write, Applied, Accept,
              Reject, EditBasis, Finish, vars
<1>6. outcome' \in {"broken", "mismatch"} => disturbances' > 0
  <2>. SUFFICES ASSUME outcome' \in {"broken", "mismatch"}, disturbances' = 0 PROVE FALSE
    BY <1>2
  <2>1. /\ disturbances = 0 /\ disturbances' = disturbances
        /\ BlocksInPlace /\ PlanSpells
        /\ pc = "patch" => basisLen = Len(basis)
        /\ pc = "verify" => out = source
    BY <1>1, <1>4
  <2>2. outcome \notin {"broken", "mismatch"}
    BY <1>0, <2>1
  <2>3. CASE Apply
    <3>1. ~CopyFails
      BY <2>1, <2>3, CopyFits DEF Apply
    <3>. QED BY <2>2, <2>3, <3>1 DEF Apply, ApplyCopy, ApplyLiteral, Write
  <2>4. CASE Reject
    BY <2>1, <2>4 DEF Reject, DigestAgrees
  <2>5. CASE Accept \/ Refuse \/ Signed
    BY <2>2, <2>5 DEF Accept, Refuse, Signed, Finish
  <2>6. CASE ReadBlock \/ MatchBlock \/ Slide \/ MatchedAll
    BY <2>2, <2>6 DEF ReadBlock, SignBlock, MatchBlock, Slide, MatchedAll
  <2>7. CASE Agree \/ OpenFiles \/ Applied \/ UNCHANGED vars
    BY <2>2, <2>7 DEF Agree, OpenFiles, Applied, vars
  <2>. QED BY <2>1, <2>3, <2>4, <2>5, <2>6, <2>7, Undisturbed
<1>7. ASSUME disturbances' = 0
      PROVE  /\ BlocksInPlace' /\ PlanSpells'
             /\ pc' = "patch" => basisLen' = Len(basis')
             /\ pc' = "verify" => out' = source'
  <2>1. /\ disturbances' = disturbances
        /\ BlocksInPlace /\ PlanSpells
        /\ pc = "patch" => basisLen = Len(basis)
        /\ pc = "verify" => out = source
    BY <1>1, <1>4, <1>7
  <2>2. BlocksInPlace' /\ PlanSpells'
    BY <2>1, InPlaceStep, SpellStep
  <2>3. pc' = "patch" => basisLen' = Len(basis')
    <3>1. CASE OpenFiles
      BY <3>1 DEF OpenFiles
    <3>2. CASE Apply
      BY <2>1, <3>2 DEF Apply, ApplyCopy, ApplyLiteral, CopyFails, Write, Finish
    <3>3. CASE UNCHANGED vars
      BY <2>1, <3>3 DEF vars, patchVars
    <3>4. CASE ReadBlock \/ Signed \/ MatchBlock \/ Slide \/ MatchedAll
      BY <3>4 DEF ReadBlock, SignBlock, Signed, Finish, MatchBlock, Slide, MatchedAll
    <3>5. CASE Refuse \/ Agree \/ Applied \/ Accept \/ Reject
      BY <3>5 DEF Refuse, Agree, Applied, Accept, Reject, Finish
    <3>. QED BY <2>1, <3>1, <3>2, <3>3, <3>4, <3>5, Undisturbed
  <2>4. pc' = "verify" => out' = source'
    <3>1. CASE Applied
      <4>1. out = source
        BY <2>1, <3>1, AppliedAll DEF Applied
      <4>. QED BY <3>1, <4>1 DEF Applied, patchVars
    <3>2. CASE OpenFiles \/ Refuse \/ Agree \/ Accept \/ Reject
      BY <3>2 DEF OpenFiles, Refuse, Agree, Accept, Reject, Finish
    <3>3. CASE Apply
      BY <3>3 DEF Apply, ApplyCopy, ApplyLiteral, CopyFails, Write, Finish
    <3>4. CASE ReadBlock \/ Signed \/ MatchBlock \/ Slide \/ MatchedAll
      BY <3>4 DEF ReadBlock, SignBlock, Signed, Finish, MatchBlock, Slide, MatchedAll
    <3>5. CASE UNCHANGED vars
      BY <2>1, <3>5 DEF vars, patchVars
    <3>. QED BY <2>1, <3>1, <3>2, <3>3, <3>4, <3>5, Undisturbed
  <2>. QED BY <2>2, <2>3, <2>4
<1>. QED BY <1>5, <1>6, <1>7 DEF PatchInv, UndisturbedFits

\* The patch keeps its invariant.
THEOREM PatchInvariance == Spec => []PatchInv
BY PatchInvInit, PatchInvStep, TypeCorrect, PTL DEF Spec

\* Without an edit of the basis or a short read, no patch fails.
THEOREM UndisturbedFitsHolds == Spec => []UndisturbedFits
<1>1. PatchInv => UndisturbedFits
  BY DEF PatchInv
<1>. QED BY <1>1, PatchInvariance, PTL

=============================================================================
