------------------------------ MODULE Induction -----------------------------
(***************************************************************************)
(* Induction over the natural numbers, for sets: the library's theorems    *)
(* take the induction hypothesis as an operator, these take it as the set  *)
(* of the numbers it holds for.  Steps one after the other, and recursion  *)
(* over anything with a rank.                                              *)
(***************************************************************************)
EXTENDS Integers, WellFoundedInduction, TLAPS

\* A set of natural numbers that is not empty has a least element.
LEMMA LeastNat ==
    ASSUME NEW T \in SUBSET Nat, T # {}
    PROVE  \E n \in T : \A m \in T : n <= m
<1>1. IsWellFoundedOn(OpToRel(<, Nat), Nat)
  BY NatLessThanWellFounded
<1>2. PICK n \in T : \A m \in T : ~(<<m, n>> \in OpToRel(<, Nat))
  BY <1>1, WFMin
<1>3. \A m \in T : ~(m < n) /\ m \in Nat /\ n \in Nat
  BY <1>2 DEF OpToRel
<1>. QED BY <1>3

\* A set that has 0 and the successors of its numbers has all numbers.
LEMMA SetInduction ==
    ASSUME NEW T, 0 \in T, \A n \in Nat : n \in T => n + 1 \in T
    PROVE  Nat \subseteq T
<1>. DEFINE U == Nat \ T
<1>. SUFFICES ASSUME U # {} PROVE FALSE
  OBVIOUS
<1>1. PICK n \in U : \A m \in U : n <= m
  <2>1. U \in SUBSET Nat
    OBVIOUS
  <2>. HIDE DEF U
  <2>. QED BY <2>1, LeastNat
<1>2. n # 0 /\ n - 1 \in Nat /\ (n - 1) + 1 = n
  OBVIOUS
<1>3. n - 1 \in T
  <2>. SUFFICES ASSUME n - 1 \notin T PROVE FALSE
    OBVIOUS
  <2>1. n <= n - 1
    BY <1>1, <1>2
  <2>. QED BY <1>2, <2>1
<1>. QED BY <1>2, <1>3

\* A sequence of steps, each from what the one before it came to.
Steppable(n, B, b, step) == n \in Nat /\ b \in B /\ step \in [(1 .. n) \X B -> B]

Steps(n, B, b, step, f) ==
    f \in [0 .. n -> B] /\ f[0] = b /\ \A k \in 1 .. n : f[k] = step[<<k, f[k - 1]>>]

\* There is one.
LEMMA StepsExist ==
    ASSUME NEW n, NEW B, NEW b, NEW step, Steppable(n, B, b, step)
    PROVE  \E f : Steps(n, B, b, step, f)
<1>0. n \in Nat /\ b \in B /\ step \in [(1 .. n) \X B -> B]
  BY DEF Steppable
<1>. DEFINE T == {m \in Nat : m <= n =>
                     \E f \in [0 .. m -> B] :
                        f[0] = b /\ \A k \in 1 .. m : f[k] = step[<<k, f[k - 1]>>]}
<1>1. 0 \in T
  <2>. DEFINE f == [k \in 0 .. 0 |-> b]
  <2>1. f \in [0 .. 0 -> B] /\ f[0] = b /\ 1 .. 0 = {}
    BY <1>0
  <2>. HIDE DEF f
  <2>. QED BY <2>1
<1>2. ASSUME NEW m \in Nat, m \in T
      PROVE  m + 1 \in T
  <2>. SUFFICES ASSUME m + 1 <= n
                PROVE  \E f \in [0 .. m + 1 -> B] :
                          f[0] = b /\ \A k \in 1 .. m + 1 : f[k] = step[<<k, f[k - 1]>>]
    OBVIOUS
  <2>1. m <= n /\ m + 1 \in 1 .. n /\ m \in 0 .. m
    BY <1>0
  <2>2. PICK f \in [0 .. m -> B] :
            f[0] = b /\ \A k \in 1 .. m : f[k] = step[<<k, f[k - 1]>>]
    BY <1>2, <2>1
  <2>. DEFINE v == step[<<m + 1, f[m]>>]
              g == [k \in 0 .. m + 1 |-> IF k <= m THEN f[k] ELSE v]
  <2>3. v \in B
    BY <1>0, <2>1, <2>2
  <2>. HIDE DEF v
  <2>4. g \in [0 .. m + 1 -> B]
    BY <2>2, <2>3
  <2>5. \A k \in 0 .. m : g[k] = f[k]
    OBVIOUS
  <2>6. g[m + 1] = v
    OBVIOUS
  <2>. HIDE DEF g
  <2>7. g[0] = b
    BY <2>2, <2>5
  <2>8. ASSUME NEW k \in 1 .. m + 1
        PROVE  g[k] = step[<<k, g[k - 1]>>]
    <3>1. CASE k \in 1 .. m
      <4>1. k \in 0 .. m /\ k - 1 \in 0 .. m
        BY <3>1
      <4>. QED BY <2>2, <2>5, <3>1, <4>1
    <3>2. CASE k = m + 1
      <4>1. k - 1 = m /\ g[m] = f[m]
        BY <2>1, <2>5, <3>2
      <4>. QED BY <2>6, <3>2, <4>1 DEF v
    <3>3. k \in 1 .. m \/ k = m + 1
      OBVIOUS
    <3>. QED BY <3>1, <3>2, <3>3
  <2>. QED BY <2>4, <2>7, <2>8
<1>. HIDE DEF T
<1>3. n \in T /\ n <= n
  BY <1>0, <1>1, <1>2, SetInduction
<1>. QED BY <1>3 DEF T, Steps

\* A recursion that reaches only arguments of lesser rank: step makes of a
\* function the one its values are the arguments of.  The functions in
\* question are those of a set.
RecursionIn(D, B, F, N, rank, step) ==
    /\ N \in Nat
    /\ rank \in [D -> 0 .. N]
    /\ F # {} /\ F \subseteq [D -> B]
    /\ step \in [F -> F]
    /\ \A f, g \in F : \A x \in D :
         (\A y \in D : rank[y] < rank[x] => f[y] = g[y]) => step[f][x] = step[g][x]

\* It defines a function.
LEMMA RecursionExistsIn ==
    ASSUME NEW D, NEW B, NEW F, NEW N, NEW rank, NEW step, RecursionIn(D, B, F, N, rank, step)
    PROVE  \E f \in F : f = step[f]
<1>. USE DEF RecursionIn
<1>. DEFINE T == {k \in Nat : \E f \in F :
                                 \A x \in D : rank[x] < k => f[x] = step[f][x]}
<1>1. 0 \in T
  <2>1. \A x \in D : ~(rank[x] < 0)
    OBVIOUS
  <2>. QED BY <2>1
<1>2. ASSUME NEW k \in Nat, k \in T
      PROVE  k + 1 \in T
  <2>1. PICK f \in F : \A x \in D : rank[x] < k => f[x] = step[f][x]
    BY <1>2
  <2>. DEFINE g == step[f]
  <2>2. g \in F
    OBVIOUS
  <2>3. ASSUME NEW x \in D, rank[x] < k + 1
        PROVE  g[x] = step[g][x]
    <3>1. \A y \in D : rank[y] < rank[x] => f[y] = g[y]
      <4>. SUFFICES ASSUME NEW y \in D, rank[y] < rank[x]
                    PROVE  f[y] = g[y]
        OBVIOUS
      <4>1. rank[y] \in 0 .. N /\ rank[x] \in 0 .. N
        OBVIOUS
      <4>2. rank[y] < k
        BY <2>3, <4>1
      <4>. QED BY <2>1, <4>2
    <3>. HIDE DEF g
    <3>2. step[f][x] = step[g][x]
      BY <2>2, <3>1
    <3>. QED BY <3>2 DEF g
  <2>. HIDE DEF g
  <2>4. \E h \in F : \A x \in D : rank[x] < k + 1 => h[x] = step[h][x]
    BY <2>2, <2>3
  <2>. QED BY <2>4
<1>. HIDE DEF T
<1>3. N + 1 \in T
  BY <1>1, <1>2, SetInduction
<1>4. PICK f \in F : \A x \in D : rank[x] < N + 1 => f[x] = step[f][x]
  BY <1>3 DEF T
<1>5. \A x \in D : f[x] = step[f][x]
  <2>1. \A x \in D : rank[x] < N + 1
    OBVIOUS
  <2>. QED BY <1>4, <2>1
<1>6. step[f] \in F
  OBVIOUS
<1>. QED BY <1>5, <1>6

\* The same for all functions of a kind.
Recursion(D, B, N, rank, step) ==
    /\ N \in Nat
    /\ rank \in [D -> 0 .. N]
    /\ [D -> B] # {}
    /\ step \in [[D -> B] -> [D -> B]]
    /\ \A f, g \in [D -> B] : \A x \in D :
         (\A y \in D : rank[y] < rank[x] => f[y] = g[y]) => step[f][x] = step[g][x]

\* It defines a function, too.
LEMMA RecursionExists ==
    ASSUME NEW D, NEW B, NEW N, NEW rank, NEW step, Recursion(D, B, N, rank, step)
    PROVE  \E f \in [D -> B] : f = step[f]
<1>. DEFINE F == [D -> B]
<1>1. RecursionIn(D, B, F, N, rank, step)
  <2>1. F \subseteq [D -> B]
    OBVIOUS
  <2>. QED BY <2>1, Zenon DEF Recursion, RecursionIn
<1>. HIDE DEF F
<1>2. \E f \in F : f = step[f]
  BY <1>1, RecursionExistsIn
<1>. QED BY <1>2 DEF F

=============================================================================
