------------------------ MODULE ConnectionPool_proofs -----------------------
(***************************************************************************)
(* Proofs about the connection pool, for every number of workers and every *)
(* size of the pool: connections are accounted for, no wake-up is lost,    *)
(* and a pool as large as the number of workers keeps nobody waiting.      *)
(***************************************************************************)
EXTENDS ConnectionPool, FiniteSetTheorems, SequenceTheorems, TLAPS

USE PoolAssumption

Places == {"out", "want", "asleep", "woken"} \cup Holding \cup Connecting

\* Where a worker is that may still make an attempt of read_range.
Trying == {"want", "woken", "asleep", "connect", "undo", "use"}

TriesBounded == \A t \in Threads : pc[t] \in Trying => tries[t] < 2

Busy == Holding \cup Connecting

\* What all steps preserve together.  The types need the bound on the
\* attempts; giving a place back needs the account, which says there is one.
IInv == TypeOK /\ TriesBounded /\ Accounted /\ NoLostWakeup /\ NobodyWaits

-----------------------------------------------------------------------------
(* Counting the workers at some points, when one of them moves.            *)

Occupied(f, P) == {t \in Threads : f[t] \in P}

Count(f, P) == Cardinality(Occupied(f, P))

Weight(p, P) == IF p \in P THEN 1 ELSE 0

\* Any number of workers is finite, and none of them stands outside Threads.
LEMMA CountType ==
    ASSUME NEW f, NEW P
    PROVE  /\ IsFiniteSet(Occupied(f, P))
           /\ Count(f, P) \in Nat
           /\ Count(f, P) <= Cardinality(Threads)
           /\ Cardinality(Threads) \in Nat
           /\ Count(f, P) = 0 <=> Occupied(f, P) = {}
BY FS_Subset, FS_CardinalityType, FS_EmptySet DEF Occupied, Count

\* One worker's move changes a count by what it leaves and what it enters.
LEMMA Moved ==
    ASSUME NEW P, NEW f \in [Threads -> Places], NEW t \in Threads, NEW p \in Places
    PROVE  Count([f EXCEPT ![t] = p], P) = Count(f, P) + Weight(p, P) - Weight(f[t], P)
<1> DEFINE g == [f EXCEPT ![t] = p]
<1>1. IsFiniteSet(Occupied(f, P)) /\ Count(f, P) \in Nat
  BY CountType
<1>2. CASE p \in P /\ f[t] \in P
  <2>1. Occupied(g, P) = Occupied(f, P)
    BY <1>2 DEF Occupied
  <2> QED BY <1>1, <1>2, <2>1 DEF Count, Weight
<1>3. CASE p \notin P /\ f[t] \notin P
  <2>1. Occupied(g, P) = Occupied(f, P)
    BY <1>3 DEF Occupied
  <2> QED BY <1>1, <1>3, <2>1 DEF Count, Weight
<1>4. CASE p \in P /\ f[t] \notin P
  <2>1. Occupied(g, P) = Occupied(f, P) \cup {t} /\ t \notin Occupied(f, P)
    BY <1>4 DEF Occupied
  <2>2. Cardinality(Occupied(g, P)) = Cardinality(Occupied(f, P)) + 1
    BY <1>1, <2>1, FS_AddElement
  <2> QED BY <1>1, <1>4, <2>2 DEF Count, Weight
<1>5. CASE p \notin P /\ f[t] \in P
  <2>1. Occupied(g, P) = Occupied(f, P) \ {t} /\ t \in Occupied(f, P)
    BY <1>5 DEF Occupied
  <2>2. Cardinality(Occupied(g, P)) = Cardinality(Occupied(f, P)) - 1
    BY <1>1, <2>1, FS_RemoveElement, ZenonT(30)
  <2> QED BY <1>1, <1>5, <2>2 DEF Count, Weight
<1> QED BY <1>2, <1>3, <1>4, <1>5

\* The counts the properties speak of, in these terms.
LEMMA Counts ==
    /\ Accounted <=> created = Len(idle) + Count(pc, Busy)
    /\ Accounted' <=> created' = Len(idle') + Count(pc', Busy)
    /\ NoLostWakeup <=>
         (Occupied(pc, {"asleep"}) # {} =>
            Len(idle) + (MaxSize - created) <= Count(pc, {"woken"}))
    /\ NoLostWakeup' <=>
         (Occupied(pc', {"asleep"}) # {} =>
            Len(idle') + (MaxSize - created') <= Count(pc', {"woken"}))
    /\ NobodyWaits <=>
         (Cardinality(Threads) <= MaxSize => Occupied(pc, {"asleep"}) = {})
    /\ NobodyWaits' <=>
         (Cardinality(Threads) <= MaxSize => Occupied(pc', {"asleep"}) = {})
BY DEF Accounted, NoLostWakeup, NobodyWaits, At, Occupied, Count, Busy

\* notify_one: the caller moves, and a sleeping worker, if there is one,
\* joins those that have been woken.
LEMMA Notified ==
    ASSUME pc \in [Threads -> Places], NEW t \in Threads, NEW p \in Places,
           pc[t] \notin {"asleep", "woken"}, p \notin {"asleep", "woken"},
           NotifyAndGo(t, p)
    PROVE  /\ pc' \in [Threads -> Places]
           /\ pc'[t] = p
           /\ \A s \in Threads \ {t} :
                pc'[s] = pc[s] \/ (pc[s] = "asleep" /\ pc'[s] = "woken")
           /\ Count(pc', Busy) =
                Count(pc, Busy) + Weight(p, Busy) - Weight(pc[t], Busy)
           /\ Occupied(pc', {"asleep"}) \subseteq Occupied(pc, {"asleep"})
           /\ Occupied(pc', {"asleep"}) # {} =>
                Count(pc', {"woken"}) = Count(pc, {"woken"}) + 1
<1>1. CASE At({"asleep"}) = {} /\ pc' = [pc EXCEPT ![t] = p]
  <2>1. Count(pc', Busy) = Count(pc, Busy) + Weight(p, Busy) - Weight(pc[t], Busy)
    BY <1>1, Moved
  <2>2. Occupied(pc, {"asleep"}) = {} /\ Occupied(pc', {"asleep"}) = {}
    BY <1>1 DEF Occupied, At
  <2> QED BY <1>1, <2>1, <2>2
<1>2. CASE \E s \in At({"asleep"}) : pc' = [pc EXCEPT ![t] = p, ![s] = "woken"]
  <2>1. PICK s \in At({"asleep"}) : pc' = [pc EXCEPT ![t] = p, ![s] = "woken"]
    BY <1>2
  <2> DEFINE mid == [pc EXCEPT ![t] = p]
  <2>2. /\ s \in Threads /\ s # t /\ pc[s] = "asleep" /\ mid[s] = "asleep"
        /\ mid \in [Threads -> Places]
    BY <2>1 DEF At
  <2>3. pc' = [mid EXCEPT ![s] = "woken"] /\ "woken" \in Places
    BY <2>1, <2>2 DEF Places
  <2>4. pc' \in [Threads -> Places]
    BY <2>2, <2>3 DEF Places
  <2> HIDE DEF mid
  <2>5. /\ Count(pc', Busy) =
             Count(mid, Busy) + Weight("woken", Busy) - Weight(mid[s], Busy)
        /\ Count(pc', {"woken"}) =
             Count(mid, {"woken"}) + Weight("woken", {"woken"})
               - Weight(mid[s], {"woken"})
    BY <2>2, <2>3, Moved
  <2>6. /\ Count(mid, Busy) = Count(pc, Busy) + Weight(p, Busy) - Weight(pc[t], Busy)
        /\ Count(mid, {"woken"}) =
             Count(pc, {"woken"}) + Weight(p, {"woken"}) - Weight(pc[t], {"woken"})
    BY Moved DEF mid
  <2>7. Count(pc, Busy) \in Nat /\ Count(pc, {"woken"}) \in Nat
    BY CountType
  <2>8. /\ Count(pc', Busy) = Count(pc, Busy) + Weight(p, Busy) - Weight(pc[t], Busy)
        /\ Count(pc', {"woken"}) = Count(pc, {"woken"}) + 1
    BY <2>2, <2>5, <2>6, <2>7 DEF Weight, Busy, Holding, Connecting
  <2>9. Occupied(pc', {"asleep"}) \subseteq Occupied(pc, {"asleep"})
    BY <2>1, <2>2 DEF Occupied
  <2> QED BY <2>1, <2>2, <2>4, <2>8, <2>9
<1> QED BY <1>1, <1>2 DEF NotifyAndGo

-----------------------------------------------------------------------------
(* A worker's step that leaves the sleepers alone.                         *)

\* The counts after a worker's own move, for the moves that notify nobody.
LEMMA Steps ==
    ASSUME pc \in [Threads -> Places], NEW t \in Threads, NEW p \in Places,
           pc' = [pc EXCEPT ![t] = p]
    PROVE  /\ pc' \in [Threads -> Places]
           /\ Count(pc', Busy) =
                Count(pc, Busy) + Weight(p, Busy) - Weight(pc[t], Busy)
           /\ Count(pc', {"woken"}) =
                Count(pc, {"woken"}) + Weight(p, {"woken"}) - Weight(pc[t], {"woken"})
           /\ p # "asleep" =>
                Occupied(pc', {"asleep"}) \subseteq Occupied(pc, {"asleep"})
           /\ Count(pc, Busy) \in Nat
           /\ Count(pc, {"woken"}) \in Nat
<1>1. pc' \in [Threads -> Places]
  OBVIOUS
<1>2. p # "asleep" => Occupied(pc', {"asleep"}) \subseteq Occupied(pc, {"asleep"})
  BY DEF Occupied
<1> QED BY <1>1, <1>2, Moved, CountType

\* Taking the last element of a stack.
LEMMA SeqPop ==
    ASSUME NEW s \in Seq(BOOLEAN), s # <<>>
    PROVE  /\ s[Len(s)] \in BOOLEAN
           /\ SubSeq(s, 1, Len(s) - 1) \in Seq(BOOLEAN)
           /\ Len(SubSeq(s, 1, Len(s) - 1)) = Len(s) - 1
           /\ Len(s) \in Nat \ {0}
<1>1. Len(s) \in Nat \ {0}
  OBVIOUS
<1>2. \A i \in 1 .. Len(s) : s[i] \in BOOLEAN
  OBVIOUS
<1>3. s[Len(s)] \in BOOLEAN
  BY <1>1, <1>2
<1>4. SubSeq(s, 1, Len(s) - 1) \in Seq(BOOLEAN)
  BY <1>1
<1>5. Len(SubSeq(s, 1, Len(s) - 1)) = Len(s) - 1
  <2> DEFINE n == Len(s) - 1
  <2>1. n \in Nat /\ 1 \in Int /\ \A i \in 1 .. n : s[i] \in BOOLEAN
    BY <1>1, <1>2
  <2> HIDE DEF n
  <2>2. Len(SubSeq(s, 1, n)) = IF 1 <= n THEN n - 1 + 1 ELSE 0
    BY <2>1, SubSeqProperties
  <2>3. Len(SubSeq(s, 1, n)) = n
    BY <2>1, <2>2
  <2> QED BY <2>3 DEF n
<1> QED BY <1>1, <1>3, <1>4, <1>5

\* The account stays in balance when a workers become busy and b cease to be,
\* and the connections follow them.
LEMMA Balanced ==
    ASSUME IInv, NEW a \in {0, 1}, NEW b \in {0, 1},
           Count(pc', Busy) = Count(pc, Busy) + a - b,
           created' \in Nat, Len(idle') \in Nat,
           created' - Len(idle') = created - Len(idle) + a - b
    PROVE  Accounted'
<1>0. created \in Nat /\ Len(idle) \in Nat
  BY DEF IInv, TypeOK
<1>1. Count(pc, Busy) \in Nat /\ Count(pc', Busy) \in Nat
  BY CountType
<1>2. created = Len(idle) + Count(pc, Busy)
  BY Counts DEF IInv
<1>3. created' = Len(idle') + Count(pc', Busy)
  BY <1>0, <1>1, <1>2
<1> QED BY <1>3, Counts

\* Nobody oversleeps when w workers are woken, v look for a connection, and no
\* more than w connections or places appear, or v of them are taken.
LEMMA Roused ==
    ASSUME IInv, NEW w \in {0, 1}, NEW v \in {0, 1},
           Occupied(pc', {"asleep"}) \subseteq Occupied(pc, {"asleep"}),
           Count(pc', {"woken"}) = Count(pc, {"woken"}) + w - v,
           created' \in Nat, Len(idle') \in Nat,
           Len(idle') - created' <= Len(idle) - created + w - v
    PROVE  NoLostWakeup' /\ NobodyWaits'
<1>0. created \in Nat /\ Len(idle) \in Nat /\ MaxSize \in Nat
  BY DEF IInv, TypeOK
<1>1. Count(pc, {"woken"}) \in Nat /\ Count(pc', {"woken"}) \in Nat
  BY CountType
<1>2. ASSUME Occupied(pc', {"asleep"}) # {}
      PROVE  Len(idle') + (MaxSize - created') <= Count(pc', {"woken"})
  <2>1. Occupied(pc, {"asleep"}) # {}
    BY <1>2
  <2>2. Len(idle) + (MaxSize - created) <= Count(pc, {"woken"})
    BY <2>1, Counts DEF IInv
  <2> QED BY <1>0, <1>1, <2>2
<1>3. NobodyWaits'
  BY Counts DEF IInv
<1> QED BY <1>2, <1>3, Counts

\* The initial states satisfy the invariant: one idle connection, nobody busy.
LEMMA InitIInv == Init => IInv
<1> SUFFICES ASSUME Init PROVE IInv
  OBVIOUS
<1>1. TypeOK /\ TriesBounded
  BY DEF Init, TypeOK, TriesBounded, Trying
<1>2. Occupied(pc, Busy) = {} /\ Occupied(pc, {"asleep"}) = {}
  BY DEF Init, Occupied, Busy, Holding, Connecting
<1>3. Count(pc, Busy) = 0
  BY <1>2, CountType
<1> QED BY <1>1, <1>2, <1>3, Counts DEF IInv, Init

\* The start of a call and the way to a connection or to sleep (checkout).
LEMMA CheckoutSteps ==
    ASSUME IInv, NEW t \in Threads,
           \/ Start(t) \/ TakeIdle(t) \/ Grow(t) \/ Wait(t) \/ SpuriousWakeup(t)
    PROVE  IInv'
<1> USE DEF IInv
<1>0. pc \in [Threads -> Places]
  BY DEF TypeOK, Places
<1>1. CASE Start(t)
  <2>1. TypeOK'
    BY <1>1 DEF Start, TypeOK
  <2>2. TriesBounded'
    BY <1>1 DEF Start, TypeOK, TriesBounded
  <2>3. /\ Count(pc', Busy) = Count(pc, Busy) + 0 - 0
        /\ Count(pc', {"woken"}) = Count(pc, {"woken"}) + 0 - 0
        /\ Occupied(pc', {"asleep"}) \subseteq Occupied(pc, {"asleep"})
    BY <1>0, <1>1, Steps DEF Start, Places, Weight, Busy, Holding, Connecting
  <2>4. /\ created' \in Nat /\ Len(idle') \in Nat
        /\ created' - Len(idle') = created - Len(idle) + 0 - 0
        /\ Len(idle') - created' <= Len(idle) - created + 0 - 0
    BY <1>1 DEF Start, TypeOK
  <2>5. Accounted'
    BY <2>3, <2>4, Balanced
  <2>6. NoLostWakeup' /\ NobodyWaits'
    BY <2>3, <2>4, Roused
  <2> QED BY <2>1, <2>2, <2>5, <2>6
<1>2. CASE TakeIdle(t)
  <2>0. /\ idle[Len(idle)] \in BOOLEAN
        /\ idle' \in Seq(BOOLEAN) /\ Len(idle') = Len(idle) - 1
        /\ Len(idle) \in Nat \ {0}
    BY <1>2, SeqPop DEF TakeIdle, TypeOK
  <2>1. TypeOK'
    BY <1>2, <2>0 DEF TakeIdle, TypeOK, Holding, worker
  <2>2. TriesBounded'
    BY <1>2 DEF TakeIdle, AtTheLoop, TypeOK, TriesBounded, Trying, worker
  <2> DEFINE v == Weight(pc[t], {"woken"})
  <2>3. /\ v \in {0, 1}
        /\ Count(pc', Busy) = Count(pc, Busy) + 1 - 0
        /\ Count(pc', {"woken"}) = Count(pc, {"woken"}) + 0 - v
        /\ Occupied(pc', {"asleep"}) \subseteq Occupied(pc, {"asleep"})
    BY <1>0, <1>2, Steps
       DEF TakeIdle, AtTheLoop, Places, Weight, Busy, Holding, Connecting
  <2> HIDE DEF v
  <2>4. /\ created' \in Nat /\ Len(idle') \in Nat
        /\ created' - Len(idle') = created - Len(idle) + 1 - 0
        /\ Len(idle') - created' <= Len(idle) - created + 0 - v
    <3>1. created \in Nat /\ created' = created
      BY <1>2 DEF TakeIdle, TypeOK
    <3> QED BY <2>0, <2>3, <3>1
  <2>5. Accounted'
    BY <2>3, <2>4, Balanced
  <2>6. NoLostWakeup' /\ NobodyWaits'
    BY <2>3, <2>4, Roused
  <2> QED BY <2>1, <2>2, <2>5, <2>6
<1>3. CASE Grow(t)
  <2>1. TypeOK'
    BY <1>3 DEF Grow, TypeOK, Connecting, worker
  <2>2. TriesBounded'
    BY <1>3 DEF Grow, AtTheLoop, TypeOK, TriesBounded, Trying, worker
  <2> DEFINE v == Weight(pc[t], {"woken"})
  <2>3. /\ v \in {0, 1}
        /\ Count(pc', Busy) = Count(pc, Busy) + 1 - 0
        /\ Count(pc', {"woken"}) = Count(pc, {"woken"}) + 0 - v
        /\ Occupied(pc', {"asleep"}) \subseteq Occupied(pc, {"asleep"})
    BY <1>0, <1>3, Steps
       DEF Grow, AtTheLoop, Places, Weight, Busy, Holding, Connecting
  <2> HIDE DEF v
  <2>4. /\ created' \in Nat /\ Len(idle') \in Nat
        /\ created' - Len(idle') = created - Len(idle) + 1 - 0
        /\ Len(idle') - created' <= Len(idle) - created + 0 - v
    <3>1. created \in Nat /\ Len(idle) \in Nat
      BY DEF TypeOK
    <3>2. created' = created + 1 /\ idle' = idle
      BY <1>3 DEF Grow
    <3> QED BY <2>3, <3>1, <3>2
  <2>5. Accounted'
    BY <2>3, <2>4, Balanced
  <2>6. NoLostWakeup' /\ NobodyWaits'
    BY <2>3, <2>4, Roused
  <2> QED BY <2>1, <2>2, <2>5, <2>6
<1>4. CASE Wait(t)
  <2>1. TypeOK'
    BY <1>4 DEF Wait, TypeOK, worker
  <2>2. TriesBounded'
    BY <1>4 DEF Wait, AtTheLoop, TypeOK, TriesBounded, Trying, worker
  <2>3. /\ Count(pc', Busy) = Count(pc, Busy) + 0 - 0
        /\ Count(pc', {"woken"}) =
             Count(pc, {"woken"}) + 0 - Weight(pc[t], {"woken"})
    BY <1>0, <1>4, Steps
       DEF Wait, AtTheLoop, Places, Weight, Busy, Holding, Connecting
  <2>4. Accounted'
    BY <1>4, <2>3, Balanced DEF Wait, TypeOK
  <2>5. NoLostWakeup'
    <3>1. Len(idle') + (MaxSize - created') <= 0
      BY <1>4 DEF Wait, TypeOK
    <3>2. Count(pc', {"woken"}) \in Nat
      BY CountType
    <3>3. Len(idle') + (MaxSize - created') <= Count(pc', {"woken"})
      <4>1. Len(idle') + (MaxSize - created') \in Int
        BY <1>4 DEF Wait, TypeOK
      <4> HIDE DEF TypeOK
      <4> QED BY <3>1, <3>2, <4>1
    <3> QED BY <3>3, Counts
  <2>6. NobodyWaits'
    <3>1. t \in Threads /\ t \notin Occupied(pc, Busy)
      BY <1>4 DEF Wait, AtTheLoop, Occupied, Busy, Holding, Connecting
    <3>2. Count(pc, Busy) < Cardinality(Threads)
      <4>1. Occupied(pc, Busy) \subseteq Threads \ {t}
        BY <3>1 DEF Occupied
      <4>2. /\ IsFiniteSet(Threads \ {t})
            /\ Cardinality(Threads \ {t}) = Cardinality(Threads) - 1
            /\ Cardinality(Threads) \in Nat
        BY FS_RemoveElement, FS_CardinalityType
      <4>3. Cardinality(Occupied(pc, Busy)) <= Cardinality(Threads \ {t})
        BY <4>1, <4>2, FS_Subset
      <4> QED BY <4>2, <4>3, CountType DEF Count
    <3>3. Count(pc, Busy) \in Nat /\ Cardinality(Threads) \in Nat
      BY CountType
    <3>4. created = Count(pc, Busy) /\ created >= MaxSize
      BY <1>4, <3>3, Counts DEF Wait
    <3> QED BY <3>2, <3>3, <3>4, Counts
  <2> QED BY <2>1, <2>2, <2>4, <2>5, <2>6
<1>5. CASE SpuriousWakeup(t)
  <2>1. TypeOK'
    BY <1>5 DEF SpuriousWakeup, TypeOK, worker
  <2>2. TriesBounded'
    BY <1>5 DEF SpuriousWakeup, TypeOK, TriesBounded, Trying, worker
  <2>3. /\ Count(pc', Busy) = Count(pc, Busy) + 0 - 0
        /\ Count(pc', {"woken"}) = Count(pc, {"woken"}) + 1 - 0
        /\ Occupied(pc', {"asleep"}) \subseteq Occupied(pc, {"asleep"})
    BY <1>0, <1>5, Steps
       DEF SpuriousWakeup, Places, Weight, Busy, Holding, Connecting
  <2>4. /\ created' \in Nat /\ Len(idle') \in Nat
        /\ created' - Len(idle') = created - Len(idle) + 0 - 0
        /\ Len(idle') - created' <= Len(idle) - created + 1 - 0
    BY <1>5 DEF SpuriousWakeup, TypeOK
  <2>5. Accounted'
    BY <2>3, <2>4, Balanced
  <2>6. NoLostWakeup' /\ NobodyWaits'
    BY <2>3, <2>4, Roused
  <2> QED BY <2>1, <2>2, <2>5, <2>6
<1> QED BY <1>1, <1>2, <1>3, <1>4, <1>5

\* Connecting, using a connection, replacing it: the worker stays busy.
LEMMA BusySteps ==
    ASSUME IInv, NEW t \in Threads,
           \/ Connected(t) \/ ConnectFailed(t)
           \/ Succeed(t) \/ Fail(t) \/ Replace(t)
    PROVE  IInv'
<1> USE DEF IInv
<1>0. pc \in [Threads -> Places]
  BY DEF TypeOK, Places
<1>1. PICK p \in Busy : pc' = [pc EXCEPT ![t] = p]
  BY DEF Connected, ConnectFailed, Succeed, Fail, Replace, Busy, Holding, Connecting
<1>2. pc[t] \in Busy /\ UNCHANGED <<idle, created>>
  BY DEF Connected, ConnectFailed, Succeed, Fail, Replace, Busy, Holding, Connecting
<1>3. p \in Places /\ p # "asleep" /\ p \notin {"woken"} /\ pc[t] \notin {"woken"}
  BY <1>1, <1>2 DEF Places, Busy, Holding, Connecting
<1>4. /\ Count(pc', Busy) = Count(pc, Busy) + 1 - 1
      /\ Count(pc', {"woken"}) = Count(pc, {"woken"}) + 0 - 0
      /\ Occupied(pc', {"asleep"}) \subseteq Occupied(pc, {"asleep"})
  BY <1>0, <1>1, <1>2, <1>3, Steps DEF Weight
<1>5. (Accounted /\ NoLostWakeup /\ NobodyWaits)'
  BY <1>2, <1>4, Balanced, Roused DEF TypeOK
<1>6. TypeOK'
  <2>1. CASE Fail(t)
    <3>1. tries[t] + 1 \in 0 .. 2
      <4>1. tries[t] \in 0 .. 2 /\ tries[t] < 2
        BY <2>1 DEF Fail, TypeOK, TriesBounded, Trying
      <4> QED BY <4>1
    <3> QED BY <2>1, <3>1 DEF Fail, TypeOK, Holding
  <2>2. CASE ~Fail(t)
    BY <2>2, ZenonT(30) DEF Connected, ConnectFailed, Succeed, Replace, TypeOK, Holding,
                Connecting, worker
  <2> QED BY <2>1, <2>2
<1>7. TriesBounded'
  BY DEF Connected, ConnectFailed, Succeed, Fail, Replace, TypeOK, TriesBounded,
         Trying, worker
<1> QED BY <1>5, <1>6, <1>7

\* Giving up a place and giving back a connection: both notify.
LEMMA NotifyingSteps ==
    ASSUME IInv, NEW t \in Threads, GiveUp(t) \/ Checkin(t)
    PROVE  IInv'
<1> USE DEF IInv
<1>0. pc \in [Threads -> Places] /\ idle \in Seq(BOOLEAN) /\ created \in 0 .. MaxSize
  BY DEF TypeOK, Places
<1>1. Count(pc, Busy) \in Nat /\ Count(pc, {"woken"}) \in Nat
  BY CountType
<1>2. CASE GiveUp(t)
  <2>1. pc[t] = "undo" /\ NotifyAndGo(t, "out") /\ UNCHANGED idle
    BY <1>2 DEF GiveUp
  <2>2. "out" \in Places /\ Weight("out", Busy) = 0 /\ Weight(pc[t], Busy) = 1
    BY <2>1 DEF Places, Weight, Busy, Holding, Connecting
  <2>3. /\ pc' \in [Threads -> Places]
        /\ pc'[t] = "out"
        /\ \A s \in Threads \ {t} :
              pc'[s] = pc[s] \/ (pc[s] = "asleep" /\ pc'[s] = "woken")
        /\ Count(pc', Busy) = Count(pc, Busy) - 1
        /\ Occupied(pc', {"asleep"}) \subseteq Occupied(pc, {"asleep"})
        /\ Occupied(pc', {"asleep"}) # {} =>
             Count(pc', {"woken"}) = Count(pc, {"woken"}) + 1
    BY <1>0, <1>1, <2>1, <2>2, Notified
  <2>4. Count(pc, Busy) > 0
    <3>1. t \in Occupied(pc, Busy)
      BY <2>1 DEF Occupied, Busy, Connecting
    <3> QED BY <1>1, <3>1, CountType
  <2>5. created > 0 /\ created' = created - 1
    BY <1>0, <1>1, <1>2, <2>4, Counts DEF GiveUp
  <2>6. (Accounted /\ NoLostWakeup /\ NobodyWaits)'
    <3>1. Accounted'
      BY <1>0, <1>1, <2>1, <2>3, <2>5, Counts
    <3>2. NoLostWakeup'
      <4>1. CASE Occupied(pc', {"asleep"}) = {}
        BY <4>1, Counts
      <4>2. CASE Occupied(pc', {"asleep"}) # {}
        <5>1. Len(idle) + (MaxSize - created) <= Count(pc, {"woken"})
          BY <2>3, <4>2, Counts
        <5>2. Len(idle') + (MaxSize - created') <= Count(pc', {"woken"})
          BY <1>0, <1>1, <2>1, <2>3, <2>5, <4>2, <5>1
        <5> QED
          BY <5>2, Counts
      <4> QED
        BY <4>1, <4>2
    <3>3. NobodyWaits'
      BY <2>3, Counts
    <3> QED
      BY <3>1, <3>2, <3>3
  <2>7. TypeOK'
    <3>1. created' \in 0 .. MaxSize
      BY <1>0, <2>5
    <3> QED BY <1>2, <2>3, <3>1 DEF GiveUp, TypeOK, Places
  <2>8. TriesBounded'
    BY <1>2, <2>3 DEF GiveUp, TypeOK, TriesBounded, Trying
  <2> QED BY <2>6, <2>7, <2>8
<1>3. CASE Checkin(t)
  <2> DEFINE next == IF Retries(t) THEN "want" ELSE "out"
  <2>1. pc[t] = "return" /\ NotifyAndGo(t, next) /\ UNCHANGED created
    BY <1>3 DEF Checkin
  <2>2. /\ next \in Places /\ next \notin {"asleep", "woken"}
        /\ Weight(next, Busy) = 0 /\ Weight(pc[t], Busy) = 1
    BY <2>1 DEF Places, Weight, Busy, Holding, Connecting
  <2>3. next \in Trying => tries[t] < 2
    BY DEF Retries, Trying
  <2> HIDE DEF next
  <2>4. /\ pc' \in [Threads -> Places]
        /\ pc'[t] = next
        /\ \A s \in Threads \ {t} :
              pc'[s] = pc[s] \/ (pc[s] = "asleep" /\ pc'[s] = "woken")
        /\ Count(pc', Busy) = Count(pc, Busy) - 1
        /\ Occupied(pc', {"asleep"}) \subseteq Occupied(pc, {"asleep"})
        /\ Occupied(pc', {"asleep"}) # {} =>
             Count(pc', {"woken"}) = Count(pc, {"woken"}) + 1
    BY <1>0, <1>1, <2>1, <2>2, Notified
  <2>5. idle' \in Seq(BOOLEAN) /\ Len(idle') = Len(idle) + 1
    BY <1>0, <1>3 DEF Checkin, TypeOK
  <2>6. (Accounted /\ NoLostWakeup /\ NobodyWaits)'
    BY <1>0, <1>1, <2>1, <2>4, <2>5, Counts
  <2>7. TypeOK'
    BY <1>0, <1>3, <2>4, <2>5 DEF Checkin, TypeOK, Places, worker
  <2>8. TriesBounded'
    BY <1>3, <2>3, <2>4 DEF Checkin, TypeOK, TriesBounded, Trying, worker
  <2> QED BY <2>6, <2>7, <2>8
<1> QED BY <1>2, <1>3

\* The network and the server: no count changes.
LEMMA FaultSteps ==
    ASSUME IInv, Break \/ ServerDown \/ ServerUp \/ UNCHANGED vars
    PROVE  IInv'
<1> USE DEF IInv
<1>1. pc' = pc /\ created' = created /\ tries' = tries
  BY DEF Break, ServerDown, ServerUp, vars, worker
<1>2. idle' \in Seq(BOOLEAN) /\ Len(idle') = Len(idle)
  <2>1. idle \in Seq(BOOLEAN)
    BY DEF TypeOK
  <2>2. CASE UNCHANGED idle
    BY <2>1, <2>2
  <2>3. CASE \E i \in DOMAIN idle : idle' = [idle EXCEPT ![i] = FALSE]
    BY <2>1, <2>3
  <2>4. CASE idle' = [i \in DOMAIN idle |-> FALSE]
    <3>1. Len(idle) \in Nat /\ idle' \in [1 .. Len(idle) -> BOOLEAN]
      BY <2>1, <2>4
    <3> QED BY <3>1
  <2> QED BY <2>2, <2>3, <2>4 DEF Break, ServerDown, ServerUp, vars
<1>3. faults < MaxFaults => faults + 1 \in 0 .. MaxFaults
  BY DEF TypeOK
<1>4. TypeOK'
  <2>1. CASE Break
    <3>1. conn' \in [Threads -> BOOLEAN]
      BY <2>1 DEF Break, TypeOK, At
    <3>2. faults' \in 0 .. MaxFaults
      BY <1>3, <2>1 DEF Break
    <3> QED BY <1>1, <1>2, <2>1, <3>1, <3>2 DEF Break, worker, TypeOK
  <2>2. CASE ServerDown
    <3>1. faults' \in 0 .. MaxFaults
      BY <1>3, <2>2 DEF ServerDown
    <3>2. conn' \in [Threads -> BOOLEAN]
      BY <2>2 DEF ServerDown, TypeOK
    <3> QED BY <1>2, <2>2, <3>1, <3>2 DEF ServerDown, worker, TypeOK
  <2>3. CASE ServerUp
    BY <1>2, <2>3 DEF ServerUp, worker, TypeOK
  <2>4. CASE UNCHANGED vars
    BY <1>2, <2>4 DEF vars, worker, TypeOK
  <2> QED BY <2>1, <2>2, <2>3, <2>4
<1>5. TriesBounded'
  BY <1>1 DEF TriesBounded
<1>6. (Accounted /\ NoLostWakeup /\ NobodyWaits)'
  BY <1>1, <1>2, Counts
<1> QED BY <1>4, <1>5, <1>6

-----------------------------------------------------------------------------
\* The invariant holds in every state: Init establishes it and each action
\* of the workers, the network and the server preserves it.
THEOREM Invariance == Spec => []IInv
<1>1. Init => IInv
  BY InitIInv
<1>2. IInv /\ [Next]_vars => IInv'
  BY CheckoutSteps, BusySteps, NotifyingSteps, FaultSteps DEF Next, Step
<1> QED BY <1>1, <1>2, PTL DEF Spec

\* The types of the variables hold in every state.
THEOREM Typing == Spec => []TypeOK
<1>1. IInv => TypeOK
  BY DEF IInv
<1> QED BY <1>1, Invariance, PTL

\* created is the number of connections there are or are being made, so the
\* pool never holds more than max_size of them and never forgets one.
THEOREM AccountedHolds == Spec => []Accounted
<1>1. IInv => Accounted
  BY DEF IInv
<1> QED BY <1>1, Invariance, PTL

\* A worker sleeps only while a woken worker is on its way for each idle
\* connection and free place.
THEOREM NoLostWakeupHolds == Spec => []NoLostWakeup
<1>1. IInv => NoLostWakeup
  BY DEF IInv
<1> QED BY <1>1, Invariance, PTL

\* With a place for each worker nobody ever waits for a connection.
THEOREM NobodyWaitsHolds == Spec => []NobodyWaits
<1>1. IInv => NobodyWaits
  BY DEF IInv
<1> QED BY <1>1, Invariance, PTL

=============================================================================
