--------------------------- MODULE Startup_proofs ---------------------------
(***************************************************************************)
(* Proofs about Startup, for all arguments, configurations and trees: the  *)
(* types of what is resolved, what the command line decides, what a source *)
(* argument is read as, what is listed of a source while others change it, *)
(* what glob_match matches, and which keys an ssh configuration offers,    *)
(* however its files include one another.                                  *)
(***************************************************************************)
EXTENDS Startup, FiniteSetTheorems, SequenceTheorems, Induction, TLAPS

-----------------------------------------------------------------------------
(* Paths.                                                                  *)

\* A path that is not the root has a name.
LEMMA OneOrMore ==
    ASSUME NEW p \in Seq(Names), p # <<>>
    PROVE  Len(p) = 1 \/ Len(p) > 1
<1>. DEFINE n == Len(p)
<1>1. n \in Nat /\ n > 0
  OBVIOUS
<1>. HIDE DEF n
<1>2. n = 1 \/ n > 1
  BY <1>1
<1>. QED BY <1>2 DEF n

\* What is above a name.
LEMMA FrontFits ==
    ASSUME NEW p \in Seq(Names), p # <<>>
    PROVE  /\ Front(p) \in Seq(Names) /\ Len(Front(p)) = Len(p) - 1
           /\ \A k \in 1 .. Len(p) - 1 : Front(p)[k] = p[k]
<1>1. Len(p) \in Nat /\ Len(p) > 0 /\ (\A k \in 1 .. Len(p) - 1 : p[k] \in Names)
  OBVIOUS
<1>2. CASE Len(p) = 1
  <2>1. Front(p) = <<>>
    BY <1>2, SubSeqEmpty DEF Front
  <2>. QED BY <1>2, <2>1
<1>3. CASE Len(p) > 1
  <2>1. /\ SubSeq(p, 1, Len(p) - 1) \in Seq(Names)
        /\ Len(SubSeq(p, 1, Len(p) - 1)) = Len(p) - 1
        /\ \A k \in 1 .. Len(p) - 1 : SubSeq(p, 1, Len(p) - 1)[k] = p[k]
    BY <1>1, <1>3, SubSeqProperties
  <2>. QED BY <2>1 DEF Front
<1>4. Len(p) = 1 \/ Len(p) > 1
  BY OneOrMore
<1>. QED BY <1>2, <1>3, <1>4

\* The first names of a path.
LEMMA Beginning ==
    ASSUME NEW S, NEW p \in Seq(S), NEW n \in 0 .. Len(p)
    PROVE  /\ SubSeq(p, 1, n) \in Seq(S) /\ Len(SubSeq(p, 1, n)) = n
           /\ \A k \in 1 .. n : SubSeq(p, 1, n)[k] = p[k]
<1>1. Len(p) \in Nat /\ (\A k \in 1 .. n : p[k] \in S) /\ n \in Int
  OBVIOUS
<1>2. CASE n = 0
  <2>1. SubSeq(p, 1, n) = <<>>
    BY <1>2, SubSeqEmpty
  <2>. QED BY <1>2, <2>1
<1>3. CASE n > 0
  BY <1>1, <1>3, SubSeqProperties
<1>. QED BY <1>1, <1>2, <1>3

\* What is above the first names are fewer of them.
LEMMA FrontOfBeginning ==
    ASSUME NEW p \in Seq(Names), NEW n \in 1 .. Len(p)
    PROVE  Front(SubSeq(p, 1, n)) = SubSeq(p, 1, n - 1) /\ SubSeq(p, 1, n) # <<>>
<1>. DEFINE q == SubSeq(p, 1, n)
            r == SubSeq(p, 1, n - 1)
<1>1. Len(p) \in Nat /\ n \in 0 .. Len(p) /\ n - 1 \in 0 .. Len(p)
  OBVIOUS
<1>2. q \in Seq(Names) /\ Len(q) = n /\ (\A k \in 1 .. n : q[k] = p[k])
  BY <1>1, Beginning
<1>3. r \in Seq(Names) /\ Len(r) = n - 1 /\ (\A k \in 1 .. n - 1 : r[k] = p[k])
  BY <1>1, Beginning
<1>. HIDE DEF q, r
<1>4. q # <<>>
  BY <1>1, <1>2
<1>5. /\ Front(q) \in Seq(Names) /\ Len(Front(q)) = n - 1
      /\ \A k \in 1 .. n - 1 : Front(q)[k] = q[k]
  BY <1>2, <1>4, FrontFits
<1>6. \A k \in 1 .. n - 1 : Front(q)[k] = r[k]
  <2>. TAKE k \in 1 .. n - 1
  <2>1. k \in 1 .. n
    BY <1>1
  <2>2. q[k] = p[k] /\ r[k] = p[k]
    BY <1>2, <1>3, <2>1
  <2>. QED BY <1>5, <2>2
<1>7. Front(q) = r
  BY <1>3, <1>5, <1>6, SeqEqual
<1>. QED BY <1>4, <1>7 DEF q, r

\* All the names of a path.
LEMMA WholePath ==
    ASSUME NEW p \in Seq(Names)
    PROVE  SubSeq(p, 1, Len(p)) = p
BY SubSeqFull

\* The first names of the first names of a path.
LEMMA BeginningOfBeginning ==
    ASSUME NEW p \in Seq(Names), NEW m \in 0 .. Len(p), NEW n \in 0 .. m
    PROVE  SubSeq(SubSeq(p, 1, m), 1, n) = SubSeq(p, 1, n)
<1>. DEFINE q == SubSeq(p, 1, m)
            a == SubSeq(q, 1, n)
            b == SubSeq(p, 1, n)
<1>1. Len(p) \in Nat /\ n \in 0 .. Len(p) /\ (\A k \in 1 .. n : k \in 1 .. m)
  OBVIOUS
<1>2. q \in Seq(Names) /\ Len(q) = m /\ (\A k \in 1 .. m : q[k] = p[k])
  BY Beginning
<1>3. b \in Seq(Names) /\ Len(b) = n /\ (\A k \in 1 .. n : b[k] = p[k])
  BY <1>1, Beginning
<1>. HIDE DEF q, b
<1>4. a \in Seq(Names) /\ Len(a) = n /\ (\A k \in 1 .. n : a[k] = q[k])
  <2>1. n \in 0 .. Len(q)
    BY <1>2
  <2>. QED BY <1>2, <2>1, Beginning
<1>. HIDE DEF a
<1>5. \A k \in 1 .. n : a[k] = b[k]
  BY <1>1, <1>2, <1>3, <1>4
<1>6. a = b
  BY <1>3, <1>4, <1>5, SeqEqual
<1>. QED BY <1>6 DEF a, b, q

\* In a tree all that is above a path is there, and is a directory.
LEMMA TreeClosed ==
    ASSUME NEW t, IsTree(t), NEW p \in DOMAIN t, NEW n \in 1 .. Len(p) - 1
    PROVE  SubSeq(p, 1, n) \in DOMAIN t /\ t[SubSeq(p, 1, n)] = "dir"
<1>. DEFINE above(k) == SubSeq(p, 1, k)
            T == {k \in Nat : k < Len(p) - 1 =>
                     above(Len(p) - 1 - k) \in DOMAIN t /\ t[above(Len(p) - 1 - k)] = "dir"}
<1>1. p \in Seq(Names) /\ p # <<>> /\ Len(p) \in Nat /\ n \in Nat /\ n < Len(p)
  BY DEF IsTree
<1>2. \A q \in DOMAIN t : Front(q) = <<>> \/ (Front(q) \in DOMAIN t /\ t[Front(q)] = "dir")
  BY DEF IsTree
<1>3. ASSUME NEW k \in 1 .. Len(p), k > 1, above(k) \in DOMAIN t
      PROVE  above(k - 1) \in DOMAIN t /\ t[above(k - 1)] = "dir"
  <2>1. Front(above(k)) = above(k - 1)
    BY <1>1, FrontOfBeginning
  <2>2. Len(above(k - 1)) = k - 1
    <3>1. k - 1 \in 0 .. Len(p)
      BY <1>1
    <3>. QED BY <1>1, <3>1, Beginning
  <2>. HIDE DEF above
  <2>3. above(k - 1) # <<>>
    BY <1>3, <2>2
  <2>. QED BY <1>2, <1>3, <2>1, <2>3
<1>4. above(Len(p)) \in DOMAIN t
  BY <1>1, WholePath
<1>. HIDE DEF above
<1>5. 0 \in T
  <2>. SUFFICES ASSUME Len(p) > 1
                PROVE  above(Len(p) - 1) \in DOMAIN t /\ t[above(Len(p) - 1)] = "dir"
    BY <1>1
  <2>1. Len(p) \in 1 .. Len(p)
    BY <1>1
  <2>. QED BY <1>3, <1>4, <2>1
<1>6. ASSUME NEW k \in Nat, k \in T
      PROVE  k + 1 \in T
  <2>. SUFFICES ASSUME k + 1 < Len(p) - 1
                PROVE  /\ above(Len(p) - 1 - (k + 1)) \in DOMAIN t
                       /\ t[above(Len(p) - 1 - (k + 1))] = "dir"
    OBVIOUS
  <2>. DEFINE m == Len(p) - 1 - k
  <2>1. above(m) \in DOMAIN t
    BY <1>1, <1>6
  <2>2. m \in 1 .. Len(p) /\ m > 1 /\ Len(p) - 1 - (k + 1) = m - 1
    BY <1>1
  <2>. HIDE DEF m
  <2>. QED BY <1>3, <2>1, <2>2
<1>7. Len(p) - 1 - n \in T
  <2>. HIDE DEF T
  <2>1. Len(p) - 1 - n \in Nat
    BY <1>1
  <2>. QED BY <1>5, <1>6, <2>1, SetInduction
<1>8. Len(p) - 1 - (Len(p) - 1 - n) = n /\ Len(p) - 1 - n < Len(p) - 1
  BY <1>1
<1>9. above(n) \in DOMAIN t /\ t[above(n)] = "dir"
  BY <1>7, <1>8
<1>. QED BY <1>9 DEF above

\* Prefixes are transitive where they are needed: what is below a path is below it when
\* what is above the former is.
LEMMA BelowFront ==
    ASSUME NEW path \in Seq(Names), NEW p \in Seq(Names), p # <<>>, IsPrefix(path, Front(p))
    PROVE  IsPrefix(path, p)
<1>1. /\ Len(p) \in Nat /\ Len(p) > 0 /\ Len(path) \in Nat
      /\ Front(p) \in Seq(Names) /\ Len(Front(p)) = Len(p) - 1
      /\ \A k \in 1 .. Len(p) - 1 : Front(p)[k] = p[k]
  BY FrontFits
<1>2. Len(path) <= Len(p) - 1 /\ SubSeq(path, 1, Len(path)) = SubSeq(Front(p), 1, Len(path))
  BY <1>1 DEF IsPrefix
<1>3. SubSeq(Front(p), 1, Len(path)) = SubSeq(p, 1, Len(path))
  <2>. DEFINE n == Len(path)
              q == Front(p)
  <2>1. n \in 0 .. Len(p) /\ n \in 0 .. Len(q)
    BY <1>1, <1>2
  <2>2. \A k \in 1 .. n : q[k] = p[k]
    BY <1>1, <1>2
  <2>. HIDE DEF n, q
  <2>3. /\ SubSeq(p, 1, n) \in Seq(Names) /\ Len(SubSeq(p, 1, n)) = n
        /\ \A k \in 1 .. n : SubSeq(p, 1, n)[k] = p[k]
    BY <2>1, Beginning
  <2>4. /\ SubSeq(q, 1, n) \in Seq(Names) /\ Len(SubSeq(q, 1, n)) = n
        /\ \A k \in 1 .. n : SubSeq(q, 1, n)[k] = q[k]
    <3>1. q \in Seq(Names)
      BY <1>1 DEF q
    <3>. QED BY <2>1, <3>1, Beginning
  <2>5. SubSeq(q, 1, n) = SubSeq(p, 1, n)
    BY <2>2, <2>3, <2>4, SeqEqual
  <2>. QED BY <2>5 DEF n, q
<1>. QED BY <1>1, <1>2, <1>3 DEF IsPrefix

\* A directory read stays a tree when a path is removed with all below it ...
LEMMA RemoveKeepsTree ==
    ASSUME NEW t, IsTree(t), NEW path \in DOMAIN t
    PROVE  IsTree(Restrict(t, DOMAIN t \ {p \in DOMAIN t : IsPrefix(path, p)}))
<1>. DEFINE left == DOMAIN t \ {p \in DOMAIN t : IsPrefix(path, p)}
            u == Restrict(t, left)
<1>1. /\ t \in [DOMAIN t -> Kinds] /\ DOMAIN t \subseteq Seq(Names) \ {<<>>}
      /\ IsFiniteSet(DOMAIN t)
      /\ \A p \in DOMAIN t : Front(p) = <<>> \/ (Front(p) \in DOMAIN t /\ t[Front(p)] = "dir")
  BY DEF IsTree
<1>2. DOMAIN u = left /\ u = [p \in left |-> t[p]]
  BY DEF Restrict
<1>3. left \subseteq DOMAIN t /\ IsFiniteSet(left)
  BY <1>1, FS_Subset
<1>4. ASSUME NEW p \in left
      PROVE  Front(p) = <<>> \/ (Front(p) \in left /\ t[Front(p)] = "dir")
  <2>1. path \in Seq(Names) /\ p \in Seq(Names) /\ p # <<>> /\ ~IsPrefix(path, p) /\ p \in DOMAIN t
    BY <1>1
  <2>2. ~IsPrefix(path, Front(p))
    BY <2>1, BelowFront
  <2>. QED BY <1>1, <2>1, <2>2
<1>. HIDE DEF left
<1>5. u \in [left -> Kinds]
  BY <1>1, <1>2, <1>3
<1>6. \A p \in left : Front(p) = <<>> \/ (Front(p) \in left /\ u[Front(p)] = "dir")
  BY <1>2, <1>4
<1>. HIDE DEF u
<1>7. IsTree(u)
  BY <1>1, <1>2, <1>3, <1>5, <1>6 DEF IsTree
<1>. QED BY <1>7 DEF u, left

\* ... and when one is created in a directory.
LEMMA CreateKeepsTree ==
    ASSUME NEW t, IsTree(t), NEW path \in Seq(Names), path # <<>>, path \notin DOMAIN t,
           Front(path) = <<>> \/ (Front(path) \in DOMAIN t /\ t[Front(path)] = "dir"),
           NEW u \in [DOMAIN t \cup {path} -> Kinds], \A p \in DOMAIN t : u[p] = t[p]
    PROVE  IsTree(u)
<1>1. /\ t \in [DOMAIN t -> Kinds] /\ DOMAIN t \subseteq Seq(Names) \ {<<>>}
      /\ IsFiniteSet(DOMAIN t)
      /\ \A p \in DOMAIN t : Front(p) = <<>> \/ (Front(p) \in DOMAIN t /\ t[Front(p)] = "dir")
  BY DEF IsTree
<1>2. DOMAIN u = DOMAIN t \cup {path} /\ IsFiniteSet(DOMAIN u)
  BY <1>1, FS_AddElement
<1>3. \A p \in DOMAIN u : Front(p) = <<>> \/ (Front(p) \in DOMAIN u /\ u[Front(p)] = "dir")
  BY <1>1, <1>2
<1>. QED BY <1>1, <1>2, <1>3 DEF IsTree

\* The directories found are put in some order, in which each of them is.
LEMMA InSomeOrder ==
    ASSUME NEW S, IsFiniteSet(S), NEW order \in SetToSeqs(S)
    PROVE  order \in Seq(S) /\ (\A s \in S : \E k \in DOMAIN order : order[k] = s)
<1>. DEFINE n == Cardinality(S)
<1>1. n \in Nat /\ IsFiniteSet(1 .. n) /\ Cardinality(1 .. n) = n
  BY FS_CardinalityType, FS_Interval
<1>2. order \in [1 .. n -> S] /\ (\A j, k \in 1 .. n : j # k => order[j] # order[k])
  BY DEF SetToSeqs
<1>3. order \in Injection(1 .. n, S)
  <2>1. IsInjective(order)
    BY <1>2 DEF IsInjective
  <2>. QED BY <1>2, <2>1 DEF Injection
<1>4. order \in Surjection(1 .. n, S)
  BY <1>1, <1>3, FS_Injection
<1>5. \A s \in S : \E k \in 1 .. n : order[k] = s
  BY <1>4 DEF Surjection
<1>6. order \in Seq(S) /\ DOMAIN order = 1 .. n
  BY <1>1, <1>2
<1>. QED BY <1>5, <1>6

\* As many images as there are elements.
LEMMA ImageFinite ==
    ASSUME NEW S, IsFiniteSet(S), NEW f, f = [x \in S |-> f[x]]
    PROVE  IsFiniteSet({f[x] : x \in S})
<1>. DEFINE T == {f[x] : x \in S}
<1>1. f \in Surjection(S, T)
  BY DEF Surjection
<1>2. IsFiniteSet(T)
  BY <1>1, FS_Surjection
<1>. QED BY <1>2

-----------------------------------------------------------------------------
(* The listing.                                                            *)

\* What the listing's steps are, with what is chosen for them.
ListingStep ==
    \/ \E src \in Sources, t \in Trees : BeginListing(src, t)
    \/ ListingNext

\* The types that the following proofs use.
LEMMA ListingTyped ==
    ASSUME ListingTypeOK
    PROVE  /\ source \in Sources /\ source.base \in Names
           /\ DOMAIN tree \subseteq Seq(Names) /\ IsFiniteSet(DOMAIN tree)
           /\ \A p \in DOMAIN tree : p # <<>> /\ tree[p] \in Kinds
           /\ stack \in Seq(Seq(Names)) /\ Len(stack) \in Nat /\ DOMAIN stack = 1 .. Len(stack)
           /\ stayed \subseteq DOMAIN tree /\ DOMAIN tree \subseteq seen
           /\ linked \subseteq seen
BY DEF ListingTypeOK, IsTree, Sources

\* An entry is one, and a directory only if it is taken from one.
LEMMA EntryType ==
    ASSUME ListingTypeOK, NEW p \in Seq(Names), NEW kind \in Kinds
    PROVE  /\ Entry(p, kind) \in Entries /\ Entry(p, kind).full = p
           /\ Entry(p, kind).relative = Relative(source, p)
           /\ Entry(p, kind).kind = "dir" <=> kind = "dir"
<1>1. Relative(source, p) \in Seq(Names)
  <2>1. <<source.base>> \in Seq(Names)
    BY ListingTyped
  <2>2. <<source.base>> \o p \in Seq(Names)
    BY <2>1, ConcatProperties
  <2>. QED BY <2>2 DEF Relative
<1>2. KindOf(kind) \in {"file", "dir", "link"} /\ (KindOf(kind) = "dir" <=> kind = "dir")
  BY DEF KindOf, Kinds
<1>. QED BY <1>1, <1>2 DEF Entry, Entries

\* The initial state.
LEMMA ListingInitially == ListingInit => ListingInv
<1>. SUFFICES ASSUME ListingInit PROVE ListingInv
  OBVIOUS
<1>1. /\ source.kind = "file" /\ source \in Sources /\ tree = <<>> /\ stack = <<>> /\ out = {}
      /\ listing = "none" /\ stayed = {} /\ seen = {} /\ linked = {} /\ changes = 0
  <2>1. (CHOOSE n \in Names : TRUE) \in Names
    BY ListingAssumption
  <2>. QED BY <2>1 DEF ListingInit, Sources
<1>2. DOMAIN tree = {}
  BY <1>1
<1>3. IsTree(tree)
  <2>1. tree \in [{} -> Kinds]
    BY <1>1
  <2>. QED BY <1>2, <2>1, FS_EmptySet DEF IsTree
<1>4. ListingTypeOK
  <2>1. stack \in Seq(Seq(Names)) /\ 0 \in 0 .. MaxChanges
    BY <1>1, ListingAssumption
  <2>. QED BY <1>1, <1>2, <1>3, <2>1 DEF ListingTypeOK
<1>5. Unlisted /\ WasThere /\ OnStack /\ LinksAreNew /\ Pending /\ Keyed /\ ListsWhatStayed
  BY <1>1, <1>2 DEF Unlisted, WasThere, OnStack, LinksAreNew, Listed, Pending, Keyed, ListsWhatStayed
<1>. QED BY <1>4, <1>5 DEF ListingInv

\* A stack that stays is as good when more is listed.
LEMMA OnStackStays == OnStack /\ stack' = stack /\ out \subseteq out' => OnStack'
BY DEF OnStack

\* The listing begins with a tree that has nothing listed.
LEMMA BeginListingStep ==
    ASSUME ListingInv, NEW src \in Sources, NEW t \in Trees, BeginListing(src, t)
    PROVE  ListingInv'
<1>1. /\ source' = src /\ tree' = (IF src.kind = "dir" THEN t ELSE <<>>)
      /\ stayed' = DOMAIN tree' /\ seen' = DOMAIN tree' /\ listing' = "begun" /\ listing = "none"
      /\ stack' = stack /\ out' = out /\ linked' = linked /\ changes' = changes
  BY DEF BeginListing
<1>2. out = {} /\ ListingTypeOK
  BY <1>1 DEF ListingInv, Unlisted
<1>3. IsTree(tree') /\ (src.kind # "dir" => DOMAIN tree' = {})
  <2>1. IsTree(<<>>) /\ DOMAIN <<>> = {}
    <3>1. DOMAIN <<>> = {} /\ <<>> \in [{} -> Kinds]
      OBVIOUS
    <3>. QED BY <3>1, FS_EmptySet DEF IsTree
  <2>2. IsTree(t)
    BY TreesAssumption
  <2>. QED BY <1>1, <2>1, <2>2
<1>4. linked = {}
  BY <1>1 DEF ListingInv, Unlisted
<1>5. ListingTypeOK'
  BY <1>1, <1>2, <1>3, <1>4 DEF ListingTypeOK
<1>6. Unlisted' /\ WasThere' /\ LinksAreNew' /\ Pending' /\ Keyed' /\ ListsWhatStayed'
  BY <1>1, <1>2, <1>3 DEF Unlisted, WasThere, LinksAreNew, Listed, Pending, Keyed, ListsWhatStayed
<1>7. OnStack'
  BY <1>1, OnStackStays DEF ListingInv
<1>. QED BY <1>5, <1>6, <1>7 DEF ListingInv

\* A source that is no directory.
LEMMA ListRootStep == ASSUME ListingInv, ListRoot PROVE ListingInv'
<1>. DEFINE e == [full |-> <<>>, relative |-> <<source.base>>, kind |-> source.kind]
<1>1. /\ source' = source /\ tree' = tree /\ stack' = stack /\ stayed' = stayed /\ seen' = seen
      /\ changes' = changes /\ linked' = linked /\ listing = "begun" /\ listing' = "done"
      /\ source.kind # "dir" /\ out' = {e}
  BY DEF ListRoot
<1>2. ListingTypeOK /\ DOMAIN tree = {} /\ stayed = {} /\ out = {}
  BY <1>1, ListingTyped DEF ListingInv, Unlisted
<1>3. e \in Entries /\ e.full = <<>>
  <2>1. source.base \in Names /\ source.kind \in {"file", "dir", "link"}
    BY <1>2, ListingTyped DEF Sources
  <2>2. <<source.base>> \in Seq(Names) /\ <<>> \in Seq(Names)
    BY <2>1
  <2>. QED BY <2>1, <2>2 DEF Entries
<1>. HIDE DEF e
<1>4. ListingTypeOK'
  BY <1>1, <1>2, <1>3 DEF ListingTypeOK
<1>5. Listed' = {}
  BY <1>1, <1>3 DEF Listed
<1>6. Unlisted' /\ Pending' /\ Keyed' /\ ListsWhatStayed'
  BY <1>1, <1>2, <1>3, <1>5 DEF Unlisted, Pending, Keyed, Listed, ListsWhatStayed
<1>7. WasThere' /\ LinksAreNew'
  BY <1>1, <1>2, <1>5 DEF WasThere, LinksAreNew
<1>8. OnStack'
  BY <1>1, <1>2, OnStackStays DEF ListingInv
<1>. QED BY <1>4, <1>6, <1>7, <1>8 DEF ListingInv

\* find lists all it does not leave out.
LEMMA ListByFindStep == ASSUME ListingInv, ListByFind PROVE ListingInv'
<1>. DEFINE found == {p \in DOMAIN tree : /\ source.recursive \/ Len(p) = 1
                                          /\ tree[p] # "other"
                                          /\ ~(source.star /\ p[1] \in Hidden)}
<1>1. /\ source' = source /\ tree' = tree /\ stack' = stack /\ stayed' = stayed /\ seen' = seen
      /\ changes' = changes /\ linked' = linked /\ listing = "begun" /\ listing' = "done"
      /\ source.kind = "dir" /\ source.remote
      /\ out' = {Entry(p, tree[p]) : p \in found}
  BY DEF ListByFind
<1>2. ListingTypeOK /\ out = {}
  BY <1>1 DEF ListingInv, Unlisted
<1>3. \A p \in found : /\ Entry(p, tree[p]) \in Entries /\ Entry(p, tree[p]).full = p
                       /\ Entry(p, tree[p]).relative = Relative(source, p)
                       /\ Entry(p, tree[p]).kind = "dir" <=> tree[p] = "dir"
  <2>1. \A p \in found : p \in Seq(Names) /\ tree[p] \in Kinds
    BY <1>2, ListingTyped
  <2>. QED BY <1>2, <2>1, EntryType
<1>4. ListingTypeOK'
  BY <1>1, <1>2, <1>3 DEF ListingTypeOK
<1>5. Listed' = found
  <2>1. \A p \in found : p # <<>>
    BY <1>2, ListingTyped
  <2>. HIDE DEF found
  <2>. QED BY <1>1, <1>3, <2>1 DEF Listed
<1>6. WasThere'
  <2>1. found \subseteq seen
    BY <1>2, ListingTyped
  <2>. QED BY <1>1, <1>5, <2>1 DEF WasThere
<1>7. Unlisted' /\ Pending'
  BY <1>1 DEF Unlisted, Pending
<1>8. Keyed' /\ LinksAreNew'
  BY <1>1, <1>3 DEF Keyed, LinksAreNew
<1>9. ListsWhatStayed'
  <2>1. ASSUME NEW p \in stayed
        PROVE  \/ p \in found
               \/ ~source.recursive /\ Len(p) > 1
               \/ source.remote /\ tree[p] = "other"
               \/ source.remote /\ source.star /\ p[1] \in Hidden
    <3>1. p \in DOMAIN tree /\ p \in Seq(Names) /\ p # <<>>
      BY <1>2, ListingTyped
    <3>2. Len(p) = 1 \/ Len(p) > 1
      BY <3>1, OneOrMore
    <3>. QED BY <1>1, <3>1, <3>2
  <2>. HIDE DEF found
  <2>. QED BY <1>1, <1>5, <1>6, <2>1 DEF ListsWhatStayed, Listed, WasThere
<1>10. OnStack'
  BY <1>1, <1>2, OnStackStays DEF ListingInv
<1>. QED BY <1>4, <1>6, <1>7, <1>8, <1>9, <1>10 DEF ListingInv

\* The walk begins at the root.
LEMMA BeginWalkStep == ASSUME ListingInv, BeginWalk PROVE ListingInv'
<1>1. /\ source' = source /\ tree' = tree /\ stayed' = stayed /\ seen' = seen
      /\ changes' = changes /\ linked' = linked /\ listing' = "walking" /\ source.kind = "dir"
      /\ stack' = <<<<>>>> /\ (out' = {} \/ out' = {Entry(<<>>, "dir")})
  BY DEF BeginWalk
<1>2. ListingTypeOK
  BY DEF ListingInv
<1>3. /\ Entry(<<>>, "dir") \in Entries /\ Entry(<<>>, "dir").full = <<>>
      /\ Entry(<<>>, "dir").relative = Relative(source, <<>>)
  <2>1. <<>> \in Seq(Names) /\ "dir" \in Kinds
    BY DEF Kinds
  <2>. QED BY <1>2, <2>1, EntryType
<1>4. ListingTypeOK'
  <2>1. stack' \in Seq(Seq(Names))
    BY <1>1
  <2>. QED BY <1>1, <1>2, <1>3, <2>1 DEF ListingTypeOK
<1>5. Listed' = {}
  BY <1>1, <1>3 DEF Listed
<1>6. Pending'
  <2>1. ASSUME NEW p \in stayed
        PROVE  Above(<<>>, p)
    <3>1. p \in Seq(Names) /\ p # <<>>
      BY <1>2, ListingTyped
    <3>2. Len(p) \in Nat /\ Len(p) # 0 /\ Len(<<>>) = 0
      BY <3>1
    <3>3. SubSeq(p, 1, 0) = <<>>
      BY SubSeqEmpty
    <3>. QED BY <3>2, <3>3 DEF Above
  <2>2. 1 \in DOMAIN stack' /\ stack'[1] = <<>>
    BY <1>1
  <2>. QED BY <1>1, <2>1, <2>2 DEF Pending
<1>7. Unlisted' /\ Keyed' /\ ListsWhatStayed'
  BY <1>1, <1>3 DEF Unlisted, Keyed, ListsWhatStayed
<1>8. OnStack'
  <2>1. \A k \in DOMAIN stack' : 1 .. Len(stack'[k]) = {}
    BY <1>1
  <2>. QED BY <2>1 DEF OnStack
<1>9. WasThere' /\ LinksAreNew'
  <2>1. <<>> \notin DOMAIN tree
    BY <1>2, ListingTyped
  <2>. QED BY <1>1, <1>3, <1>5, <2>1 DEF WasThere, LinksAreNew
<1>. QED BY <1>4, <1>6, <1>7, <1>8, <1>9 DEF ListingInv

\* What is still to be read, but for the directory that is read now, is on
\* the stack after it, and so are the directories found.
LEMMA StackAfter ==
    ASSUME NEW s \in Seq(Seq(Names)), s # <<>>, NEW o \in Seq(Seq(Names))
    PROVE  /\ Front(s) \o o \in Seq(Seq(Names))
           /\ Last(s) \in Seq(Names)
           /\ \A k \in DOMAIN s : s[k] = Last(s) \/ \E j \in DOMAIN (Front(s) \o o) : (Front(s) \o o)[j] = s[k]
           /\ \A k \in DOMAIN o : \E j \in DOMAIN (Front(s) \o o) : (Front(s) \o o)[j] = o[k]
           /\ \A j \in DOMAIN (Front(s) \o o) : \/ \E k \in DOMAIN s : (Front(s) \o o)[j] = s[k]
                                               \/ \E k \in DOMAIN o : (Front(s) \o o)[j] = o[k]
<1>. DEFINE n == Len(s)
            f == Front(s)
            r == f \o o
<1>1. n \in Nat /\ n > 0 /\ DOMAIN s = 1 .. n /\ (\A k \in 1 .. n : s[k] \in Seq(Names))
  OBVIOUS
<1>2. f \in Seq(Seq(Names)) /\ Len(f) = n - 1 /\ (\A k \in 1 .. n - 1 : f[k] = s[k])
  <2>1. CASE n = 1
    <3>1. f = <<>>
      BY <2>1, SubSeqEmpty DEF Front
    <3>. QED BY <2>1, <3>1
  <2>2. CASE n > 1
    <3>1. /\ SubSeq(s, 1, n - 1) \in Seq(Seq(Names))
          /\ Len(SubSeq(s, 1, n - 1)) = n - 1
          /\ \A k \in 1 .. n - 1 : SubSeq(s, 1, n - 1)[k] = s[k]
      BY <1>1, <2>2, SubSeqProperties
    <3>. QED BY <3>1 DEF Front
  <2>3. n = 1 \/ n > 1
    <3>. HIDE DEF n
    <3>. QED BY <1>1
  <2>. QED BY <2>1, <2>2, <2>3
<1>3. Last(s) = s[n] /\ Last(s) \in Seq(Names)
  BY <1>1 DEF Last
<1>. HIDE DEF n, f
<1>4. /\ r \in Seq(Seq(Names)) /\ Len(r) = Len(f) + Len(o) /\ Len(o) \in Nat
      /\ DOMAIN o = 1 .. Len(o) /\ DOMAIN r = 1 .. Len(r)
      /\ \A k \in 1 .. Len(f) + Len(o) : r[k] = IF k <= Len(f) THEN f[k] ELSE o[k - Len(f)]
  <2>1. /\ r \in Seq(Seq(Names)) /\ Len(r) = Len(f) + Len(o)
        /\ \A k \in 1 .. Len(f) + Len(o) : r[k] = IF k <= Len(f) THEN f[k] ELSE o[k - Len(f)]
    BY <1>2, ConcatProperties
  <2>. HIDE DEF r
  <2>2. Len(o) \in Nat /\ DOMAIN o = 1 .. Len(o) /\ DOMAIN r = 1 .. Len(r)
    BY <2>1
  <2>. QED BY <2>1, <2>2
<1>. HIDE DEF r
<1>5. ASSUME NEW k \in DOMAIN s, s[k] # Last(s)
      PROVE  \E j \in DOMAIN r : r[j] = s[k]
  <2>1. k \in 1 .. n - 1
    BY <1>1, <1>3, <1>5
  <2>2. k \in 1 .. Len(f) + Len(o) /\ k <= Len(f)
    <3>. DEFINE m == Len(o)
                l == Len(f)
    <3>1. m \in Nat /\ l = n - 1 /\ k \in 1 .. l
      BY <1>2, <1>4, <2>1
    <3>. HIDE DEF m, l
    <3>2. k \in 1 .. l + m /\ k <= l
      BY <1>1, <3>1
    <3>. QED BY <3>2 DEF m, l
  <2>3. k \in DOMAIN r /\ r[k] = f[k]
    BY <1>4, <2>2
  <2>. QED BY <1>2, <2>1, <2>3
<1>6. ASSUME NEW k \in DOMAIN o
      PROVE  \E j \in DOMAIN r : r[j] = o[k]
  <2>. DEFINE j == n - 1 + k
  <2>1. /\ j \in 1 .. Len(f) + Len(o) /\ ~(j <= Len(f)) /\ j - Len(f) = k
    <3>. DEFINE m == Len(o)
                l == Len(f)
    <3>1. m \in Nat /\ l = n - 1 /\ k \in 1 .. m
      BY <1>2, <1>4
    <3>. HIDE DEF m, l
    <3>2. j \in 1 .. l + m /\ ~(j <= l) /\ j - l = k
      BY <1>1, <3>1
    <3>. QED BY <3>2 DEF m, l
  <2>. HIDE DEF j
  <2>. QED BY <1>4, <2>1
<1>7. ASSUME NEW j \in DOMAIN r
      PROVE  (\E k \in DOMAIN s : r[j] = s[k]) \/ (\E k \in DOMAIN o : r[j] = o[k])
  <2>. DEFINE m == Len(o)
              l == Len(f)
  <2>1. m \in Nat /\ l = n - 1 /\ j \in 1 .. l + m /\ DOMAIN o = 1 .. m
        /\ r[j] = IF j <= l THEN f[j] ELSE o[j - l]
    BY <1>2, <1>4
  <2>. HIDE DEF m, l
  <2>2. CASE j <= l
    <3>1. j \in 1 .. n - 1 /\ j \in DOMAIN s
      BY <1>1, <2>1, <2>2
    <3>. QED BY <1>2, <2>1, <2>2, <3>1
  <2>3. CASE ~(j <= l)
    <3>1. j - l \in DOMAIN o
      BY <1>1, <2>1, <2>3
    <3>. QED BY <2>1, <2>3, <3>1
  <2>. QED BY <2>2, <2>3
<1>8. r \in Seq(Seq(Names)) /\ Last(s) \in Seq(Names)
      /\ (\A k \in DOMAIN s : s[k] = Last(s) \/ \E j \in DOMAIN r : r[j] = s[k])
      /\ (\A k \in DOMAIN o : \E j \in DOMAIN r : r[j] = o[k])
      /\ (\A j \in DOMAIN r : (\E k \in DOMAIN s : r[j] = s[k]) \/ (\E k \in DOMAIN o : r[j] = o[k]))
  BY <1>3, <1>4, <1>5, <1>6, <1>7
<1>. QED BY <1>8 DEF r, f

\* What is below a directory that is read is listed, or below one found there.
LEMMA ReadCovers ==
    ASSUME ListingTypeOK, NEW dir \in Seq(Names), NEW p \in DOMAIN tree, Above(dir, p)
    PROVE  \E c \in Children(dir) : \/ c = p
                                    \/ tree[c] = "dir" /\ Above(c, p) /\ Len(p) > 1
<1>. DEFINE n == Len(dir) + 1
            c == SubSeq(p, 1, n)
<1>1. p \in Seq(Names) /\ p # <<>> /\ IsTree(tree)
  BY ListingTyped DEF ListingTypeOK
<1>2. /\ Len(p) \in Nat /\ Len(dir) \in Nat /\ Len(dir) < Len(p) /\ SubSeq(p, 1, Len(dir)) = dir
      /\ n \in 1 .. Len(p) /\ n - 1 = Len(dir)
  BY <1>1 DEF Above
<1>3. Front(c) = dir /\ c # <<>>
  BY <1>1, <1>2, FrontOfBeginning
<1>4. CASE n = Len(p)
  <2>1. c = p
    BY <1>1, <1>4, WholePath
  <2>2. c \in Children(dir)
    BY <1>3, <2>1 DEF Children, ChildrenIn
  <2>. QED BY <2>1, <2>2
<1>5. CASE n < Len(p)
  <2>1. n \in 1 .. Len(p) - 1
    BY <1>2, <1>5
  <2>2. c \in DOMAIN tree /\ tree[c] = "dir"
    BY <1>1, <2>1, TreeClosed
  <2>3. Len(c) = n
    <3>1. n \in 0 .. Len(p)
      BY <1>2
    <3>. QED BY <1>1, <3>1, Beginning
  <2>4. Above(c, p) /\ Len(p) > 1
    BY <1>2, <1>5, <2>3 DEF Above
  <2>5. c \in Children(dir)
    BY <1>3, <2>2 DEF Children, ChildrenIn
  <2>. QED BY <2>2, <2>4, <2>5
<1>6. n = Len(p) \/ n < Len(p)
  BY <1>2
<1>. QED BY <1>4, <1>5, <1>6

\* The path on the top of the stack, and what is above it.
LEMMA OnTop ==
    ASSUME ListingTypeOK, stack # <<>>
    PROVE  /\ Last(stack) \in Seq(Names) /\ Len(Last(stack)) \in Nat
           /\ OnStack => \A n \in 1 .. Len(Last(stack)) :
                           \E e \in out : e.full = SubSeq(Last(stack), 1, n) /\ e.kind = "dir"
<1>1. stack \in Seq(Seq(Names))
  BY ListingTyped
<1>2. Len(stack) \in DOMAIN stack /\ stack[Len(stack)] \in Seq(Names)
  BY <1>1
<1>. QED BY <1>2 DEF OnStack, Last

\* A name after a path.
LEMMA AppendedName ==
    ASSUME NEW dir \in Seq(Names), NEW n \in Names
    PROVE  LET path == Append(dir, n)
           IN  /\ path \in Seq(Names) /\ path # <<>> /\ Front(path) = dir
               /\ Len(dir) < Len(path) /\ SubSeq(path, 1, Len(dir)) = dir
<1>. DEFINE path == Append(dir, n)
<1>1. /\ path \in Seq(Names) /\ path # <<>> /\ Len(path) = Len(dir) + 1 /\ Len(dir) \in Nat
      /\ \A k \in 1 .. Len(dir) : path[k] = dir[k]
  BY AppendProperties
<1>. HIDE DEF path
<1>2. Len(dir) \in 0 .. Len(path) /\ Len(path) - 1 = Len(dir) /\ Len(dir) < Len(path)
  BY <1>1
<1>3. /\ SubSeq(path, 1, Len(dir)) \in Seq(Names) /\ Len(SubSeq(path, 1, Len(dir))) = Len(dir)
      /\ \A k \in 1 .. Len(dir) : SubSeq(path, 1, Len(dir))[k] = path[k]
  BY <1>1, <1>2, Beginning
<1>4. SubSeq(path, 1, Len(dir)) = dir
  BY <1>1, <1>3, SeqEqual
<1>5. Front(path) = dir
  BY <1>2, <1>4 DEF Front
<1>. QED BY <1>1, <1>2, <1>4, <1>5 DEF path

\* What a reading of the path on the top of the stack finds: entries just below
\* it, that were in the tree or are below a link made meanwhile, and all on the
\* way to what has stayed.
FindsAll(dir, found) ==
    /\ \E S : IsFiniteSet(S) /\ \A e \in found : e.full \in S
    /\ \A e \in found :
          /\ e \in Entries /\ e.full # <<>> /\ Front(e.full) = dir
          /\ e.relative = Relative(source, e.full)
          /\ e.full \in seen \/ \E q \in Replaced : Above(q, e.full)
          /\ e.kind = "dir" /\ e.full \in DOMAIN tree => tree[e.full] # "link"
    /\ \A p \in stayed : Above(dir, p) =>
          \E e \in found : \/ e.full = p
                           \/ e.kind = "dir" /\ Above(e.full, p) /\ Len(p) > 1

\* The path is popped, what is found is listed, the directories among it are
\* still to be read.
LEMMA ReadKeeps ==
    ASSUME ListingInv, NEW found, FindsAll(Last(stack), found), Read(found)
    PROVE  ListingInv'
<1>. DEFINE dir == Last(stack)
            below == {e.full : e \in {f \in found : source.recursive /\ f.kind = "dir"}}
<1>1. /\ source' = source /\ tree' = tree /\ stayed' = stayed /\ seen' = seen
      /\ changes' = changes /\ linked' = linked /\ listing = "walking" /\ out' = out \cup found
      /\ listing' = IF stack' = <<>> THEN "done" ELSE "walking"
  BY DEF Read
<1>2. PICK order \in SetToSeqs(below) : stack' = Front(stack) \o order
  BY DEF Read
<1>3. /\ ListingTypeOK /\ stack # <<>> /\ stack \in Seq(Seq(Names)) /\ source.kind = "dir"
      /\ stayed \subseteq DOMAIN tree
  BY <1>1, ListingTyped DEF ListingInv, Unlisted
<1>4. \A e \in found : /\ e \in Entries /\ e.full \in Seq(Names) /\ e.full # <<>>
                       /\ Front(e.full) = dir /\ e.relative = Relative(source, e.full)
                       /\ e.full \in seen \/ \E q \in Replaced : Above(q, e.full)
                       /\ e.kind = "dir" /\ e.full \in DOMAIN tree => tree[e.full] # "link"
  BY DEF FindsAll, Entries
<1>5. below \subseteq Seq(Names) /\ IsFiniteSet(below)
  <2>1. PICK S : IsFiniteSet(S) /\ \A e \in found : e.full \in S
    BY DEF FindsAll
  <2>2. below \subseteq S /\ below \subseteq Seq(Names)
    BY <1>4, <2>1
  <2>. HIDE DEF below
  <2>. QED BY <2>1, <2>2, FS_Subset
<1>6. /\ order \in Seq(Seq(Names)) /\ (\A s \in below : \E k \in DOMAIN order : order[k] = s)
      /\ (\A k \in DOMAIN order : order[k] \in below)
  <2>. HIDE DEF below
  <2>1. order \in Seq(below) /\ (\A s \in below : \E k \in DOMAIN order : order[k] = s)
    BY <1>5, InSomeOrder
  <2>2. \A k \in DOMAIN order : order[k] \in below
    BY <2>1
  <2>. QED BY <1>5, <2>1, <2>2
<1>7. /\ stack' \in Seq(Seq(Names)) /\ dir \in Seq(Names)
      /\ \A k \in DOMAIN stack : stack[k] = dir \/ \E j \in DOMAIN stack' : stack'[j] = stack[k]
      /\ \A k \in DOMAIN order : \E j \in DOMAIN stack' : stack'[j] = order[k]
      /\ \A j \in DOMAIN stack' : \/ \E k \in DOMAIN stack : stack'[j] = stack[k]
                                \/ \E k \in DOMAIN order : stack'[j] = order[k]
  <2>1. /\ Front(stack) \o order \in Seq(Seq(Names)) /\ Last(stack) \in Seq(Names)
        /\ \A k \in DOMAIN stack : stack[k] = Last(stack)
               \/ \E j \in DOMAIN (Front(stack) \o order) : (Front(stack) \o order)[j] = stack[k]
        /\ \A k \in DOMAIN order : \E j \in DOMAIN (Front(stack) \o order) :
               (Front(stack) \o order)[j] = order[k]
        /\ \A j \in DOMAIN (Front(stack) \o order) :
               \/ \E k \in DOMAIN stack : (Front(stack) \o order)[j] = stack[k]
               \/ \E k \in DOMAIN order : (Front(stack) \o order)[j] = order[k]
    BY <1>3, <1>6, StackAfter
  <2>. QED BY <1>2, <2>1
<1>8. \A n \in 1 .. Len(dir) : \E e \in out : e.full = SubSeq(dir, 1, n) /\ e.kind = "dir"
  BY <1>3, OnTop DEF ListingInv
<1>9. ListingTypeOK'
  BY <1>1, <1>3, <1>4, <1>7 DEF ListingTypeOK
<1>10. Listed' = Listed \cup {e.full : e \in found}
  BY <1>1, <1>4 DEF Listed
<1>11. WasThere'
  <2>1. Replaced \subseteq Replaced'
    BY <1>1 DEF Replaced
  <2>2. \A p \in Listed : p \in seen \/ \E q \in Replaced : Above(q, p)
    BY DEF ListingInv, WasThere
  <2>. QED BY <1>1, <1>4, <1>10, <2>1, <2>2 DEF WasThere
<1>12. ASSUME NEW c \in below, NEW n \in 1 .. Len(c)
       PROVE  \E e \in out' : e.full = SubSeq(c, 1, n) /\ e.kind = "dir"
  <2>1. PICK e \in found : e.full = c /\ e.kind = "dir"
    OBVIOUS
  <2>2. c \in Seq(Names) /\ c # <<>> /\ Front(c) = dir /\ Len(c) \in Nat
    BY <1>4, <2>1
  <2>3. CASE n = Len(c)
    BY <1>1, <2>1, <2>2, <2>3, WholePath
  <2>4. CASE n # Len(c)
    <3>1. Len(dir) = Len(c) - 1 /\ SubSeq(c, 1, Len(c) - 1) = dir
      BY <2>2, FrontFits DEF Front
    <3>. HIDE DEF dir, below
    <3>2. Len(c) - 1 \in 0 .. Len(c) /\ n \in 0 .. Len(c) - 1 /\ n \in 1 .. Len(dir)
      BY <2>2, <2>4, <3>1
    <3>3. SubSeq(SubSeq(c, 1, Len(c) - 1), 1, n) = SubSeq(c, 1, n)
      BY <2>2, <3>2, BeginningOfBeginning
    <3>. QED BY <1>1, <1>8, <3>1, <3>2, <3>3
  <2>. QED BY <2>3, <2>4
<1>13. OnStack'
  <2>. SUFFICES ASSUME NEW j \in DOMAIN stack', NEW n \in 1 .. Len(stack'[j])
                PROVE  \E e \in out' : e.full = SubSeq(stack'[j], 1, n) /\ e.kind = "dir"
    BY DEF OnStack
  <2>1. CASE \E k \in DOMAIN stack : stack'[j] = stack[k]
    BY <1>1, <2>1 DEF ListingInv, OnStack
  <2>2. CASE \E k \in DOMAIN order : stack'[j] = order[k]
    <3>1. stack'[j] \in below
      BY <1>6, <2>2
    <3>. HIDE DEF below
    <3>. QED BY <1>12, <3>1
  <2>. QED BY <1>7, <2>1, <2>2
<1>14. LinksAreNew'
  BY <1>1, <1>4 DEF ListingInv, LinksAreNew
<1>15. ASSUME NEW p \in stayed
       PROVE  \/ p \in Listed'
              \/ ~source.recursive /\ Len(p) > 1
              \/ \E j \in DOMAIN stack' : Above(stack'[j], p)
  <2>1. \/ p \in Listed
        \/ ~source.recursive /\ Len(p) > 1
        \/ \E k \in DOMAIN stack : Above(stack[k], p)
    BY <1>1 DEF ListingInv, Pending
  <2>2. CASE \E k \in DOMAIN stack : Above(stack[k], p)
    <3>1. PICK k \in DOMAIN stack : Above(stack[k], p)
      BY <2>2
    <3>2. CASE stack[k] = dir
      <4>1. PICK e \in found : \/ e.full = p
                               \/ e.kind = "dir" /\ Above(e.full, p) /\ Len(p) > 1
        BY <3>1, <3>2 DEF FindsAll
      <4>2. CASE e.full = p
        BY <1>10, <4>2
      <4>3. CASE e.kind = "dir" /\ Above(e.full, p) /\ Len(p) > 1
        <5>1. CASE source.recursive
          <6>1. e.full \in below
            BY <4>3, <5>1
          <6>2. \E j \in DOMAIN stack' : stack'[j] = e.full
            <7>. HIDE DEF below
            <7>. QED BY <1>6, <1>7, <6>1
          <6>. QED BY <4>3, <6>2
        <5>. QED BY <4>3, <5>1
      <4>. QED BY <4>1, <4>2, <4>3
    <3>3. CASE stack[k] # dir
      <4>. HIDE DEF dir
      <4>. QED BY <1>7, <3>1, <3>3
    <3>. QED BY <3>2, <3>3
  <2>. QED BY <1>10, <2>1, <2>2
<1>16. Unlisted' /\ Pending'
  BY <1>1, <1>3, <1>15 DEF Unlisted, Pending
<1>17. Keyed'
  BY <1>1, <1>3, <1>4 DEF Keyed, ListingInv, Relative
<1>18. ListsWhatStayed'
  <2>. SUFFICES ASSUME listing' = "done"
                PROVE  \A p \in stayed : p \in Listed' \/ (~source.recursive /\ Len(p) > 1)
    BY <1>1, <1>11 DEF ListsWhatStayed, Listed, WasThere
  <2>1. stack' = <<>>
    BY <1>1
  <2>2. DOMAIN stack' = {}
    BY <2>1
  <2>3. ASSUME NEW p \in stayed
        PROVE  p \in Listed' \/ (~source.recursive /\ Len(p) > 1)
    <3>1. ~ \E j \in DOMAIN stack' : Above(stack'[j], p)
      BY <2>2
    <3>. QED BY <1>15, <3>1
  <2>. QED BY <2>3
<1>. QED BY <1>9, <1>11, <1>13, <1>14, <1>16, <1>17, <1>18 DEF ListingInv

\* A directory is read: all that is in it is found.
LEMMA WalkDirStep == ASSUME ListingInv, WalkDir PROVE ListingInv'
<1>. DEFINE dir == Last(stack)
            found == {Entry(c, tree[c]) : c \in Children(dir)}
<1>1. Read(found) /\ listing = "walking"
  BY DEF WalkDir
<1>2. /\ ListingTypeOK /\ stack # <<>> /\ stack \in Seq(Seq(Names))
      /\ DOMAIN tree \subseteq Seq(Names) /\ IsFiniteSet(DOMAIN tree)
      /\ stayed \subseteq DOMAIN tree /\ DOMAIN tree \subseteq seen
  BY <1>1, ListingTyped DEF ListingInv, Unlisted
<1>3. dir \in Seq(Names)
  BY <1>2, OnTop
<1>4. \A c \in Children(dir) :
        /\ c \in DOMAIN tree /\ c # <<>> /\ Front(c) = dir
        /\ Entry(c, tree[c]) \in Entries /\ Entry(c, tree[c]).full = c
        /\ Entry(c, tree[c]).relative = Relative(source, c)
        /\ Entry(c, tree[c]).kind = "dir" <=> tree[c] = "dir"
  <2>1. \A c \in Children(dir) : /\ c \in DOMAIN tree /\ c # <<>> /\ Front(c) = dir
                                 /\ c \in Seq(Names) /\ tree[c] \in Kinds
    BY <1>2, ListingTyped DEF Children, ChildrenIn
  <2>. QED BY <1>2, <2>1, EntryType
<1>5. \A e \in found :
        /\ e \in Entries /\ e.full # <<>> /\ Front(e.full) = dir
        /\ e.relative = Relative(source, e.full)
        /\ e.full \in seen
        /\ e.kind = "dir" /\ e.full \in DOMAIN tree => tree[e.full] # "link"
  BY <1>2, <1>4
<1>6. IsFiniteSet(DOMAIN tree) /\ \A e \in found : e.full \in DOMAIN tree
  BY <1>2, <1>4
<1>7. ASSUME NEW p \in stayed, Above(dir, p)
      PROVE  \E e \in found : \/ e.full = p
                              \/ e.kind = "dir" /\ Above(e.full, p) /\ Len(p) > 1
  <2>1. PICK c \in Children(dir) : \/ c = p
                                   \/ tree[c] = "dir" /\ Above(c, p) /\ Len(p) > 1
    <3>1. p \in DOMAIN tree
      BY <1>2
    <3>. HIDE DEF dir
    <3>. QED BY <1>2, <1>3, <1>7, <3>1, ReadCovers
  <2>2. Entry(c, tree[c]) \in found
    OBVIOUS
  <2>. HIDE DEF found
  <2>. QED BY <1>4, <2>1, <2>2
<1>8. FindsAll(dir, found)
  <2>. HIDE DEF dir, found
  <2>. QED BY <1>5, <1>6, <1>7 DEF FindsAll
<1>. HIDE DEF found
<1>. QED BY <1>1, <1>8, ReadKeeps

\* A path is read that leads through a link: the link has taken the place of a
\* directory listed before, so nothing below the path has stayed.
LEMMA WalkLinkStep == ASSUME ListingInv, WalkLink PROVE ListingInv'
<1>. DEFINE dir == Last(stack)
<1>1. PICK n \in 1 .. Len(dir), t \in Trees :
        LET link == SubSeq(dir, 1, n)
            at   == SubSeq(dir, n + 1, Len(dir))
        IN  /\ link \in DOMAIN tree /\ tree[link] = "link"
            /\ IsDirIn(t, at)
            /\ Read({Entry(Append(dir, Last(c)), t[c]) : c \in ChildrenIn(t, at)})
  BY DEF WalkLink
<1>. DEFINE link == SubSeq(dir, 1, n)
            inside == ChildrenIn(t, SubSeq(dir, n + 1, Len(dir)))
            path(c) == Append(dir, Last(c))
            found == {Entry(path(c), t[c]) : c \in inside}
<1>2. link \in DOMAIN tree /\ tree[link] = "link" /\ Read(found) /\ listing = "walking"
  BY <1>1 DEF WalkLink
<1>3. /\ ListingTypeOK /\ stack # <<>> /\ stack \in Seq(Seq(Names)) /\ IsTree(tree)
      /\ stayed \subseteq DOMAIN tree
  BY <1>2, ListingTyped DEF ListingInv, Unlisted, ListingTypeOK
<1>4. /\ dir \in Seq(Names) /\ Len(dir) \in Nat /\ n \in 0 .. Len(dir)
      /\ \A m \in 1 .. Len(dir) : \E e \in out : e.full = SubSeq(dir, 1, m) /\ e.kind = "dir"
  BY <1>3, OnTop DEF ListingInv
<1>5. link \in Replaced
  BY <1>2, <1>4 DEF ListingInv, LinksAreNew, Replaced
<1>6. Len(link) = n
  BY <1>4, Beginning
<1>7. ASSUME NEW p \in Seq(Names), Len(dir) < Len(p), SubSeq(p, 1, Len(dir)) = dir
      PROVE  Above(link, p) /\ p \notin DOMAIN tree
  <2>1. Len(p) \in Nat
    BY <1>7
  <2>2. Len(dir) \in 0 .. Len(p) /\ n \in 1 .. Len(p) - 1 /\ n < Len(p)
    <3>. HIDE DEF dir
    <3>. QED BY <1>4, <1>7, <2>1
  <2>3. SubSeq(p, 1, n) = link
    <3>1. SubSeq(SubSeq(p, 1, Len(dir)), 1, n) = SubSeq(p, 1, n)
      <4>. HIDE DEF dir
      <4>. QED BY <1>4, <1>7, <2>2, BeginningOfBeginning
    <3>. QED BY <1>7, <3>1
  <2>. HIDE DEF dir, link
  <2>4. Above(link, p)
    BY <1>6, <2>2, <2>3 DEF Above
  <2>5. p \notin DOMAIN tree
    <3>1. p \in DOMAIN tree => tree[SubSeq(p, 1, n)] = "dir"
      BY <1>3, <2>2, TreeClosed
    <3>. QED BY <1>2, <2>3, <3>1
  <2>. QED BY <2>4, <2>5
<1>8. /\ IsFiniteSet(inside)
      /\ \A c \in inside : /\ path(c) \in Seq(Names) /\ t[c] \in Kinds /\ path(c) # <<>>
                           /\ Front(path(c)) = dir /\ Len(dir) < Len(path(c))
                           /\ SubSeq(path(c), 1, Len(dir)) = dir
  <2>1. /\ t \in [DOMAIN t -> Kinds] /\ DOMAIN t \subseteq Seq(Names) \ {<<>>}
        /\ IsFiniteSet(DOMAIN t)
    BY TreesAssumption DEF IsTree
  <2>2. inside \subseteq DOMAIN t
    BY DEF ChildrenIn
  <2>. HIDE DEF inside
  <2>3. IsFiniteSet(inside)
    BY <2>1, <2>2, FS_Subset
  <2>4. ASSUME NEW c \in inside
        PROVE  /\ path(c) \in Seq(Names) /\ t[c] \in Kinds /\ path(c) # <<>>
               /\ Front(path(c)) = dir /\ Len(dir) < Len(path(c))
               /\ SubSeq(path(c), 1, Len(dir)) = dir
    <3>1. c \in Seq(Names) /\ c # <<>> /\ t[c] \in Kinds
      BY <2>1, <2>2
    <3>2. Last(c) \in Names
      BY <3>1 DEF Last
    <3>. HIDE DEF dir
    <3>. QED BY <1>4, <3>1, <3>2, AppendedName
  <2>. QED BY <2>3, <2>4
<1>. HIDE DEF dir, link, inside
<1>9. \A c \in inside : /\ Entry(path(c), t[c]) \in Entries /\ Entry(path(c), t[c]).full = path(c)
                        /\ Entry(path(c), t[c]).relative = Relative(source, path(c))
                        /\ Above(link, path(c)) /\ path(c) \notin DOMAIN tree
  <2>. HIDE DEF path
  <2>. QED BY <1>3, <1>7, <1>8, EntryType
<1>10. \A e \in found :
        /\ e \in Entries /\ e.full # <<>> /\ Front(e.full) = dir
        /\ e.relative = Relative(source, e.full)
        /\ \E q \in Replaced : Above(q, e.full)
        /\ e.full \notin DOMAIN tree
  <2>. HIDE DEF path
  <2>. QED BY <1>5, <1>8, <1>9
<1>11. \E S : IsFiniteSet(S) /\ \A e \in found : e.full \in S
  <2>. DEFINE f == [c \in inside |-> path(c)]
  <2>1. \A c \in inside : f[c] = path(c)
    OBVIOUS
  <2>2. f = [c \in inside |-> f[c]]
    OBVIOUS
  <2>. HIDE DEF path, f
  <2>3. IsFiniteSet({f[c] : c \in inside})
    BY <1>8, <2>2, ImageFinite
  <2>4. \A e \in found : e.full \in {f[c] : c \in inside}
    BY <1>9, <2>1
  <2>. HIDE DEF found
  <2>. QED BY <2>3, <2>4
<1>12. \A p \in stayed : ~Above(dir, p)
  <2>. SUFFICES ASSUME NEW p \in stayed, Above(dir, p) PROVE FALSE
    OBVIOUS
  <2>1. p \in Seq(Names) /\ p \in DOMAIN tree
    BY <1>3, ListingTyped
  <2>2. Len(dir) < Len(p) /\ SubSeq(p, 1, Len(dir)) = dir
    BY DEF Above
  <2>. QED BY <1>7, <2>1, <2>2
<1>13. FindsAll(dir, found)
  <2>. HIDE DEF found
  <2>. QED BY <1>10, <1>11, <1>12 DEF FindsAll
<1>. HIDE DEF found
<1>. QED BY <1>2, <1>13, ReadKeeps DEF dir

\* The walk fails.
LEMMA WalkFailsStep == ASSUME ListingInv, WalkFails PROVE ListingInv'
<1>1. /\ source' = source /\ tree' = tree /\ stayed' = stayed /\ seen' = seen /\ stack' = stack
      /\ changes' = changes /\ linked' = linked /\ out' = out /\ listing' = "failed"
  BY DEF WalkFails
<1>2. ListingTypeOK'
  BY <1>1 DEF ListingInv, ListingTypeOK
<1>3. Unlisted' /\ Pending' /\ Keyed' /\ ListsWhatStayed'
  BY <1>1 DEF ListingInv, Unlisted, Listed, Pending, Keyed, Relative, ListsWhatStayed
<1>4. WasThere' /\ OnStack' /\ LinksAreNew'
  BY <1>1 DEF ListingInv, WasThere, OnStack, LinksAreNew, Listed, Replaced
<1>. QED BY <1>2, <1>3, <1>4 DEF ListingInv

\* Others remove a path.
LEMMA RemovePathStep ==
    ASSUME ListingInv, NEW path \in DOMAIN tree, RemovePath(path)
    PROVE  ListingInv'
<1>. DEFINE gone == {p \in DOMAIN tree : IsPrefix(path, p)}
<1>1. /\ source' = source /\ seen' = seen /\ stack' = stack /\ out' = out /\ listing' = listing
      /\ linked' = linked
      /\ listing \in {"begun", "walking"} /\ changes < MaxChanges /\ changes' = changes + 1
      /\ tree' = Restrict(tree, DOMAIN tree \ gone) /\ stayed' = stayed \ gone
  BY DEF RemovePath
<1>2. ListingTypeOK /\ IsTree(tree) /\ stayed \subseteq DOMAIN tree /\ DOMAIN tree \subseteq seen
  BY DEF ListingInv, ListingTypeOK
<1>3. /\ IsTree(tree') /\ DOMAIN tree' = DOMAIN tree \ gone
      /\ \A p \in DOMAIN tree' : tree'[p] = tree[p]
  <2>1. IsTree(tree')
    BY <1>1, <1>2, RemoveKeepsTree
  <2>2. DOMAIN tree' = DOMAIN tree \ gone /\ \A p \in DOMAIN tree' : tree'[p] = tree[p]
    BY <1>1 DEF Restrict
  <2>. QED BY <2>1, <2>2
<1>. HIDE DEF gone
<1>4. changes' \in 0 .. MaxChanges
  <2>1. changes \in 0 .. MaxChanges /\ MaxChanges \in Nat
    BY <1>2, ListingAssumption DEF ListingTypeOK
  <2>. QED BY <1>1, <2>1
<1>5. ListingTypeOK'
  BY <1>1, <1>2, <1>3, <1>4 DEF ListingTypeOK
<1>6. Unlisted' /\ Pending' /\ Keyed' /\ ListsWhatStayed'
  BY <1>1, <1>3 DEF ListingInv, Unlisted, Listed, Pending, Keyed, Relative, ListsWhatStayed
<1>7. WasThere' /\ OnStack'
  BY <1>1 DEF ListingInv, WasThere, OnStack, Listed, Replaced
<1>8. LinksAreNew'
  BY <1>1, <1>3 DEF ListingInv, LinksAreNew
<1>. QED BY <1>5, <1>6, <1>7, <1>8 DEF ListingInv

\* Others create one.
LEMMA CreatePathStep ==
    ASSUME ListingInv, NEW dir, dir \in DOMAIN tree \/ dir = <<>>, NEW n \in Names,
           NEW kind \in {"file", "dir", "link"}, CreatePath(Append(dir, n), kind)
    PROVE  ListingInv'
<1>. DEFINE path == Append(dir, n)
<1>1. /\ source' = source /\ stayed' = stayed /\ stack' = stack /\ out' = out
      /\ listing' = listing /\ source.kind = "dir"
      /\ listing \in {"begun", "walking"} /\ changes < MaxChanges /\ changes' = changes + 1
      /\ path \notin DOMAIN tree /\ IsDir(Front(path)) /\ seen' = seen \cup {path}
      /\ linked' = IF kind = "link" THEN linked \cup {path} ELSE linked
      /\ tree' = [p \in DOMAIN tree \cup {path} |-> IF p = path THEN kind ELSE tree[p]]
  BY DEF CreatePath
<1>2. ListingTypeOK /\ IsTree(tree) /\ stayed \subseteq DOMAIN tree /\ DOMAIN tree \subseteq seen
  BY DEF ListingInv, ListingTypeOK
<1>3. path \in Seq(Names) /\ path # <<>>
  <2>1. dir \in Seq(Names)
    <3>1. <<>> \in Seq(Names)
      OBVIOUS
    <3>. QED BY <1>2, <3>1, ListingTyped
  <2>. QED BY <2>1, AppendProperties
<1>. HIDE DEF path
<1>4. IsTree(tree') /\ DOMAIN tree' = DOMAIN tree \cup {path}
  <2>1. kind \in Kinds
    BY DEF Kinds
  <2>2. Front(path) = <<>> \/ (Front(path) \in DOMAIN tree /\ tree[Front(path)] = "dir")
    BY <1>1 DEF IsDir, IsDirIn
  <2>3. IsTree(tree')
    <3>1. /\ path \notin DOMAIN tree
          /\ tree' \in [DOMAIN tree \cup {path} -> Kinds]
          /\ \A p \in DOMAIN tree : tree'[p] = tree[p]
      BY <1>1, <1>2, <2>1 DEF IsTree
    <3>2. IsTree(tree) /\ path \in Seq(Names) /\ path # <<>>
      BY <1>2, <1>3
    <3>. QED BY <2>1, <2>2, <3>1, <3>2, CreateKeepsTree
  <2>. QED BY <1>1, <2>3
<1>5. changes' \in 0 .. MaxChanges
  <2>1. changes \in 0 .. MaxChanges /\ MaxChanges \in Nat
    BY <1>2, ListingAssumption DEF ListingTypeOK
  <2>. QED BY <1>1, <2>1
<1>6. ListingTypeOK'
  BY <1>1, <1>2, <1>4, <1>5 DEF ListingTypeOK
<1>7. Unlisted' /\ Pending' /\ Keyed' /\ ListsWhatStayed'
  BY <1>1 DEF ListingInv, Unlisted, Listed, Pending, Keyed, Relative, ListsWhatStayed
<1>8. WasThere' /\ OnStack'
  <2>1. Replaced \subseteq Replaced'
    BY <1>1 DEF Replaced
  <2>2. \A p \in Listed : p \in seen \/ \E q \in Replaced : Above(q, p)
    BY DEF ListingInv, WasThere
  <2>3. Listed' = Listed
    BY <1>1 DEF Listed
  <2>4. WasThere'
    BY <1>1, <2>1, <2>2, <2>3 DEF WasThere
  <2>. QED BY <1>1, <2>4, OnStackStays DEF ListingInv
<1>9. LinksAreNew'
  <2>1. \A p \in DOMAIN tree' : IF p = path THEN tree'[p] = kind ELSE p \in DOMAIN tree /\ tree'[p] = tree[p]
    BY <1>1, <1>4
  <2>. QED BY <1>1, <2>1 DEF ListingInv, LinksAreNew
<1>. QED BY <1>6, <1>7, <1>8, <1>9 DEF ListingInv

\* Every step of the listing keeps its invariant.
LEMMA ListingInvStep == ListingInv /\ (ListingStep \/ UNCHANGED listingVars) => ListingInv'
<1>. SUFFICES ASSUME ListingInv, ListingStep \/ UNCHANGED listingVars
              PROVE  ListingInv'
  OBVIOUS
<1>1. CASE \E src \in Sources, t \in Trees : BeginListing(src, t)
  BY <1>1, BeginListingStep
<1>2. CASE ListingNext
  <2>1. CASE \E path \in DOMAIN tree : RemovePath(path)
    BY <2>1, RemovePathStep
  <2>2. CASE \E dir \in {p \in DOMAIN tree \cup {<<>>} : Len(p) < MaxDepth}, n \in Names,
                kind \in {"file", "dir", "link"} : CreatePath(Append(dir, n), kind)
    BY <2>2, CreatePathStep
  <2>. QED BY <1>2, <2>1, <2>2, ListRootStep, ListByFindStep, BeginWalkStep, WalkDirStep,
              WalkLinkStep, WalkFailsStep DEF ListingNext
<1>3. CASE UNCHANGED listingVars
  <2>1. ListingTypeOK' /\ Unlisted' /\ WasThere' /\ OnStack' /\ LinksAreNew'
    BY <1>3 DEF listingVars, ListingInv, ListingTypeOK, Unlisted, WasThere, OnStack, LinksAreNew, Listed,
                Replaced
  <2>2. Pending' /\ Keyed' /\ ListsWhatStayed'
    BY <1>3 DEF listingVars, ListingInv, Listed, Pending, Keyed, Relative, ListsWhatStayed, Replaced
  <2>. QED BY <2>1, <2>2 DEF ListingInv
<1>. QED BY <1>1, <1>2, <1>3 DEF ListingStep

\* What is listed is read from where it was found.
LEMMA KeyedReads == ListingInv => ReadsWhatItListed
<1>. SUFFICES ASSUME ListingInv
              PROVE  \A e \in out : PathFor(source, e.relative) = e.full
  BY DEF ReadsWhatItListed
<1>. TAKE e \in out
<1>1. e.full \in Seq(Names) /\ source.base \in Names
  BY ListingTyped DEF ListingInv, ListingTypeOK, Entries
<1>2. CASE source.kind # "dir"
  BY <1>2 DEF ListingInv, Keyed, PathFor
<1>3. CASE source.kind = "dir" /\ (source.remote \/ source.star)
  BY <1>3 DEF ListingInv, Keyed, PathFor, Relative
<1>4. CASE source.kind = "dir" /\ ~source.remote /\ ~source.star
  <2>. DEFINE base == <<source.base>>
              r == base \o e.full
  <2>1. e.relative = r
    BY <1>4 DEF ListingInv, Keyed, Relative
  <2>2. /\ base \in Seq(Names) /\ Len(base) = 1 /\ base[1] = source.base
        /\ Len(e.full) \in Nat
    BY <1>1
  <2>3. /\ r \in Seq(Names) /\ Len(r) = 1 + Len(e.full)
        /\ \A k \in 1 .. 1 + Len(e.full) : r[k] = IF k <= 1 THEN base[k] ELSE e.full[k - 1]
    BY <1>1, <2>2, ConcatProperties
  <2>. HIDE DEF base, r
  <2>4. r # <<>> /\ Len(Tail(r)) = Len(e.full) /\ Tail(r) \in Seq(Names)
        /\ \A k \in 1 .. Len(e.full) : Tail(r)[k] = r[k + 1]
    <3>1. r # <<>>
      BY <2>2, <2>3
    <3>. QED BY <2>2, <2>3, <3>1, HeadTailProperties
  <2>5. \A k \in 1 .. Len(e.full) : Tail(r)[k] = e.full[k]
    BY <2>2, <2>3, <2>4
  <2>6. Tail(r) = e.full
    BY <1>1, <2>4, <2>5, SeqEqual
  <2>7. IsPrefix(base, r)
    <3>1. SubSeq(base, 1, 1) = base
      BY <2>2, WholePath
    <3>2. SubSeq(r, 1, 1) \in Seq(Names) /\ Len(SubSeq(r, 1, 1)) = 1 /\ SubSeq(r, 1, 1)[1] = r[1]
      <4>1. 1 \in 0 .. Len(r)
        BY <2>2, <2>3
      <4>. QED BY <2>3, <4>1, Beginning
    <3>3. r[1] = base[1]
      BY <2>2, <2>3
    <3>4. SubSeq(r, 1, 1) = base
      BY <2>2, <3>2, <3>3, SeqEqual
    <3>. QED BY <2>2, <2>3, <3>1, <3>4 DEF IsPrefix
  <2>. QED BY <1>4, <2>1, <2>6, <2>7 DEF PathFor, base
<1>. QED BY <1>2, <1>3, <1>4

-----------------------------------------------------------------------------
(* The settings.                                                           *)

\* What the settings are like.
SettingFits(r) ==
    /\ r.range \subseteq Nat /\ r.floor \in Nat /\ r.flag \subseteq r.range
    /\ r.default = <<>> \/ \E d \in r.range : r.default = <<d>>

\* Numbers are fit ...
LEMMA NumberFits ==
    ASSUME NEW floor \in Nat, NEW default, default \in {<<>>, <<Default>>}
    PROVE  SettingFits(Number(floor, default))
<1>1. Numbers \subseteq Nat /\ Default \in Numbers
  BY StartupAssumption
<1>. QED BY <1>1 DEF SettingFits, Number

\* ... and flags ...
LEMMA FlagFits ==
    ASSUME NEW default \in {0, 1}, NEW flag \in SUBSET {0, 1}
    PROVE  SettingFits(Flag(default, flag))
BY DEF SettingFits, Flag

\* ... and the mode of RDMA ...
LEMMA ModeFits == SettingFits([Flag(1, 0 .. 2) EXCEPT !.range = 0 .. 2])
<1>. DEFINE r == [Flag(1, 0 .. 2) EXCEPT !.range = 0 .. 2]
<1>1. r.range = 0 .. 2 /\ r.floor = 0 /\ r.flag = 0 .. 2 /\ r.default = <<1>>
  BY DEF Flag
<1>2. 1 \in 0 .. 2 /\ 0 .. 2 \subseteq Nat
  OBVIOUS
<1>. HIDE DEF r
<1>3. SettingFits(r)
  BY <1>1, <1>2 DEF SettingFits
<1>. QED BY <1>3 DEF r

\* ... and so are all settings.
LEMMA SettingsFit == \A s \in DOMAIN Settings : SettingFits(Settings[s])
<1>1. SmallestBlock \in Nat
  BY StartupAssumption
<1>2. /\ SettingFits(Number(1, <<Default>>)) /\ SettingFits(Number(0, <<>>))
      /\ SettingFits(Number(0, <<Default>>)) /\ SettingFits(Number(SmallestBlock, <<>>))
  BY <1>1, NumberFits
<1>3. /\ SettingFits(Flag(1, {0, 1})) /\ SettingFits(Flag(0, {1})) /\ SettingFits(Flag(1, {0}))
  BY FlagFits
<1>. DEFINE count == Number(1, <<Default>>)
            any == Number(0, <<>>)
            amount == Number(0, <<Default>>)
            block == Number(SmallestBlock, <<>>)
            either == Flag(1, {0, 1})
            on == Flag(0, {1})
            off == Flag(1, {0})
            mode == [Flag(1, 0 .. 2) EXCEPT !.range = 0 .. 2]
<1>4. Settings =
        [jobs |-> count, chunk_size |-> count, chunk_threshold |-> count, retries |-> count,
         resume |-> either, state_dir |-> any, delta_enabled |-> on, delta_min_size |-> count,
         delta_block_size |-> block, delta_max_literals |-> amount, delta_helper |-> amount,
         delta_fallback |-> off, strict_durability |-> on, verify_existing |-> on,
         sftp_read_concurrency |-> count, sftp_read_chunk_size |-> count,
         rdma_mode |-> mode, rdma_bind |-> any, rdma_min_size |-> amount,
         rdma_helper |-> amount, strict_windows_metadata |-> on]
  BY DEF Settings
<1>5. /\ SettingFits(count) /\ SettingFits(any) /\ SettingFits(amount) /\ SettingFits(block)
      /\ SettingFits(either) /\ SettingFits(on) /\ SettingFits(off) /\ SettingFits(mode)
  BY <1>2, <1>3, ModeFits
<1>. HIDE DEF count, any, amount, block, either, on, off, mode
<1>6. \A s \in DOMAIN Settings :
        Settings[s] \in {count, any, amount, block, either, on, off, mode}
  BY <1>4
<1>. QED BY <1>5, <1>6

\* The greater of two numbers.
LEMMA Greater ==
    ASSUME NEW a \in Nat, NEW b \in Nat
    PROVE  Max({a, b}) \in {a, b} /\ Max({a, b}) >= b
<1>1. \E x \in {a, b} : \A y \in {a, b} : x >= y
  <2>1. CASE a >= b
    BY <2>1
  <2>2. CASE ~(a >= b)
    <3>1. b >= a
      BY <2>2
    <3>. QED BY <3>1
  <2>. QED BY <2>1, <2>2
<1>. QED BY <1>1 DEF Max

\* What is resolved is in the range, or the floor, and is what the command
\* line says when it says something.
LEMMA ResolveFits ==
    ASSUME NEW s \in DOMAIN Settings, NEW cli \in Given(Settings[s].flag),
           NEW env \in Given(Settings[s].range \cup (IF s \in Plain THEN {} ELSE {Malformed})),
           NEW file \in Given(Settings[s].range)
    PROVE  \/ cli = <<>> /\ Resolve(s, cli, env, file) = <<>>
           \/ \E v \in Settings[s].range :
                 /\ Resolve(s, cli, env, file) = <<Max({v, Settings[s].floor})>>
                 /\ cli # <<>> => cli[1] = v
<1>. DEFINE r == Settings[s]
            inRange == {<<>>} \cup {<<v>> : v \in r.range}
            value == Or(cli, Or(FromEnv(env), Or(file, r.default)))
<1>1. r.flag \subseteq r.range /\ (r.default = <<>> \/ \E d \in r.range : r.default = <<d>>)
  BY SettingsFit DEF SettingFits
<1>2. cli \in inRange /\ file \in inRange /\ r.default \in inRange
  BY <1>1 DEF Given
<1>3. FromEnv(env) \in inRange
  <2>1. env = <<>> \/ (\E v \in r.range : env = <<v>>) \/ env = <<Malformed>>
    BY DEF Given
  <2>. QED BY <2>1 DEF FromEnv
<1>4. CASE cli # <<>>
  <2>1. PICK v \in r.range : cli = <<v>>
    BY <1>2, <1>4
  <2>2. value = <<v>>
    BY <1>4, <2>1 DEF Or
  <2>. QED BY <1>4, <2>1, <2>2 DEF Resolve
<1>5. CASE cli = <<>>
  <2>1. value \in inRange
    BY <1>2, <1>3 DEF Or
  <2>. HIDE DEF value
  <2>2. CASE value = <<>>
    BY <1>5, <2>2 DEF Resolve, value
  <2>3. CASE value # <<>>
    <3>1. PICK v \in r.range : value = <<v>>
      BY <2>1, <2>3
    <3>2. value[1] = v
      BY <3>1
    <3>3. Resolve(s, cli, env, file) = <<Max({value[1], r.floor})>>
      BY <2>3 DEF Resolve, value
    <3>. QED BY <1>5, <3>2, <3>3
  <2>. QED BY <2>2, <2>3
<1>. QED BY <1>4, <1>5

\* The part of the type invariant about the settings.
SettingTyped ==
    setting.kind # "none" =>
        \A v \in Range(setting.value) :
            v \in Settings[setting.name].range \cup {Settings[setting.name].floor}
            /\ v >= Settings[setting.name].floor

\* The part of what the command line decides that is about them.
SettingDecided ==
    setting.kind = "setting" /\ setting.cli # <<>> =>
        setting.value[1] \in {setting.cli[1], Settings[setting.name].floor}

\* What is resolved is typed, and as the command line says.
LEMMA ConfigureFits ==
    ASSUME NEW s \in DOMAIN Settings, NEW cli \in Given(Settings[s].flag),
           NEW env \in Given(Settings[s].range \cup (IF s \in Plain THEN {} ELSE {Malformed})),
           NEW file \in Given(Settings[s].range), Configure(s, cli, env, file)
    PROVE  SettingTyped' /\ SettingDecided'
<1>. DEFINE r == Resolve(s, cli, env, file)
<1>1. /\ setting'.kind = "setting" /\ setting'.name = s /\ setting'.cli = cli /\ setting'.value = r
  BY DEF Configure
<1>2. Settings[s].range \subseteq Nat /\ Settings[s].floor \in Nat
  BY SettingsFit DEF SettingFits
<1>. HIDE DEF r
<1>3. CASE cli = <<>> /\ r = <<>>
  <2>1. Range(r) = {}
    BY <1>3 DEF Range
  <2>. QED BY <1>1, <1>3, <2>1 DEF SettingTyped, SettingDecided
<1>4. ASSUME NEW v \in Settings[s].range, r = <<Max({v, Settings[s].floor})>>,
             cli # <<>> => cli[1] = v
      PROVE  SettingTyped' /\ SettingDecided'
  <2>. DEFINE m == Max({v, Settings[s].floor})
  <2>1. m \in {v, Settings[s].floor} /\ m >= Settings[s].floor
    BY <1>2, Greater
  <2>. HIDE DEF m
  <2>2. r = <<m>>
    BY <1>4 DEF m
  <2>3. Range(r) = {m} /\ r[1] = m
    BY <2>2 DEF Range
  <2>4. SettingTyped'
    BY <1>1, <2>1, <2>3 DEF SettingTyped
  <2>5. SettingDecided'
    BY <1>1, <1>4, <2>1, <2>3 DEF SettingDecided
  <2>. QED BY <2>4, <2>5
<1>5. \/ cli = <<>> /\ r = <<>>
      \/ \E v \in Settings[s].range : /\ r = <<Max({v, Settings[s].floor})>>
                                      /\ cli # <<>> => cli[1] = v
  BY ResolveFits DEF r
<1>. QED BY <1>3, <1>4, <1>5

-----------------------------------------------------------------------------
(* The source argument.                                                    *)

\* Where a string is cut.
LEMMA CutFits ==
    ASSUME NEW C, NEW s \in Seq(C), NEW c
    PROVE  CutAt(s, c) \in 0 .. Len(s)
<1>. DEFINE I == {i \in 1 .. Len(s) : s[i] = c}
<1>1. CutAt(s, c) = IF I # {} THEN Min(I) ELSE 0
  BY DEF CutAt, SelectInSeq
<1>2. CASE I # {}
  <2>1. I \in SUBSET Nat /\ I \subseteq 1 .. Len(s)
    OBVIOUS
  <2>. HIDE DEF I
  <2>2. \E n \in I : \A m \in I : n <= m
    BY <1>2, <2>1, LeastNat
  <2>3. Min(I) \in I
    BY <2>2 DEF Min
  <2>4. Min(I) \in 1 .. Len(s)
    BY <2>1, <2>3
  <2>. QED BY <1>1, <1>2, <2>4
<1>3. CASE I = {}
  BY <1>1, <1>3
<1>. QED BY <1>2, <1>3

\* A piece of a string is one.
LEMMA Piece ==
    ASSUME NEW C, NEW s \in Seq(C), NEW m \in 1 .. Len(s) + 1, NEW n \in Int, n <= Len(s)
    PROVE  SubSeq(s, m, n) \in Seq(C)
<1>1. CASE m > n
  <2>1. SubSeq(s, m, n) = <<>>
    BY <1>1, SubSeqEmpty
  <2>. QED BY <2>1
<1>2. CASE m <= n
  <2>1. m \in 1 .. Len(s) /\ n \in m .. Len(s)
    BY <1>2
  <2>. QED BY <2>1, SubSeqProperties
<1>. QED BY <1>1, <1>2

\* The pieces a string is cut into are strings.
LEMMA CutPieces ==
    ASSUME NEW C, NEW s \in Seq(C), NEW c
    PROVE  BeforeCut(s, c) \in Seq(C) /\ AfterCut(s, c) \in Seq(C)
<1>. DEFINE n == CutAt(s, c)
<1>1. n \in 0 .. Len(s) /\ Len(s) \in Nat
  BY CutFits
<1>. HIDE DEF n
<1>2. /\ 1 \in 1 .. Len(s) + 1 /\ n - 1 \in Int /\ n - 1 <= Len(s)
      /\ n + 1 \in 1 .. Len(s) + 1 /\ Len(s) \in Int
  BY <1>1
<1>3. SubSeq(s, 1, n - 1) \in Seq(C) /\ SubSeq(s, n + 1, Len(s)) \in Seq(C)
  BY <1>2, Piece
<1>. QED BY <1>3 DEF BeforeCut, AfterCut, n

\* One round of NumberOf.
DigitStep(s, f, k) == IF k = 0 THEN 0 ELSE 10 * f[k - 1] + Digits[s[k]]

\* The recursion is one: there is a function of the kind NumberOf's is, and
\* its values are numbers.
LEMMA NumberExists ==
    ASSUME NEW C, NEW s \in Seq(C), \A k \in 1 .. Len(s) : Digits[s[k]] \in Nat
    PROVE  \E f : f = [k \in 0 .. Len(s) |-> DigitStep(s, f, k)]
<1>. DEFINE T == {n \in Nat : \E f \in [0 .. Len(s) -> Nat] :
                     \A k \in 0 .. Len(s) : k < n => f[k] = DigitStep(s, f, k)}
<1>0. Len(s) \in Nat
  OBVIOUS
<1>1. 0 \in T
  <2>1. [k \in 0 .. Len(s) |-> 0] \in [0 .. Len(s) -> Nat]
    OBVIOUS
  <2>2. \A k \in 0 .. Len(s) : ~(k < 0)
    BY <1>0
  <2>. QED BY <2>1, <2>2
<1>2. ASSUME NEW n \in Nat, n \in T
      PROVE  n + 1 \in T
  <2>1. PICK f \in [0 .. Len(s) -> Nat] :
          \A k \in 0 .. Len(s) : k < n => f[k] = DigitStep(s, f, k)
    BY <1>2
  <2>. DEFINE g == [k \in 0 .. Len(s) |-> IF k = n THEN DigitStep(s, f, k) ELSE f[k]]
  <2>2. \A k \in 0 .. Len(s) : DigitStep(s, f, k) \in Nat
    <3>. SUFFICES ASSUME NEW k \in 0 .. Len(s), k # 0
                  PROVE  10 * f[k - 1] + Digits[s[k]] \in Nat
      BY DEF DigitStep
    <3>1. f[k - 1] \in Nat /\ Digits[s[k]] \in Nat
      <4>1. k - 1 \in 0 .. Len(s) /\ k \in 1 .. Len(s)
        BY <1>0
      <4>. QED BY <4>1
    <3>. DEFINE a == f[k - 1]
                b == Digits[s[k]]
    <3>. HIDE DEF a, b
    <3>2. a \in Nat /\ b \in Nat
      BY <3>1 DEF a, b
    <3>3. 10 * a + b \in Nat
      BY <3>2
    <3>. QED BY <3>3 DEF a, b
  <2>3. g \in [0 .. Len(s) -> Nat]
    BY <2>2
  <2>4. ASSUME NEW k \in 0 .. Len(s), k < n + 1
        PROVE  g[k] = DigitStep(s, g, k)
    <3>1. k # 0 => k - 1 \in 0 .. Len(s) /\ k - 1 # n
      BY <1>0, <2>4
    <3>2. DigitStep(s, g, k) = DigitStep(s, f, k)
      BY <3>1 DEF DigitStep
    <3>3. k # n => k < n
      BY <2>4
    <3>. QED BY <2>1, <3>2, <3>3
  <2>. HIDE DEF g
  <2>5. \E h \in [0 .. Len(s) -> Nat] :
          \A k \in 0 .. Len(s) : k < n + 1 => h[k] = DigitStep(s, h, k)
    BY <2>3, <2>4
  <2>. QED BY <2>5
<1>. HIDE DEF T
<1>3. Len(s) + 1 \in T
  BY <1>0, <1>1, <1>2, SetInduction
<1>4. PICK f \in [0 .. Len(s) -> Nat] :
        \A k \in 0 .. Len(s) : k < Len(s) + 1 => f[k] = DigitStep(s, f, k)
  BY <1>3 DEF T
<1>5. \A k \in 0 .. Len(s) : f[k] = DigitStep(s, f, k)
  BY <1>0, <1>4
<1>6. f = [k \in 0 .. Len(s) |-> DigitStep(s, f, k)]
  BY <1>5
<1>. QED BY <1>6

\* What a string of digits stands for is a number.
LEMMA NumberIsNat ==
    ASSUME NEW C, NEW s \in Seq(C), IsNumber(s)
    PROVE  NumberOf(s) \in Nat
<1>. DEFINE F == CHOOSE f : f = [k \in 0 .. Len(s) |-> DigitStep(s, f, k)]
            T == {n \in Nat : n <= Len(s) => F[n] \in Nat}
<1>1. Len(s) \in Nat /\ DOMAIN s = 1 .. Len(s)
  OBVIOUS
<1>2. \A k \in 1 .. Len(s) : Digits[s[k]] \in Nat
  <2>1. \A d \in DOMAIN Digits : Digits[d] \in 0 .. 9
    BY SourceAssumption
  <2>. QED BY <1>1, <2>1 DEF IsNumber
<1>3. F = [k \in 0 .. Len(s) |-> DigitStep(s, F, k)]
  BY <1>2, NumberExists
<1>4. NumberOf(s) = F[Len(s)]
  BY DEF NumberOf, DigitStep
<1>. HIDE DEF F
<1>5. \A k \in 0 .. Len(s) : F[k] = DigitStep(s, F, k)
  BY <1>3
<1>6. 0 \in T
  BY <1>1, <1>5 DEF DigitStep
<1>7. ASSUME NEW n \in Nat, n \in T
      PROVE  n + 1 \in T
  <2>. SUFFICES ASSUME n + 1 <= Len(s)
                PROVE  F[n + 1] \in Nat
    OBVIOUS
  <2>1. n + 1 \in 0 .. Len(s) /\ n + 1 \in 1 .. Len(s) /\ (n + 1) - 1 = n /\ n + 1 # 0
    BY <1>1
  <2>2. F[n + 1] = 10 * F[n] + Digits[s[n + 1]]
    BY <1>5, <2>1 DEF DigitStep
  <2>3. F[n] \in Nat /\ Digits[s[n + 1]] \in Nat
    BY <1>1, <1>2, <1>7, <2>1
  <2>. DEFINE a == F[n]
              b == Digits[s[n + 1]]
  <2>. HIDE DEF a, b
  <2>4. a \in Nat /\ b \in Nat /\ F[n + 1] = 10 * a + b
    BY <2>2, <2>3 DEF a, b
  <2>. QED BY <2>4
<1>. HIDE DEF T
<1>8. Len(s) \in T
  BY <1>1, <1>6, <1>7, SetInduction
<1>. QED BY <1>1, <1>4, <1>8 DEF T

\* What is parsed: a local source, an error, or a remote one of which the
\* host is a text that is not empty and the port is one.
SpecTyped(sp) ==
    /\ sp.kind \in {"none", "local", "remote", "invalid"}
    /\ sp.kind = "remote" =>
          /\ sp.host # <<>> /\ IsText(sp.host) /\ sp.port \in 0 .. MaxPort
          /\ {"kind", "user", "host", "explicit", "port"} \subseteq DOMAIN sp

\* Whatever its characters, a sequence of them is a text.
LEMMA SeqIsText ==
    ASSUME NEW C, NEW s \in Seq(C)
    PROVE  IsText(s)
<1>1. \A i \in 1 .. Len(s) : s[i] \in Range(s)
  BY DEF Range
<1>2. s = [i \in 1 .. Len(s) |-> s[i]] /\ Len(s) \in Nat
  OBVIOUS
<1>. QED BY <1>1, <1>2 DEF IsText

\* What a remote source is parsed into.
LEMMA RemoteTyped ==
    ASSUME NEW C, NEW s \in Seq(C)
    PROVE  SpecTyped(ParseRemote(s))
<1>. DEFINE tail == IF Has(s, "@") THEN AfterCut(s, "@") ELSE s
            rest == AfterCut(tail, ":")
            port == NumberOf(BeforeCut(rest, ":"))
<1>1. tail \in Seq(C)
  BY CutPieces
<1>2. rest \in Seq(C)
  <2>. HIDE DEF tail
  <2>. QED BY <1>1, CutPieces
<1>3. BeforeCut(rest, ":") \in Seq(C)
  <2>. HIDE DEF rest
  <2>. QED BY <1>2, CutPieces
<1>4. HasPort(rest) => port \in Nat
  <2>. HIDE DEF rest
  <2>. QED BY <1>3, NumberIsNat DEF HasPort
<1>5. MaxPort \in Nat /\ MaxPort >= 22
  BY SourceAssumption
<1>6. SpecTyped(Invalid)
  BY DEF SpecTyped, Invalid
<1>7. CASE ParseRemote(s) = Invalid
  BY <1>6, <1>7
<1>8. CASE ParseRemote(s) # Invalid
  <2>. DEFINE host == BeforeCut(tail, ":")
              thePort == IF HasPort(rest) THEN port ELSE 22
  <2>1. /\ host # <<>> /\ ~(HasPort(rest) /\ port > MaxPort)
        /\ \E user, explicit, path, star :
              ParseRemote(s) = [kind |-> "remote", user |-> user, host |-> host,
                                explicit |-> explicit, port |-> thePort, path |-> path,
                                star |-> star]
    BY <1>8 DEF ParseRemote
  <2>2. host \in Seq(C)
    <3>. HIDE DEF tail
    <3>. QED BY <1>1, CutPieces
  <2>. HIDE DEF host, port, rest, tail
  <2>3. thePort \in 0 .. MaxPort
    BY <1>4, <1>5, <2>1
  <2>4. IsText(host)
    BY <2>2, SeqIsText
  <2>. HIDE DEF thePort
  <2>. QED BY <2>1, <2>3, <2>4 DEF SpecTyped
<1>. QED BY <1>7, <1>8

\* What any source argument is parsed into.
LEMMA SourceTyped ==
    ASSUME NEW C, NEW s \in Seq(C), NEW there
    PROVE  SpecTyped(ParseSource(s, there))
<1>1. SpecTyped(Invalid) /\ SpecTyped(ParseRemote(s))
  BY RemoteTyped DEF SpecTyped, Invalid
<1>2. \A path, star : SpecTyped([kind |-> "local", path |-> path, star |-> star])
  BY DEF SpecTyped
<1>. QED BY <1>1, <1>2 DEF ParseSource

-----------------------------------------------------------------------------
(* Strings that are put together and cut again.                            *)

\* A set of the first numbers that is not empty has a greatest element.
LEMMA GreatestNat ==
    ASSUME NEW n \in Nat, NEW T \in SUBSET (1 .. n), T # {}
    PROVE  Max(T) \in T
<1>. DEFINE U == {n - k : k \in T}
<1>1. U \in SUBSET Nat /\ U # {}
  <2>1. \A k \in T : n - k \in Nat
    OBVIOUS
  <2>. QED BY <2>1
<1>2. PICK u \in U : \A v \in U : u <= v
  <2>. HIDE DEF U
  <2>. QED BY <1>1, LeastNat
<1>3. PICK k \in T : u = n - k
  BY <1>2
<1>4. \A j \in T : k >= j
  <2>. TAKE j \in T
  <2>1. n - j \in U
    OBVIOUS
  <2>2. n - k <= n - j
    BY <1>2, <1>3, <2>1
  <2>3. k \in 1 .. n /\ j \in 1 .. n
    OBVIOUS
  <2>. QED BY <2>2, <2>3
<1>. QED BY <1>4 DEF Max

\* A string put together with a separator, character by character.
LEMMA JoinedAt ==
    ASSUME NEW C, NEW a \in Seq(C), NEW c \in C, NEW b \in Seq(C),
           NEW s, s = Append(a, c) \o b
    PROVE  /\ s \in Seq(C) /\ Len(s) = Len(a) + 1 + Len(b)
           /\ Len(a) \in Nat /\ Len(b) \in Nat
           /\ \A k \in 1 .. Len(a) : s[k] = a[k]
           /\ s[Len(a) + 1] = c
           /\ \A k \in 1 .. Len(b) : s[Len(a) + 1 + k] = b[k]
<1>. DEFINE x == Append(a, c)
            m == Len(a)
            n == Len(b)
<1>1. /\ x \in Seq(C) /\ Len(x) = m + 1 /\ (\A k \in 1 .. m : x[k] = a[k]) /\ x[m + 1] = c
  BY AppendProperties
<1>2. m \in Nat /\ n \in Nat
  OBVIOUS
<1>3. /\ x \o b \in Seq(C) /\ Len(x \o b) = Len(x) + Len(b)
      /\ \A k \in 1 .. Len(x) + Len(b) : (x \o b)[k] = IF k <= Len(x) THEN x[k] ELSE b[k - Len(x)]
  BY <1>1, ConcatProperties
<1>4. /\ s \in Seq(C) /\ Len(s) = (m + 1) + n
      /\ \A k \in 1 .. (m + 1) + n : s[k] = IF k <= m + 1 THEN x[k] ELSE b[k - (m + 1)]
  BY <1>1, <1>3
<1>. HIDE DEF x, m, n
<1>5. \A k \in 1 .. m : s[k] = a[k]
  BY <1>1, <1>2, <1>4
<1>6. s[m + 1] = c
  BY <1>1, <1>2, <1>4
<1>7. ASSUME NEW k \in 1 .. n
      PROVE  s[m + 1 + k] = b[k]
  <2>1. /\ m + 1 + k \in 1 .. (m + 1) + n /\ ~(m + 1 + k <= m + 1)
        /\ (m + 1 + k) - (m + 1) = k
    BY <1>2
  <2>. QED BY <1>4, <2>1
<1>. QED BY <1>2, <1>4, <1>5, <1>6, <1>7 DEF m, n

\* What is in a string put together is in one of its parts.
LEMMA JoinedHas ==
    ASSUME NEW C, NEW a \in Seq(C), NEW c \in C, NEW b \in Seq(C), NEW d
    PROVE  Has(Append(a, c) \o b, d) <=> Has(a, d) \/ c = d \/ Has(b, d)
<1>. DEFINE s == Append(a, c) \o b
            m == Len(a)
            n == Len(b)
<1>1. /\ s \in Seq(C) /\ Len(s) = m + 1 + n /\ m \in Nat /\ n \in Nat
      /\ \A k \in 1 .. m : s[k] = a[k]
      /\ s[m + 1] = c
      /\ \A k \in 1 .. n : s[m + 1 + k] = b[k]
  BY JoinedAt
<1>2. DOMAIN a = 1 .. m /\ DOMAIN b = 1 .. n
  OBVIOUS
<1>. HIDE DEF s, m, n
<1>3. DOMAIN s = 1 .. m + 1 + n
  BY <1>1
<1>4. ASSUME NEW k \in 1 .. m + 1 + n, s[k] = d
      PROVE  Has(a, d) \/ c = d \/ Has(b, d)
  <2>1. CASE k <= m
    BY <1>1, <1>2, <1>4, <2>1 DEF Has
  <2>2. CASE k = m + 1
    BY <1>1, <1>4, <2>2
  <2>3. CASE k > m + 1
    <3>1. k - (m + 1) \in 1 .. n /\ m + 1 + (k - (m + 1)) = k
      BY <1>1, <2>3
    <3>2. b[k - (m + 1)] = d
      BY <1>1, <1>4, <3>1
    <3>. QED BY <1>2, <3>1, <3>2 DEF Has
  <2>. QED BY <1>1, <2>1, <2>2, <2>3
<1>5. Has(a, d) => Has(s, d)
  <2>1. \A k \in 1 .. m : k \in 1 .. m + 1 + n
    BY <1>1
  <2>. QED BY <1>1, <1>2, <1>3, <2>1 DEF Has
<1>6. c = d => Has(s, d)
  <2>1. m + 1 \in 1 .. m + 1 + n
    BY <1>1
  <2>. QED BY <1>1, <1>3, <2>1 DEF Has
<1>7. Has(b, d) => Has(s, d)
  <2>1. \A k \in 1 .. n : m + 1 + k \in 1 .. m + 1 + n
    BY <1>1
  <2>. QED BY <1>1, <1>2, <1>3, <2>1 DEF Has
<1>8. Has(s, d) => Has(a, d) \/ c = d \/ Has(b, d)
  BY <1>3, <1>4 DEF Has
<1>9. Has(s, d) <=> Has(a, d) \/ c = d \/ Has(b, d)
  BY <1>5, <1>6, <1>7, <1>8
<1>. QED BY <1>9 DEF s

\* It is cut where it was put together, when the separator is not before that.
LEMMA JoinedCut ==
    ASSUME NEW C, NEW a \in Seq(C), NEW c \in C, NEW b \in Seq(C), ~Has(a, c)
    PROVE  LET s == Append(a, c) \o b
           IN  Has(s, c) /\ BeforeCut(s, c) = a /\ AfterCut(s, c) = b
<1>. DEFINE s == Append(a, c) \o b
            m == Len(a)
            n == Len(b)
            I == {k \in 1 .. Len(s) : s[k] = c}
<1>1. /\ s \in Seq(C) /\ Len(s) = m + 1 + n /\ m \in Nat /\ n \in Nat
      /\ \A k \in 1 .. m : s[k] = a[k]
      /\ s[m + 1] = c
      /\ \A k \in 1 .. n : s[m + 1 + k] = b[k]
  BY JoinedAt
<1>2. DOMAIN a = 1 .. m
  OBVIOUS
<1>3. CutAt(s, c) = IF I # {} THEN Min(I) ELSE 0
  BY DEF CutAt, SelectInSeq
<1>4. Has(s, c)
  BY JoinedHas
<1>. HIDE DEF s, m, n
<1>5. m + 1 \in I
  BY <1>1
<1>6. \A k \in I : m + 1 <= k /\ k \in Nat
  <2>. TAKE k \in I
  <2>1. k \in 1 .. m + 1 + n /\ s[k] = c
    BY <1>1
  <2>2. ~(k \in 1 .. m)
    BY <1>1, <1>2, <2>1 DEF Has
  <2>. QED BY <1>1, <2>1, <2>2
<1>. HIDE DEF I
<1>7. Min(I) = m + 1
  <2>1. \E x \in I : \A y \in I : x <= y
    BY <1>5, <1>6
  <2>2. Min(I) \in I /\ \A y \in I : Min(I) <= y
    BY <2>1 DEF Min
  <2>3. Min(I) <= m + 1 /\ m + 1 <= Min(I) /\ Min(I) \in Nat
    BY <1>5, <1>6, <2>2
  <2>. QED BY <1>1, <2>3
<1>8. CutAt(s, c) = m + 1
  BY <1>3, <1>5, <1>7
<1>9. BeforeCut(s, c) = a
  <2>1. BeforeCut(s, c) = SubSeq(s, 1, m)
    <3>1. CutAt(s, c) - 1 = m
      BY <1>1, <1>8
    <3>. QED BY <3>1 DEF BeforeCut
  <2>2. m \in 0 .. Len(s)
    BY <1>1
  <2>3. /\ SubSeq(s, 1, m) \in Seq(C) /\ Len(SubSeq(s, 1, m)) = m
        /\ \A k \in 1 .. m : SubSeq(s, 1, m)[k] = s[k]
    BY <1>1, <2>2, Beginning
  <2>4. SubSeq(s, 1, m) = a
    BY <1>1, <2>3, SeqEqual DEF m
  <2>. QED BY <2>1, <2>4
<1>10. AfterCut(s, c) = b
  <2>. DEFINE r == SubSeq(s, m + 2, m + 1 + n)
  <2>1. AfterCut(s, c) = r
    <3>1. m + 1 + 1 = m + 2
      BY <1>1
    <3>. QED BY <1>1, <1>8, <3>1 DEF AfterCut
  <2>2. CASE n = 0
    <3>1. m + 2 > m + 1 + n
      BY <1>1, <2>2
    <3>2. r = <<>>
      BY <1>1, <3>1, SubSeqEmpty
    <3>3. b = <<>>
      BY <2>2 DEF n
    <3>. QED BY <2>1, <3>2, <3>3
  <2>3. CASE n > 0
    <3>1. m + 2 \in 1 .. Len(s) /\ m + 1 + n \in m + 2 .. Len(s)
      BY <1>1, <2>3
    <3>2. /\ r \in Seq(C) /\ Len(r) = (m + 1 + n) - (m + 2) + 1
          /\ \A k \in 1 .. (m + 1 + n) - (m + 2) + 1 : r[k] = s[(m + 2) + k - 1]
      BY <1>1, <3>1, SubSeqProperties
    <3>. HIDE DEF r
    <3>3. (m + 1 + n) - (m + 2) + 1 = n /\ \A k \in 1 .. n : (m + 2) + k - 1 = m + 1 + k
      BY <1>1
    <3>4. Len(r) = n /\ \A k \in 1 .. n : r[k] = b[k]
      BY <1>1, <3>2, <3>3
    <3>5. r = b
      BY <3>2, <3>4, SeqEqual DEF n
    <3>. QED BY <2>1, <3>5
  <2>. QED BY <1>1, <2>2, <2>3
<1>. QED BY <1>4, <1>9, <1>10 DEF s

\* A string ends in /* when its last characters are these.
LEMMA StarIs ==
    ASSUME NEW C, NEW s \in Seq(C)
    PROVE  Star(s) <=> Len(s) >= 2 /\ s[Len(s) - 1] = "/" /\ s[Len(s)] = "*"
<1>. DEFINE n == Len(s)
            r == Reverse(s)
            q == <<"*", "/">>
<1>1. n \in Nat
  OBVIOUS
<1>2. r = [i \in 1 .. n |-> s[(n - i) + 1]]
  BY DEF Reverse
<1>3. Reverse(<<"/", "*">>) = q
  <2>. DEFINE t == <<"/", "*">>
  <2>1. Len(t) = 2 /\ t[1] = "/" /\ t[2] = "*"
    OBVIOUS
  <2>2. Reverse(t) = [i \in 1 .. 2 |-> t[(2 - i) + 1]]
    BY <2>1 DEF Reverse
  <2>. HIDE DEF t
  <2>3. Reverse(t) \in Seq({"/", "*"}) /\ Len(Reverse(t)) = 2
        /\ Reverse(t)[1] = "*" /\ Reverse(t)[2] = "/"
    BY <2>1, <2>2
  <2>4. Reverse(t) = q
    BY <2>3
  <2>. QED BY <2>4 DEF t
<1>4. Star(s) <=> Len(q) <= Len(r) /\ SubSeq(q, 1, Len(q)) = SubSeq(r, 1, Len(q))
  BY <1>3 DEF Star, IsSuffix, IsPrefix
<1>5. Len(q) = 2 /\ SubSeq(q, 1, 2) = q
  <2>1. q \in Seq({"/", "*"}) /\ Len(q) = 2
    OBVIOUS
  <2>. QED BY <2>1, SubSeqFull
<1>. HIDE DEF n
<1>6. \A i \in 1 .. n : (n - i) + 1 \in 1 .. n /\ r[i] = s[(n - i) + 1]
  BY <1>1, <1>2
<1>7. r \in Seq(C) /\ Len(r) = n
  <2>1. \A i \in 1 .. n : s[i] \in C
    BY DEF n
  <2>2. r \in [1 .. n -> C]
    <3>. HIDE DEF r
    <3>. QED BY <1>1, <1>2, <1>6, <2>1
  <2>. HIDE DEF r
  <2>. QED BY <1>1, <2>2
<1>. HIDE DEF r
<1>8. Star(s) <=> 2 <= n /\ q = SubSeq(r, 1, 2)
  BY <1>4, <1>5, <1>7
<1>9. CASE n >= 2
  <2>1. 2 \in 0 .. Len(r) /\ 1 \in 1 .. n /\ 2 \in 1 .. n /\ (n - 1) + 1 = n /\ (n - 2) + 1 = n - 1
    BY <1>1, <1>7, <1>9
  <2>2. /\ SubSeq(r, 1, 2) \in Seq(C) /\ Len(SubSeq(r, 1, 2)) = 2
        /\ SubSeq(r, 1, 2)[1] = r[1] /\ SubSeq(r, 1, 2)[2] = r[2]
    BY <1>7, <2>1, Beginning
  <2>3. r[1] = s[n] /\ r[2] = s[n - 1]
    BY <1>6, <2>1
  <2>4. q = SubSeq(r, 1, 2) <=> s[n] = "*" /\ s[n - 1] = "/"
    BY <2>2, <2>3
  <2>. QED BY <1>8, <1>9, <2>4 DEF n
<1>10. CASE ~(n >= 2)
  BY <1>1, <1>8, <1>10 DEF n
<1>. QED BY <1>9, <1>10

\* Trimming stops at a character that is not trimmed.
LEMMA TrimStops ==
    ASSUME NEW C, NEW s \in Seq(C), s # <<>>, NEW c, s[1] # c
    PROVE  TrimEnd(s, c) \in Seq(C) /\ TrimEnd(s, c) # <<>> /\ TrimEnd(s, c)[1] = s[1]
<1>. DEFINE I == {i \in 1 .. Len(s) : s[i] # c}
            n == Max(I)
<1>1. Len(s) \in Nat /\ Len(s) > 0
  OBVIOUS
<1>2. 1 \in I /\ I \in SUBSET (1 .. Len(s))
  BY <1>1
<1>3. TrimEnd(s, c) = SubSeq(s, 1, IF I # {} THEN Max(I) ELSE 0)
  BY DEF TrimEnd, SelectLastInSeq
<1>. HIDE DEF I
<1>4. n \in I
  BY <1>1, <1>2, GreatestNat
<1>5. TrimEnd(s, c) = SubSeq(s, 1, n)
  BY <1>2, <1>3
<1>. HIDE DEF n
<1>6. n \in 1 .. Len(s) /\ n \in 0 .. Len(s) /\ 1 \in 1 .. n
  BY <1>1, <1>2, <1>4
<1>7. /\ SubSeq(s, 1, n) \in Seq(C) /\ Len(SubSeq(s, 1, n)) = n
      /\ \A k \in 1 .. n : SubSeq(s, 1, n)[k] = s[k]
  BY <1>6, Beginning
<1>. DEFINE t == SubSeq(s, 1, n)
<1>. HIDE DEF t
<1>8. t \in Seq(C) /\ Len(t) = n /\ t[1] = s[1]
  BY <1>6, <1>7 DEF t
<1>9. t # <<>>
  BY <1>6, <1>8
<1>. QED BY <1>5, <1>8, <1>9 DEF t

\* The parts of a written source argument, as strings.
WrittenParts(w, C) ==
    /\ w.user \in Seq(C) /\ w.host \in Seq(C) /\ w.port \in Seq(C) /\ w.path \in Seq(C)
    /\ "@" \in C /\ ":" \in C
    /\ w.user # <<>> => \A i \in DOMAIN w.user : w.user[i] \notin Reserved
    /\ w.host # <<>> /\ \A i \in DOMAIN w.host : w.host[i] \notin Reserved
    /\ w.port # <<>> => IsNumber(w.port)
    /\ w.path # <<>>

\* They are strings over some characters.
LEMMA WrittenAre ==
    ASSUME NEW w \in [kind : {"written"}, user : Users \cup {<<>>}, host : Hosts,
                      port : PortTexts \cup {<<>>}, path : Paths]
    PROVE  \E C : WrittenParts(w, C)
<1>. DEFINE C == Range(w.user) \cup Range(w.host) \cup Range(w.port) \cup Range(w.path)
                 \cup {"@", ":"}
<1>1. \A s : s \in Users \cup Hosts \cup PortTexts \cup Paths => IsText(s)
  BY StartupAssumption
<1>2. IsText(<<>>)
  BY DEF IsText
<1>3. /\ w.user \in Seq(Range(w.user)) /\ w.host \in Seq(Range(w.host))
      /\ w.port \in Seq(Range(w.port)) /\ w.path \in Seq(Range(w.path))
  BY <1>1, <1>2 DEF IsText
<1>4. w.user \in Seq(C) /\ w.host \in Seq(C) /\ w.port \in Seq(C) /\ w.path \in Seq(C)
  BY <1>3
<1>5. "@" \in C /\ ":" \in C
  OBVIOUS
<1>. HIDE DEF C
<1>6. /\ w.user # <<>> => \A i \in DOMAIN w.user : w.user[i] \notin Reserved
      /\ w.host # <<>> /\ \A i \in DOMAIN w.host : w.host[i] \notin Reserved
      /\ w.port # <<>> => IsNumber(w.port)
      /\ w.path # <<>>
  BY WrittenAssumption
<1>7. WrittenParts(w, C)
  BY <1>4, <1>5, <1>6 DEF WrittenParts
<1>. QED BY <1>7

\* What follows the host: the port, if there is one, and the path.
AfterHost(w) == IF w.port = <<>> THEN w.path ELSE Append(w.port, ":") \o w.path

\* What follows the user.
AfterUser(w) == Append(w.host, ":") \o AfterHost(w)

\* What is written, put together from its end.
LEMMA FormatIs ==
    ASSUME NEW C, NEW w, WrittenParts(w, C)
    PROVE  /\ AfterHost(w) \in Seq(C) /\ AfterUser(w) \in Seq(C) /\ Format(w) \in Seq(C)
           /\ Format(w) = IF w.user = <<>> THEN AfterUser(w)
                          ELSE Append(w.user, "@") \o AfterUser(w)
<1>. DEFINE user == IF w.user = <<>> THEN <<>> ELSE Append(w.user, "@")
            host == Append(w.host, ":")
            port == IF w.port = <<>> THEN <<>> ELSE Append(w.port, ":")
            path == w.path
<1>1. user \in Seq(C) /\ host \in Seq(C) /\ port \in Seq(C) /\ path \in Seq(C)
  BY DEF WrittenParts
<1>2. Format(w) = ((user \o host) \o port) \o path
  BY DEF Format
<1>3. \A s \in Seq(C) : <<>> \o s = s
  BY ConcatEmptySeq
<1>4. AfterHost(w) = port \o path
  BY <1>1, <1>3 DEF AfterHost
<1>5. AfterUser(w) = host \o (port \o path)
  BY <1>4 DEF AfterUser
<1>6. w.user = <<>> => user = <<>>
  OBVIOUS
<1>7. w.user # <<>> => user = Append(w.user, "@")
  OBVIOUS
<1>. HIDE DEF user, host, port, path
<1>8. \A s, t, u \in Seq(C) : (s \o t) \o u = s \o (t \o u)
  BY ConcatAssociative
<1>9. user \o host \in Seq(C) /\ port \o path \in Seq(C) /\ host \o (port \o path) \in Seq(C)
  BY <1>1, ConcatProperties
<1>10. ((user \o host) \o port) \o path = user \o (host \o (port \o path))
  <2>1. ((user \o host) \o port) \o path = (user \o host) \o (port \o path)
    <3>. DEFINE front == user \o host
    <3>1. front \in Seq(C)
      BY <1>9
    <3>. HIDE DEF front
    <3>2. (front \o port) \o path = front \o (port \o path)
      BY <1>1, <1>8, <3>1, Zenon
    <3>. QED BY <3>2 DEF front
  <2>2. (user \o host) \o (port \o path) = user \o (host \o (port \o path))
    <3>. DEFINE rest == port \o path
    <3>1. rest \in Seq(C)
      BY <1>9
    <3>. HIDE DEF rest
    <3>2. \A t, u \in Seq(C) : (user \o t) \o u = user \o (t \o u)
      BY <1>1, <1>8
    <3>3. \A u \in Seq(C) : (user \o host) \o u = user \o (host \o u)
      BY <1>1, <3>2
    <3>4. (user \o host) \o rest = user \o (host \o rest)
      BY <3>1, <3>3
    <3>. QED BY <3>4 DEF rest
  <2>. QED BY <2>1, <2>2
<1>11. Format(w) = user \o AfterUser(w)
  BY <1>2, <1>5, <1>10
<1>12. w.user = <<>> => Format(w) = AfterUser(w)
  BY <1>3, <1>5, <1>6, <1>9, <1>11
<1>13. Format(w) \in Seq(C)
  BY <1>1, <1>5, <1>9, <1>11, ConcatProperties
<1>. QED BY <1>4, <1>5, <1>7, <1>9, <1>11, <1>12, <1>13

\* Digits and names have no character with a meaning of its own.
LEMMA NotReserved ==
    ASSUME NEW C, NEW w, WrittenParts(w, C), NEW c \in Reserved
    PROVE  ~Has(w.user, c) /\ ~Has(w.host, c) /\ ~Has(w.port, c)
<1>1. ~Has(<<>>, c)
  BY DEF Has
<1>2. w.user # <<>> => ~Has(w.user, c)
  BY DEF WrittenParts, Has
<1>3. ~Has(w.host, c)
  BY DEF WrittenParts, Has
<1>4. w.port # <<>> => ~Has(w.port, c)
  <2>1. c \notin DOMAIN Digits
    BY WrittenAssumption
  <2>. QED BY <2>1 DEF WrittenParts, IsNumber, Has
<1>. QED BY <1>1, <1>2, <1>3, <1>4

\* What a written source argument has.
LEMMA FormatHas ==
    ASSUME NEW C, NEW w, WrittenParts(w, C), NEW c \in Reserved
    PROVE  /\ Has(AfterHost(w), c) <=> (w.port # <<>> /\ c = ":") \/ Has(w.path, c)
           /\ Has(AfterUser(w), c) <=> c = ":" \/ Has(w.path, c)
           /\ Has(Format(w), c) <=> (w.user # <<>> /\ c = "@") \/ c = ":" \/ Has(w.path, c)
<1>1. /\ w.user \in Seq(C) /\ w.host \in Seq(C) /\ w.port \in Seq(C) /\ w.path \in Seq(C)
      /\ "@" \in C /\ ":" \in C /\ AfterHost(w) \in Seq(C) /\ AfterUser(w) \in Seq(C)
  BY FormatIs DEF WrittenParts
<1>2. ~Has(w.user, c) /\ ~Has(w.host, c) /\ ~Has(w.port, c)
  BY NotReserved
<1>3. Has(AfterHost(w), c) <=> (w.port # <<>> /\ c = ":") \/ Has(w.path, c)
  <2>1. Has(Append(w.port, ":") \o w.path, c) <=> Has(w.port, c) \/ ":" = c \/ Has(w.path, c)
    BY <1>1, JoinedHas
  <2>. QED BY <1>2, <2>1 DEF AfterHost
<1>4. Has(AfterUser(w), c) <=> c = ":" \/ Has(w.path, c)
  <2>1. Has(Append(w.host, ":") \o AfterHost(w), c)
          <=> Has(w.host, c) \/ ":" = c \/ Has(AfterHost(w), c)
    BY <1>1, JoinedHas
  <2>. QED BY <1>2, <1>3, <2>1 DEF AfterUser
<1>5. Has(Format(w), c) <=> (w.user # <<>> /\ c = "@") \/ c = ":" \/ Has(w.path, c)
  <2>1. Has(Append(w.user, "@") \o AfterUser(w), c)
          <=> Has(w.user, c) \/ "@" = c \/ Has(AfterUser(w), c)
    BY <1>1, JoinedHas
  <2>2. CASE w.user = <<>>
    BY <1>4, <2>2, FormatIs
  <2>3. CASE w.user # <<>>
    BY <1>2, <1>4, <2>1, <2>3, FormatIs
  <2>. QED BY <2>2, <2>3
<1>. QED BY <1>3, <1>4, <1>5

\* It begins with a name and what separates it from the rest.
LEMMA FormatBegins ==
    ASSUME NEW C, NEW w, WrittenParts(w, C)
    PROVE  \E first, r \in Seq(C), sep \in {"@", ":"} :
              /\ Format(w) = Append(first, sep) \o r
              /\ first # <<>> /\ \A k \in 1 .. Len(first) : first[k] \notin Reserved
              /\ sep = ":" => w.user = <<>> /\ first = w.host /\ r = AfterHost(w)
<1>1. /\ w.user \in Seq(C) /\ w.host \in Seq(C) /\ AfterHost(w) \in Seq(C) /\ AfterUser(w) \in Seq(C)
  BY FormatIs DEF WrittenParts
<1>2. CASE w.user = <<>>
  <2>1. Format(w) = Append(w.host, ":") \o AfterHost(w)
    BY <1>2, FormatIs DEF AfterUser
  <2>2. w.host # <<>> /\ \A k \in 1 .. Len(w.host) : w.host[k] \notin Reserved
    BY <1>1 DEF WrittenParts
  <2>. QED BY <1>1, <1>2, <2>1, <2>2
<1>3. CASE w.user # <<>>
  <2>1. Format(w) = Append(w.user, "@") \o AfterUser(w)
    BY <1>3, FormatIs
  <2>2. \A k \in 1 .. Len(w.user) : w.user[k] \notin Reserved
    BY <1>1, <1>3 DEF WrittenParts
  <2>. QED BY <1>1, <1>3, <2>1, <2>2
<1>. QED BY <1>2, <1>3

\* It does not look like a local path.
LEMMA NotLocal ==
    ASSUME NEW C, NEW w, WrittenParts(w, C), ~Ambiguous(w)
    PROVE  /\ ~LooksLocal(Format(w))
           /\ Format(w) \in Seq(C) /\ Format(w) # <<>> /\ Format(w)[1] \notin Reserved
<1>. DEFINE s == Format(w)
<1>1. PICK first \in Seq(C), r \in Seq(C), sep \in {"@", ":"} :
          /\ s = Append(first, sep) \o r
          /\ first # <<>> /\ \A k \in 1 .. Len(first) : first[k] \notin Reserved
          /\ sep = ":" => w.user = <<>> /\ first = w.host /\ r = AfterHost(w)
  BY FormatBegins
<1>2. sep \in C
  BY DEF WrittenParts
<1>. DEFINE m == Len(first)
            n == Len(r)
<1>3. /\ s \in Seq(C) /\ Len(s) = m + 1 + n /\ m \in Nat /\ n \in Nat
      /\ \A k \in 1 .. m : s[k] = first[k]
      /\ s[m + 1] = sep
      /\ \A k \in 1 .. n : s[m + 1 + k] = r[k]
  BY <1>1, <1>2, JoinedAt
<1>4. m > 0
  BY <1>1
<1>5. /\ sep \notin {".", "/", "\\"} /\ "/" \in Reserved /\ "\\" \in Reserved /\ "~" \in Reserved
      /\ ":" \in Reserved
  BY DEF Reserved
<1>6. Has(s, ":")
  BY <1>5, FormatHas
<1>. HIDE DEF s
<1>7. s # <<>> /\ s[1] \notin Reserved
  <2>1. 1 \in 1 .. m
    BY <1>3, <1>4
  <2>2. s[1] \notin Reserved
    BY <1>1, <1>3, <2>1
  <2>3. s # <<>>
    BY <1>3, <1>4
  <2>. QED BY <2>2, <2>3
<1>. HIDE DEF m, n
<1>8. s[2] # "/"
  <2>1. 2 \in 1 .. m \/ 2 = m + 1
    BY <1>3, <1>4
  <2>2. CASE 2 \in 1 .. m
    BY <1>1, <1>3, <1>5, <2>2 DEF m
  <2>3. CASE 2 = m + 1
    BY <1>3, <1>5, <2>3
  <2>. QED BY <2>1, <2>2, <2>3
<1>9. ~(s[2] = "." /\ s[3] = "/")
  <2>. SUFFICES ASSUME s[2] = "." PROVE s[3] # "/"
    OBVIOUS
  <2>1. 2 # m + 1
    BY <1>3, <1>5
  <2>2. 3 \in 1 .. m \/ 3 = m + 1
    BY <1>3, <1>4, <2>1
  <2>3. CASE 3 \in 1 .. m
    BY <1>1, <1>3, <1>5, <2>3 DEF m
  <2>4. CASE 3 = m + 1
    BY <1>3, <1>5, <2>4
  <2>. QED BY <2>2, <2>3, <2>4
<1>10. ~(Len(s) >= 3 /\ s[2] = ":" /\ s[3] \in {"\\", "/"})
  <2>. SUFFICES ASSUME Len(s) >= 3, s[2] = ":"
                PROVE  s[3] \notin {"\\", "/"}
    OBVIOUS
  <2>1. m = 1
    <3>1. ~(2 \in 1 .. m)
      BY <1>1, <1>3, <1>5 DEF m
    <3>. QED BY <1>3, <1>4, <3>1
  <2>2. sep = ":" /\ n >= 1 /\ s[3] = r[1]
    <3>1. 2 = m + 1 /\ n >= 1 /\ 1 \in 1 .. n /\ m + 1 + 1 = 3
      BY <1>3, <2>1
    <3>2. s[m + 1 + 1] = r[1]
      BY <1>3, <3>1
    <3>. QED BY <1>3, <3>1, <3>2
  <2>3. w.user = <<>> /\ Len(w.host) = 1 /\ r = AfterHost(w)
    BY <1>1, <2>1, <2>2 DEF m
  <2>4. CASE w.port = <<>>
    <3>1. r = w.path
      BY <2>3, <2>4 DEF AfterHost
    <3>2. w.path[1] \notin {"/", "\\"}
      BY <2>3, <2>4 DEF Ambiguous
    <3>. QED BY <2>2, <3>1, <3>2
  <2>5. CASE w.port # <<>>
    <3>1. r = Append(w.port, ":") \o w.path
      BY <2>3, <2>5 DEF AfterHost
    <3>2. w.port \in Seq(C) /\ w.path \in Seq(C) /\ ":" \in C
      BY DEF WrittenParts
    <3>3. \A k \in 1 .. Len(w.port) : r[k] = w.port[k]
      <4>. DEFINE port == w.port
                  path == w.path
      <4>1. port \in Seq(C) /\ path \in Seq(C) /\ r = Append(port, ":") \o path
        BY <3>1, <3>2
      <4>. HIDE DEF port, path
      <4>2. \A k \in 1 .. Len(port) : r[k] = port[k]
        BY <3>2, <4>1, JoinedAt
      <4>. QED BY <4>2 DEF port
    <3>4. 1 \in 1 .. Len(w.port) /\ 1 \in DOMAIN w.port
      BY <2>5, <3>2
    <3>5. ~Has(w.port, "/") /\ ~Has(w.port, "\\")
      BY <1>5, NotReserved
    <3>6. w.port[1] \notin {"/", "\\"}
      BY <3>4, <3>5 DEF Has
    <3>. QED BY <2>2, <3>1, <3>3, <3>4, <3>6
  <2>. QED BY <2>4, <2>5
<1>11. ~IsPrefix(<<".", "/">>, s) /\ ~IsPrefix(<<".", ".", "/">>, s)
  <2>. DEFINE p == <<".", "/">>
              q == <<".", ".", "/">>
  <2>1. /\ p \in Seq({".", "/"}) /\ Len(p) = 2 /\ p[2] = "/"
        /\ q \in Seq({".", "/"}) /\ Len(q) = 3 /\ q[2] = "." /\ q[3] = "/"
    OBVIOUS
  <2>. HIDE DEF p, q
  <2>2. SubSeq(p, 1, 2) = p /\ SubSeq(q, 1, 3) = q
    BY <2>1, SubSeqFull
  <2>3. ASSUME IsPrefix(p, s) PROVE FALSE
    <3>1. 2 <= Len(s) /\ p = SubSeq(s, 1, 2)
      BY <2>1, <2>2, <2>3 DEF IsPrefix
    <3>2. 2 \in 0 .. Len(s)
      BY <1>3, <3>1
    <3>3. SubSeq(s, 1, 2)[2] = s[2]
      BY <1>3, <3>2, Beginning
    <3>. QED BY <1>8, <2>1, <3>1, <3>3
  <2>4. ASSUME IsPrefix(q, s) PROVE FALSE
    <3>1. 3 <= Len(s) /\ q = SubSeq(s, 1, 3)
      BY <2>1, <2>2, <2>4 DEF IsPrefix
    <3>2. 3 \in 0 .. Len(s)
      BY <1>3, <3>1
    <3>3. SubSeq(s, 1, 3)[2] = s[2] /\ SubSeq(s, 1, 3)[3] = s[3]
      BY <1>3, <3>2, Beginning
    <3>. QED BY <1>9, <2>1, <3>1, <3>3
  <2>. QED BY <2>3, <2>4 DEF p, q
<1>12. ~LooksLocal(s)
  <2>1. s[1] \notin {"/", "~", "\\"}
    BY <1>5, <1>7
  <2>. QED BY <1>6, <1>10, <1>11, <2>1 DEF LooksLocal
<1>. QED BY <1>3, <1>7, <1>12 DEF s

\* It ends in /* when its path does.
LEMMA FormatStar ==
    ASSUME NEW C, NEW w, WrittenParts(w, C)
    PROVE  Star(Format(w)) <=> Star(w.path)
<1>1. /\ w.user \in Seq(C) /\ w.host \in Seq(C) /\ w.port \in Seq(C) /\ w.path \in Seq(C)
      /\ "@" \in C /\ ":" \in C /\ AfterHost(w) \in Seq(C) /\ AfterUser(w) \in Seq(C)
      /\ w.path # <<>>
  BY FormatIs DEF WrittenParts
<1>2. ASSUME NEW a \in Seq(C), NEW c \in C, c # "/", NEW b \in Seq(C), b # <<>>
      PROVE  Star(Append(a, c) \o b) <=> Star(b)
  <2>. DEFINE s == Append(a, c) \o b
              m == Len(a)
              n == Len(b)
  <2>1. /\ s \in Seq(C) /\ Len(s) = m + 1 + n /\ m \in Nat /\ n \in Nat
        /\ s[m + 1] = c
        /\ \A k \in 1 .. n : s[m + 1 + k] = b[k]
    BY JoinedAt
  <2>2. n > 0
    BY <1>2
  <2>. HIDE DEF s
  <2>3. Star(s) <=> Len(s) >= 2 /\ s[Len(s) - 1] = "/" /\ s[Len(s)] = "*"
    BY <2>1, StarIs
  <2>4. Star(b) <=> n >= 2 /\ b[n - 1] = "/" /\ b[n] = "*"
    BY StarIs
  <2>. HIDE DEF m, n
  <2>5. Len(s) = m + 1 + n /\ Len(s) - 1 = m + 1 + (n - 1) /\ Len(s) >= 2
    BY <2>1, <2>2
  <2>6. s[Len(s)] = b[n]
    BY <2>1, <2>2
  <2>7. CASE n >= 2
    <3>1. n - 1 \in 1 .. n
      BY <2>1, <2>7
    <3>2. s[Len(s) - 1] = b[n - 1]
      BY <2>1, <2>5, <3>1
    <3>. QED BY <2>3, <2>4, <2>5, <2>6, <2>7, <3>2 DEF s
  <2>8. CASE n = 1
    <3>1. s[Len(s) - 1] = c
      BY <2>1, <2>5, <2>8
    <3>. QED BY <1>2, <2>3, <2>4, <2>8, <3>1 DEF s
  <2>9. n >= 2 \/ n = 1
    BY <2>1, <2>2
  <2>. QED BY <2>7, <2>8, <2>9
<1>3. Star(AfterHost(w)) <=> Star(w.path)
  <2>1. Star(Append(w.port, ":") \o w.path) <=> Star(w.path)
    BY <1>1, <1>2
  <2>. QED BY <2>1 DEF AfterHost
<1>4. AfterHost(w) # <<>> /\ AfterUser(w) # <<>>
  <2>1. ASSUME NEW a \in Seq(C), NEW b \in Seq(C)
        PROVE  Append(a, ":") \o b # <<>>
    <3>1. /\ Len(Append(a, ":") \o b) = Len(a) + 1 + Len(b)
          /\ Len(a) \in Nat /\ Len(b) \in Nat
      BY <1>1, JoinedAt
    <3>2. Len(Append(a, ":") \o b) # 0
      BY <3>1
    <3>. QED BY <3>2
  <2>. QED BY <1>1, <2>1 DEF AfterHost, AfterUser
<1>5. Star(AfterUser(w)) <=> Star(AfterHost(w))
  BY <1>1, <1>2, <1>4 DEF AfterUser
<1>6. Star(Append(w.user, "@") \o AfterUser(w)) <=> Star(AfterUser(w))
  BY <1>1, <1>2, <1>4
<1>. QED BY <1>3, <1>5, <1>6, FormatIs

\* It is valid as a path when its own path is.
LEMMA FormatValid ==
    ASSUME NEW C, NEW w, WrittenParts(w, C), ~Ambiguous(w)
    PROVE  ValidPath(w.path) => ValidPath(Format(w))
<1>. DEFINE s == Format(w)
<1>1. s \in Seq(C) /\ s # <<>> /\ s[1] \notin Reserved
  BY NotLocal
<1>2. Star(s) <=> Star(w.path)
  BY FormatStar
<1>3. Glob(s) <=> Glob(w.path)
  <2>1. \A c \in {"*", "?", "[", "]"} : Has(s, c) <=> Has(w.path, c)
    <3>1. \A c \in {"*", "?", "[", "]"} : c \in Reserved /\ c # ":" /\ c # "@"
      BY DEF Reserved
    <3>. QED BY <3>1, FormatHas
  <2>. HIDE DEF s
  <2>. QED BY <2>1 DEF Glob
<1>. HIDE DEF s
<1>4. Trimmed(s) # <<>>
  <2>1. s[1] # "*" /\ s[1] # "/"
    BY <1>1 DEF Reserved
  <2>. DEFINE t == TrimEnd(s, "*")
  <2>2. t \in Seq(C) /\ t # <<>> /\ t[1] = s[1]
    BY <1>1, <2>1, TrimStops
  <2>. HIDE DEF t
  <2>3. TrimEnd(t, "/") # <<>>
    BY <2>1, <2>2, TrimStops
  <2>. QED BY <2>3 DEF Trimmed, t
<1>5. ValidPath(w.path) => ValidPath(s)
  BY <1>2, <1>3, <1>4 DEF ValidPath
<1>. QED BY <1>5 DEF s

\* Where a written source argument is cut.
LEMMA FormatCut ==
    ASSUME NEW C, NEW w, WrittenParts(w, C), ~Ambiguous(w)
    PROVE  LET s == Format(w)
               rest == AfterHost(w)
           IN  /\ Has(s, "@") <=> w.user # <<>>
               /\ Has(s, "@") => BeforeCut(s, "@") = w.user /\ AfterCut(s, "@") = AfterUser(w)
               /\ ~Has(s, "@") => s = AfterUser(w)
               /\ Has(AfterUser(w), ":") /\ BeforeCut(AfterUser(w), ":") = w.host
               /\ AfterCut(AfterUser(w), ":") = rest
               /\ HasPort(rest) <=> w.port # <<>>
               /\ HasPort(rest) => BeforeCut(rest, ":") = w.port /\ AfterCut(rest, ":") = w.path
               /\ ~HasPort(rest) => rest = w.path
<1>1. /\ w.user \in Seq(C) /\ w.host \in Seq(C) /\ w.port \in Seq(C) /\ w.path \in Seq(C)
      /\ "@" \in C /\ ":" \in C /\ AfterHost(w) \in Seq(C) /\ AfterUser(w) \in Seq(C)
      /\ w.port # <<>> => IsNumber(w.port)
  BY FormatIs DEF WrittenParts
<1>2. "@" \in Reserved /\ ":" \in Reserved
  BY DEF Reserved
<1>3. /\ ~Has(w.user, "@") /\ ~Has(w.host, ":") /\ ~Has(w.port, ":")
  BY <1>2, NotReserved
<1>4. /\ Has(Format(w), "@") <=> w.user # <<>>
      /\ w.user # <<>> => /\ BeforeCut(Format(w), "@") = w.user
                          /\ AfterCut(Format(w), "@") = AfterUser(w)
      /\ w.user = <<>> => Format(w) = AfterUser(w)
  <2>1. CASE w.user # <<>>
    <3>1. Format(w) = Append(w.user, "@") \o AfterUser(w)
      BY <2>1, FormatIs
    <3>. QED BY <1>1, <1>3, <2>1, <3>1, JoinedCut
  <2>2. CASE w.user = <<>>
    <3>1. Format(w) = AfterUser(w)
      BY <2>2, FormatIs
    <3>2. ~Has(w.path, "@")
      BY <2>2 DEF Ambiguous
    <3>3. ~Has(Format(w), "@")
      BY <1>2, <2>2, <3>2, FormatHas
    <3>. QED BY <2>2, <3>1, <3>3
  <2>. QED BY <2>1, <2>2
<1>5. /\ Has(AfterUser(w), ":") /\ BeforeCut(AfterUser(w), ":") = w.host
      /\ AfterCut(AfterUser(w), ":") = AfterHost(w)
  BY <1>1, <1>3, JoinedCut DEF AfterUser
<1>6. /\ HasPort(AfterHost(w)) <=> w.port # <<>>
      /\ w.port # <<>> => /\ BeforeCut(AfterHost(w), ":") = w.port
                          /\ AfterCut(AfterHost(w), ":") = w.path
      /\ w.port = <<>> => AfterHost(w) = w.path
  <2>1. CASE w.port # <<>>
    <3>1. AfterHost(w) = Append(w.port, ":") \o w.path
      BY <2>1 DEF AfterHost
    <3>2. /\ Has(AfterHost(w), ":") /\ BeforeCut(AfterHost(w), ":") = w.port
          /\ AfterCut(AfterHost(w), ":") = w.path
      BY <1>1, <1>3, <3>1, JoinedCut
    <3>. QED BY <1>1, <2>1, <3>2 DEF HasPort
  <2>2. CASE w.port = <<>>
    <3>1. AfterHost(w) = w.path
      BY <2>2 DEF AfterHost
    <3>2. ~IsNumber(BeforeCut(w.path, ":"))
      BY <2>2 DEF Ambiguous
    <3>. QED BY <2>2, <3>1, <3>2 DEF HasPort
  <2>. QED BY <2>1, <2>2
<1>. QED BY <1>4, <1>5, <1>6

\* A written source argument is read as what it was put together from.
LEMMA WrittenIsRead ==
    ASSUME NEW C, NEW w, WrittenParts(w, C), ~Ambiguous(w)
    PROVE  ParseSource(Format(w), "nothing") =
               IF ~ValidPath(w.path) \/ (w.port # <<>> /\ NumberOf(w.port) > MaxPort)
               THEN Invalid
               ELSE [kind |-> "remote", user |-> w.user, host |-> w.host,
                     explicit |-> w.port # <<>>,
                     port |-> IF w.port = <<>> THEN 22 ELSE NumberOf(w.port),
                     path |-> Normalized(w.path), star |-> Star(w.path)]
<1>. DEFINE s == Format(w)
            tail == AfterUser(w)
            rest == AfterHost(w)
<1>1. /\ Has(s, "@") <=> w.user # <<>>
      /\ Has(s, "@") => BeforeCut(s, "@") = w.user /\ AfterCut(s, "@") = tail
      /\ ~Has(s, "@") => s = tail
      /\ Has(tail, ":") /\ BeforeCut(tail, ":") = w.host
      /\ AfterCut(tail, ":") = rest
      /\ HasPort(rest) <=> w.port # <<>>
      /\ HasPort(rest) => BeforeCut(rest, ":") = w.port /\ AfterCut(rest, ":") = w.path
      /\ ~HasPort(rest) => rest = w.path
  BY FormatCut
<1>2. w.path # <<>> /\ w.host # <<>>
  BY DEF WrittenParts
<1>3. tail # <<>> /\ rest # <<>>
  <2>1. ~Has(<<>>, ":")
    BY DEF Has
  <2>2. Has(rest, ":") \/ rest = w.path
    BY <1>1 DEF HasPort
  <2>. HIDE DEF tail, rest
  <2>. QED BY <1>1, <1>2, <2>1, <2>2
<1>4. ~LooksLocal(s) /\ (ValidPath(w.path) => ValidPath(s))
  BY NotLocal, FormatValid
<1>. DEFINE read == IF ~ValidPath(w.path) \/ (w.port # <<>> /\ NumberOf(w.port) > MaxPort)
                    THEN Invalid
                    ELSE [kind |-> "remote", user |-> w.user, host |-> w.host,
                          explicit |-> w.port # <<>>,
                          port |-> IF w.port = <<>> THEN 22 ELSE NumberOf(w.port),
                          path |-> Normalized(w.path), star |-> Star(w.path)]
<1>. HIDE DEF s, tail, rest
<1>5. ParseRemote(s) = read
  <2>1. (IF Has(s, "@") THEN BeforeCut(s, "@") ELSE <<>>) = w.user
    BY <1>1
  <2>2. (IF Has(s, "@") THEN AfterCut(s, "@") ELSE s) = tail
    BY <1>1
  <2>3. (IF HasPort(rest) THEN AfterCut(rest, ":") ELSE rest) = w.path
    BY <1>1
  <2>4. HasPort(rest) => NumberOf(BeforeCut(rest, ":")) = NumberOf(w.port)
    BY <1>1
  <2>5. HasPort(rest) = (w.port # <<>>)
    BY <1>1 DEF HasPort
  <2>6. ~(Has(s, "@") /\ (w.user = <<>> \/ tail = <<>>))
    BY <1>1, <1>3
  <2>7. CASE ~ValidPath(w.path) \/ (w.port # <<>> /\ NumberOf(w.port) > MaxPort)
    <3>1. ParseRemote(s) = Invalid
      BY <1>1, <2>2, <2>3, <2>4, <2>7 DEF ParseRemote
    <3>. QED BY <2>7, <3>1
  <2>8. CASE ~(~ValidPath(w.path) \/ (w.port # <<>> /\ NumberOf(w.port) > MaxPort))
    <3>1. ~(HasPort(rest) /\ NumberOf(BeforeCut(rest, ":")) > MaxPort)
      BY <1>1, <2>4, <2>8
    <3>2. ParseRemote(s) =
            [kind |-> "remote", user |-> w.user, host |-> w.host, explicit |-> HasPort(rest),
             port |-> IF HasPort(rest) THEN NumberOf(BeforeCut(rest, ":")) ELSE 22,
             path |-> Normalized(w.path), star |-> Star(w.path)]
      BY <1>1, <1>2, <1>3, <2>1, <2>2, <2>3, <2>6, <2>8, <3>1 DEF ParseRemote
    <3>3. (IF HasPort(rest) THEN NumberOf(BeforeCut(rest, ":")) ELSE 22)
            = IF w.port = <<>> THEN 22 ELSE NumberOf(w.port)
      BY <1>1, <2>4
    <3>. QED BY <2>5, <2>8, <3>2, <3>3
  <2>. QED BY <2>7, <2>8
<1>6. CASE ValidPath(s)
  <2>1. ParseSource(s, "nothing") = ParseRemote(s)
    BY <1>4, <1>6 DEF ParseSource
  <2>. QED BY <1>5, <2>1 DEF s
<1>7. CASE ~ValidPath(s)
  <2>1. ParseSource(s, "nothing") = Invalid
    BY <1>7 DEF ParseSource
  <2>2. read = Invalid
    BY <1>4, <1>7
  <2>. QED BY <2>1, <2>2 DEF s
<1>. QED BY <1>6, <1>7

-----------------------------------------------------------------------------
(* Patterns of hosts.                                                      *)

\* One step of what a pattern denotes.
RestStep(p, t, f, pi, ti) ==
    IF pi > Len(p) THEN ti > Len(t)
    ELSE IF p[pi] = "*" THEN \E n \in ti .. Len(t) + 1 : f[pi + 1][n]
    ELSE ti <= Len(t) /\ p[pi] \in {"?", t[ti]} /\ f[pi + 1][ti + 1]

IsRest(p, t, f) ==
    f = [pi \in 1 .. Len(p) + 1 |-> [ti \in 1 .. Len(t) + 1 |-> RestStep(p, t, f, pi, ti)]]

\* Whether the pattern from a position on stands for the text from one on.
Rest(p, t) == CHOOSE f : IsRest(p, t, f)

\* The recursion is one.
LEMMA RestExists ==
    ASSUME NEW C, NEW p \in Seq(C), NEW t \in Seq(C)
    PROVE  \E f : IsRest(p, t, f)
<1>. DEFINE m == Len(p)
            D == 1 .. m + 1
            E == 1 .. Len(t) + 1
            B == [E -> BOOLEAN]
            rank == [pi \in D |-> m + 1 - pi]
            next(f) == [pi \in D |-> [ti \in E |-> RestStep(p, t, f, pi, ti)]]
            step == [f \in [D -> B] |-> next(f)]
<1>1. m \in Nat /\ Len(t) \in Nat
  OBVIOUS
<1>2. rank \in [D -> 0 .. m + 1]
  <2>. HIDE DEF m
  <2>. QED BY <1>1
<1>3. \A f \in [D -> B] : next(f) \in [D -> B]
  <2>. SUFFICES ASSUME NEW f \in [D -> B], NEW pi \in D, NEW ti \in E
                PROVE  RestStep(p, t, f, pi, ti) \in BOOLEAN
    OBVIOUS
  <2>1. CASE pi > Len(p)
    BY <2>1 DEF RestStep
  <2>2. CASE ~(pi > Len(p)) /\ p[pi] = "*"
    BY <2>2 DEF RestStep
  <2>3. CASE ~(pi > Len(p)) /\ p[pi] # "*"
    <3>1. ti > Len(t) \/ ti <= Len(t)
      BY <1>1
    <3>2. CASE ti > Len(t)
      <4>1. ~(ti <= Len(t))
        BY <1>1, <3>2
      <4>. QED BY <2>3, <4>1 DEF RestStep
    <3>3. CASE ti <= Len(t)
      <4>1. pi + 1 \in D /\ ti + 1 \in E
        BY <1>1, <2>3, <3>3
      <4>2. f[pi + 1][ti + 1] \in BOOLEAN
        <5>. HIDE DEF D, E
        <5>. QED BY <4>1
      <4>. QED BY <2>3, <4>2 DEF RestStep
    <3>. QED BY <3>1, <3>2, <3>3
  <2>. QED BY <2>1, <2>2, <2>3
<1>4. step \in [[D -> B] -> [D -> B]]
  <2>. HIDE DEF next, D, B
  <2>. QED BY <1>3
<1>5. ASSUME NEW f \in [D -> B], NEW g \in [D -> B], NEW pi \in D,
             \A y \in D : rank[y] < rank[pi] => f[y] = g[y]
      PROVE  step[f][pi] = step[g][pi]
  <2>1. pi <= m => f[pi + 1] = g[pi + 1]
    <3>. SUFFICES ASSUME pi <= m PROVE f[pi + 1] = g[pi + 1]
      OBVIOUS
    <3>. HIDE DEF m
    <3>1. pi + 1 \in D /\ rank[pi + 1] < rank[pi]
      BY <1>1
    <3>. QED BY <1>5, <3>1
  <2>2. \A ti \in E : RestStep(p, t, f, pi, ti) = RestStep(p, t, g, pi, ti)
    <3>. TAKE ti \in E
    <3>1. pi > Len(p) \/ pi <= m
      BY <1>1
    <3>2. CASE pi > Len(p)
      BY <3>2 DEF RestStep
    <3>3. CASE pi <= m
      <4>1. f[pi + 1] = g[pi + 1]
        BY <2>1, <3>3
      <4>. QED BY <4>1 DEF RestStep
    <3>. QED BY <3>1, <3>2, <3>3
  <2>3. step[f][pi] = [ti \in E |-> RestStep(p, t, f, pi, ti)]
    OBVIOUS
  <2>4. step[g][pi] = [ti \in E |-> RestStep(p, t, g, pi, ti)]
    OBVIOUS
  <2>. QED BY <2>2, <2>3, <2>4
<1>6. [D -> B] # {}
  <2>1. [pi \in D |-> [ti \in E |-> TRUE]] \in [D -> B]
    OBVIOUS
  <2>. QED BY <2>1
<1>7. \A f, g \in [D -> B] : \A x \in D :
         (\A y \in D : rank[y] < rank[x] => f[y] = g[y]) => step[f][x] = step[g][x]
  <2>. HIDE DEF step, rank, D, B
  <2>. QED BY <1>5
<1>8. \E f \in [D -> B] : f = step[f]
  <2>. DEFINE N == m + 1
  <2>1. N \in Nat /\ rank \in [D -> 0 .. N]
    BY <1>1, <1>2
  <2>. HIDE DEF step, rank, D, B, N
  <2>2. Recursion(D, B, N, rank, step)
    BY <1>4, <1>6, <1>7, <2>1 DEF Recursion
  <2>. QED BY <2>2, RecursionExists
<1>9. \E f : f = next(f)
  <2>. HIDE DEF next, D, B
  <2>. QED BY <1>8
<1>. QED BY <1>9 DEF IsRest

\* What a pattern denotes, step by step.
LEMMA RestIs ==
    ASSUME NEW C, NEW p \in Seq(C), NEW t \in Seq(C)
    PROVE  /\ Denotes(p, t) = Rest(p, t)[1][1]
           /\ \A pi \in 1 .. Len(p) + 1 : \A ti \in 1 .. Len(t) + 1 :
                Rest(p, t)[pi][ti] = RestStep(p, t, Rest(p, t), pi, ti)
<1>. DEFINE F == Rest(p, t)
<1>1. IsRest(p, t, F)
  BY RestExists DEF Rest
<1>2. Denotes(p, t) = F[1][1]
  BY DEF Denotes, Rest, IsRest, RestStep
<1>. HIDE DEF F
<1>3. \A pi \in 1 .. Len(p) + 1 :
         F[pi] = [ti \in 1 .. Len(t) + 1 |-> RestStep(p, t, F, pi, ti)]
  BY <1>1 DEF IsRest
<1>4. \A pi \in 1 .. Len(p) + 1 : \A ti \in 1 .. Len(t) + 1 :
         F[pi][ti] = RestStep(p, t, F, pi, ti)
  BY <1>3
<1>. QED BY <1>2, <1>4 DEF F

\* The three ways a scan goes on: a character further, past a *, or back to
\* the last one, which stands for a character more.
Further(s) == [s EXCEPT !.pi = @ + 1, !.ti = @ + 1]
Past(s)    == [s EXCEPT !.pi = @ + 1, !.star = s.pi, !.mark = s.ti]
Back(s)    == [s EXCEPT !.pi = s.star + 1, !.ti = s.mark + 1, !.mark = @ + 1]

\* One step of the loop.
LoopStep(p, t, f, s) ==
    IF s.ti > Len(t) THEN \A k \in s.pi .. Len(p) : p[k] = "*"
    ELSE IF s.pi <= Len(p) /\ p[s.pi] \in {"?", t[s.ti]} THEN f[Further(s)]
    ELSE IF s.pi <= Len(p) /\ p[s.pi] = "*" THEN f[Past(s)]
    ELSE s.star # 0 /\ f[Back(s)]

Loop(p, t) == CHOOSE f : f = [s \in Scans(p, t) |-> LoopStep(p, t, f, s)]

\* A scan that goes on is one, and nearer to its end: the mark is further,
\* or the position in the pattern is.
Nearer(r, s) == s.mark < r.mark \/ (s.mark = r.mark /\ s.pi < r.pi)

\* Each way to go on leads to one.
LEMMA ScanGoesOn ==
    ASSUME NEW C, NEW p \in Seq(C), NEW t \in Seq(C), NEW s \in Scans(p, t), s.ti <= Len(t)
    PROVE  /\ s.pi <= Len(p) => /\ Further(s) \in Scans(p, t) /\ Nearer(Further(s), s)
                                /\ Past(s) \in Scans(p, t) /\ Nearer(Past(s), s)
           /\ Back(s) \in Scans(p, t) /\ Nearer(Back(s), s)
<1>. DEFINE m == Len(p)
            n == Len(t)
<1>1. m \in Nat /\ n \in Nat
  OBVIOUS
<1>. HIDE DEF m, n
<1>2. /\ s \in [pi : 1 .. m + 1, ti : 1 .. n + 1, star : 0 .. m, mark : 1 .. n + 1]
      /\ s.mark <= s.ti /\ s.ti <= n
  BY DEF Scans, m, n
<1>3. /\ s.pi \in 1 .. m + 1 /\ s.ti \in 1 .. n + 1 /\ s.star \in 0 .. m /\ s.mark \in 1 .. n + 1
  BY <1>2
<1>4. ASSUME s.pi <= m
      PROVE  /\ Further(s) \in Scans(p, t) /\ Nearer(Further(s), s)
             /\ Past(s) \in Scans(p, t) /\ Nearer(Past(s), s)
  <2>1. s.pi + 1 \in 1 .. m + 1 /\ s.ti + 1 \in 1 .. n + 1 /\ s.pi \in 0 .. m
    BY <1>1, <1>2, <1>3, <1>4
  <2>2. /\ Further(s) \in [pi : 1 .. m + 1, ti : 1 .. n + 1, star : 0 .. m, mark : 1 .. n + 1]
        /\ Further(s).pi = s.pi + 1 /\ Further(s).ti = s.ti + 1 /\ Further(s).mark = s.mark
    BY <1>2, <2>1 DEF Further
  <2>3. /\ Past(s) \in [pi : 1 .. m + 1, ti : 1 .. n + 1, star : 0 .. m, mark : 1 .. n + 1]
        /\ Past(s).pi = s.pi + 1 /\ Past(s).ti = s.ti /\ Past(s).mark = s.ti
    BY <1>2, <2>1 DEF Past
  <2>4. Further(s) \in Scans(p, t) /\ Nearer(Further(s), s)
    <3>1. s.mark <= s.ti + 1 /\ s.pi < s.pi + 1
      BY <1>2, <1>3
    <3>. QED BY <2>2, <3>1 DEF Scans, Nearer, m, n
  <2>5. Past(s) \in Scans(p, t) /\ Nearer(Past(s), s)
    <3>1. s.ti <= s.ti /\ s.pi < s.pi + 1 /\ (s.mark < s.ti \/ s.mark = s.ti)
      BY <1>2, <1>3
    <3>. QED BY <2>3, <3>1 DEF Scans, Nearer, m, n
  <2>. QED BY <2>4, <2>5
<1>5. Back(s) \in Scans(p, t) /\ Nearer(Back(s), s)
  <2>1. s.star + 1 \in 1 .. m + 1 /\ s.mark + 1 \in 1 .. n + 1
    BY <1>1, <1>2, <1>3
  <2>2. /\ Back(s) \in [pi : 1 .. m + 1, ti : 1 .. n + 1, star : 0 .. m, mark : 1 .. n + 1]
        /\ Back(s).ti = s.mark + 1 /\ Back(s).mark = s.mark + 1
    BY <1>2, <2>1 DEF Back
  <2>3. s.mark + 1 <= s.mark + 1 /\ s.mark < s.mark + 1
    BY <1>3
  <2>. QED BY <2>2, <2>3 DEF Scans, Nearer, m, n
<1>. QED BY <1>4, <1>5 DEF m

\* What is before in the order of the places is less as a number, too.
LEMMA OrderIsLess ==
    ASSUME NEW a \in Nat, NEW b \in Nat, NEW c \in Nat, NEW d \in Nat, NEW w \in Nat, c < w,
           a < b \/ (a = b /\ c < d)
    PROVE  a * w + c < b * w + d
<1>1. CASE a = b /\ c < d
  <2>. DEFINE x == a * w
  <2>1. x \in Nat
    OBVIOUS
  <2>. HIDE DEF x
  <2>2. x + c < x + d
    BY <1>1, <2>1
  <2>. QED BY <1>1, <2>2 DEF x
<1>2. CASE a < b
  <2>. DEFINE k == b - a - 1
              x == a * w
              y == k * w
  <2>1. k \in Nat /\ b = a + 1 + k
    BY <1>2
  <2>2. x \in Nat /\ y \in Nat
    <3>. HIDE DEF k
    <3>. QED BY <2>1
  <2>3. b * w = x + w + y
    <3>. HIDE DEF k
    <3>1. b * w = (a + 1 + k) * w
      BY <2>1
    <3>2. (a + 1 + k) * w = a * w + w + k * w
      BY <2>1
    <3>. QED BY <3>1, <3>2
  <2>. HIDE DEF x, y
  <2>4. x + c < b * w + d
    BY <2>2, <2>3
  <2>. QED BY <2>4 DEF x
<1>. QED BY <1>1, <1>2

\* How far a scan is from its end.
Distance(p, t, s) == (Len(t) + 1 - s.mark) * (Len(p) + 2) + (Len(p) + 1 - s.pi)

\* The nearer one is, the less.
LEMMA NearerIsLess ==
    ASSUME NEW C, NEW p \in Seq(C), NEW t \in Seq(C), NEW s \in Scans(p, t)
    PROVE  /\ Distance(p, t, s) \in 0 .. (Len(t) + 1) * (Len(p) + 2)
           /\ \A r \in Scans(p, t) : Nearer(r, s) => Distance(p, t, r) < Distance(p, t, s)
<1>. DEFINE m == Len(p)
            n == Len(t)
            w == m + 2
<1>1. m \in Nat /\ n \in Nat /\ w \in Nat
  OBVIOUS
<1>2. \A r \in Scans(p, t) :
        /\ r.pi \in 1 .. m + 1 /\ r.mark \in 1 .. n + 1
        /\ Distance(p, t, r) = (n + 1 - r.mark) * w + (m + 1 - r.pi)
  BY DEF Scans, Distance
<1>. HIDE DEF m, n
<1>3. \A r \in Scans(p, t) :
        /\ n + 1 - r.mark \in Nat /\ n + 1 - r.mark < n + 1
        /\ m + 1 - r.pi \in Nat /\ m + 1 - r.pi < w
  <2>. TAKE r \in Scans(p, t)
  <2>. DEFINE x == r.pi
              y == r.mark
  <2>1. x \in 1 .. m + 1 /\ y \in 1 .. n + 1
    BY <1>2
  <2>. HIDE DEF x, y
  <2>2. n + 1 - y \in Nat /\ n + 1 - y < n + 1 /\ m + 1 - x \in Nat /\ m + 1 - x < w
    BY <1>1, <2>1
  <2>. QED BY <2>2 DEF x, y
<1>4. Distance(p, t, s) \in 0 .. (n + 1) * w
  <2>. DEFINE a == n + 1 - s.mark
              c == m + 1 - s.pi
  <2>1. a \in Nat /\ c \in Nat /\ c < w /\ a < n + 1 /\ n + 1 \in Nat
    BY <1>1, <1>3
  <2>. HIDE DEF a, c, w
  <2>2. a * w + c < (n + 1) * w + 0
    BY <1>1, <2>1, OrderIsLess
  <2>3. a * w + c \in Nat /\ (n + 1) * w \in Nat
    BY <1>1, <2>1
  <2>4. a * w + c \in 0 .. (n + 1) * w
    BY <2>2, <2>3
  <2>. QED BY <1>2, <2>4 DEF a, c
<1>5. ASSUME NEW r \in Scans(p, t), Nearer(r, s)
      PROVE  Distance(p, t, r) < Distance(p, t, s)
  <2>. DEFINE a == n + 1 - r.mark
              c == m + 1 - r.pi
              b == n + 1 - s.mark
              d == m + 1 - s.pi
  <2>1. a \in Nat /\ c \in Nat /\ b \in Nat /\ d \in Nat /\ c < w
    BY <1>3
  <2>2. a < b \/ (a = b /\ c < d)
    <3>1. r.pi \in 1 .. m + 1 /\ r.mark \in 1 .. n + 1
      BY <1>2
    <3>2. s.pi \in 1 .. m + 1 /\ s.mark \in 1 .. n + 1
      BY <1>2
    <3>. DEFINE u == r.mark
                v == s.mark
                x == r.pi
                y == s.pi
    <3>3. v < u \/ (v = u /\ y < x)
      BY <1>5 DEF Nearer
    <3>. HIDE DEF u, v, x, y
    <3>4. u \in 1 .. n + 1 /\ v \in 1 .. n + 1 /\ x \in 1 .. m + 1 /\ y \in 1 .. m + 1
      BY <3>1, <3>2 DEF u, v, x, y
    <3>5. n + 1 - u < n + 1 - v \/ (n + 1 - u = n + 1 - v /\ m + 1 - x < m + 1 - y)
      BY <1>1, <3>3, <3>4
    <3>. QED BY <3>5 DEF u, v, x, y
  <2>. HIDE DEF a, b, c, d, w
  <2>3. a * w + c < b * w + d
    BY <1>1, <2>1, <2>2, OrderIsLess
  <2>. QED BY <1>2, <2>3 DEF a, b, c, d
<1>. QED BY <1>4, <1>5 DEF m, n

\* The recursion is one.
LEMMA LoopExists ==
    ASSUME NEW C, NEW p \in Seq(C), NEW t \in Seq(C)
    PROVE  \E f : f = [s \in Scans(p, t) |-> LoopStep(p, t, f, s)]
<1>. DEFINE D == Scans(p, t)
            N == (Len(t) + 1) * (Len(p) + 2)
            rank == [s \in D |-> Distance(p, t, s)]
            next(f) == [s \in D |-> LoopStep(p, t, f, s)]
            step == [f \in [D -> BOOLEAN] |-> next(f)]
<1>1. Len(p) \in Nat /\ Len(t) \in Nat
  OBVIOUS
<1>2. N \in Nat
  <2>. DEFINE a == Len(t) + 1
              b == Len(p) + 2
  <2>1. a \in Nat /\ b \in Nat
    BY <1>1
  <2>. HIDE DEF a, b
  <2>2. a * b \in Nat
    BY <2>1
  <2>. QED BY <2>2 DEF a, b
<1>3. rank \in [D -> 0 .. N]
  <2>. HIDE DEF D
  <2>1. \A s \in D : Distance(p, t, s) \in 0 .. N
    BY NearerIsLess DEF D
  <2>. HIDE DEF N
  <2>. QED BY <2>1
<1>4. \A f \in [D -> BOOLEAN] : \A s \in D : LoopStep(p, t, f, s) \in BOOLEAN
  <2>. SUFFICES ASSUME NEW f \in [D -> BOOLEAN], NEW s \in D
                PROVE  LoopStep(p, t, f, s) \in BOOLEAN
    OBVIOUS
  <2>1. s.ti > Len(t) \/ s.ti <= Len(t)
    <3>1. s.ti \in 1 .. Len(t) + 1
      BY DEF Scans
    <3>. QED BY <1>1, <3>1
  <2>2. CASE s.ti > Len(t)
    BY <2>2 DEF LoopStep
  <2>3. CASE s.ti <= Len(t)
    <3>1. /\ s.pi <= Len(p) => Further(s) \in D /\ Past(s) \in D
          /\ Back(s) \in D
      BY <2>3, ScanGoesOn
    <3>2. /\ s.pi <= Len(p) => f[Further(s)] \in BOOLEAN /\ f[Past(s)] \in BOOLEAN
          /\ f[Back(s)] \in BOOLEAN
      BY <3>1
    <3>. QED BY <2>3, <3>2 DEF LoopStep
  <2>. QED BY <2>1, <2>2, <2>3
<1>5. step \in [[D -> BOOLEAN] -> [D -> BOOLEAN]]
  <2>. HIDE DEF D
  <2>1. \A f \in [D -> BOOLEAN] : next(f) \in [D -> BOOLEAN]
    BY <1>4
  <2>. HIDE DEF next
  <2>. QED BY <2>1
<1>6. ASSUME NEW f \in [D -> BOOLEAN], NEW g \in [D -> BOOLEAN], NEW s \in D,
             \A y \in D : rank[y] < rank[s] => f[y] = g[y]
      PROVE  step[f][s] = step[g][s]
  <2>1. LoopStep(p, t, f, s) = LoopStep(p, t, g, s)
    <3>1. s.ti > Len(t) \/ s.ti <= Len(t)
      <4>1. s.ti \in 1 .. Len(t) + 1
        BY DEF Scans
      <4>. QED BY <1>1, <4>1
    <3>2. CASE s.ti > Len(t)
      BY <3>2 DEF LoopStep
    <3>3. CASE s.ti <= Len(t)
      <4>1. \A y \in D : Nearer(y, s) => f[y] = g[y]
        <5>1. \A y \in D : Nearer(y, s) => Distance(p, t, y) < Distance(p, t, s)
          BY NearerIsLess
        <5>2. \A y \in D : rank[y] = Distance(p, t, y)
          OBVIOUS
        <5>. HIDE DEF rank, D
        <5>. QED BY <1>6, <5>1, <5>2
      <4>2. /\ s.pi <= Len(p) => /\ Further(s) \in D /\ Nearer(Further(s), s)
                                 /\ Past(s) \in D /\ Nearer(Past(s), s)
            /\ Back(s) \in D /\ Nearer(Back(s), s)
        BY <3>3, ScanGoesOn
      <4>. HIDE DEF D
      <4>3. /\ s.pi <= Len(p) => f[Further(s)] = g[Further(s)] /\ f[Past(s)] = g[Past(s)]
            /\ f[Back(s)] = g[Back(s)]
        BY <4>1, <4>2
      <4>. QED BY <4>3 DEF LoopStep
    <3>. QED BY <3>1, <3>2, <3>3
  <2>. HIDE DEF D
  <2>2. step[f][s] = LoopStep(p, t, f, s) /\ step[g][s] = LoopStep(p, t, g, s)
    OBVIOUS
  <2>. QED BY <2>1, <2>2
<1>7. [D -> BOOLEAN] # {}
  <2>. HIDE DEF D
  <2>1. [s \in D |-> TRUE] \in [D -> BOOLEAN]
    OBVIOUS
  <2>. QED BY <2>1
<1>8. \E f \in [D -> BOOLEAN] : f = step[f]
  <2>. DEFINE B == BOOLEAN
  <2>. HIDE DEF step, rank, D, N
  <2>1. Recursion(D, B, N, rank, step)
    <3>1. \A f, g \in [D -> B] : \A x \in D :
             (\A y \in D : rank[y] < rank[x] => f[y] = g[y]) => step[f][x] = step[g][x]
      BY <1>6
    <3>2. step \in [[D -> B] -> [D -> B]] /\ [D -> B] # {}
      BY <1>5, <1>7
    <3>. HIDE DEF B
    <3>. QED BY <1>2, <1>3, <3>1, <3>2 DEF Recursion
  <2>. HIDE DEF B
  <2>2. \E f \in [D -> B] : f = step[f]
    BY <2>1, RecursionExists
  <2>. QED BY <2>2 DEF B
<1>9. \E f : f = next(f)
  <2>. HIDE DEF next, D
  <2>. QED BY <1>8
<1>. QED BY <1>9

\* glob_match, step by step.
LEMMA LoopIs ==
    ASSUME NEW C, NEW p \in Seq(C), NEW t \in Seq(C)
    PROVE  /\ GlobMatch(p, t) = Loop(p, t)[[pi |-> 1, ti |-> 1, star |-> 0, mark |-> 1]]
           /\ \A s \in Scans(p, t) : Loop(p, t)[s] = LoopStep(p, t, Loop(p, t), s)
<1>. DEFINE F == Loop(p, t)
<1>1. F = [s \in Scans(p, t) |-> LoopStep(p, t, F, s)]
  BY LoopExists DEF Loop
<1>2. GlobMatch(p, t) = F[[pi |-> 1, ti |-> 1, star |-> 0, mark |-> 1]]
  BY DEF GlobMatch, Loop, LoopStep, Further, Past, Back
<1>. HIDE DEF F
<1>3. \A s \in Scans(p, t) : F[s] = LoopStep(p, t, F, s)
  BY <1>1
<1>. QED BY <1>2, <1>3 DEF F


\* Where the rest of a pattern is denoted, by what stands at its beginning.
LEMMA RestAt ==
    ASSUME NEW C, NEW p \in Seq(C), NEW t \in Seq(C), NEW ti \in 1 .. Len(t) + 1
    PROVE  /\ Rest(p, t)[Len(p) + 1][ti] <=> ti = Len(t) + 1
           /\ \A pi \in 1 .. Len(p) :
                /\ p[pi] = "*" => (Rest(p, t)[pi][ti] <=> \E k \in ti .. Len(t) + 1 : Rest(p, t)[pi + 1][k])
                /\ p[pi] # "*" => (Rest(p, t)[pi][ti] <=> /\ ti <= Len(t)
                                                          /\ p[pi] \in {"?", t[ti]}
                                                          /\ Rest(p, t)[pi + 1][ti + 1])
<1>. DEFINE R == Rest(p, t)
            m == Len(p)
            n == Len(t)
<1>1. m \in Nat /\ n \in Nat
  OBVIOUS
<1>2. \A pi \in 1 .. m + 1 : R[pi][ti] = RestStep(p, t, R, pi, ti)
  BY RestIs
<1>. HIDE DEF R
<1>3. R[m + 1][ti] <=> ti = n + 1
  <2>1. m + 1 \in 1 .. m + 1 /\ m + 1 > m
    BY <1>1
  <2>2. R[m + 1][ti] = (ti > n)
    BY <1>2, <2>1 DEF RestStep
  <2>3. ti > n <=> ti = n + 1
    BY <1>1
  <2>. QED BY <2>2, <2>3
<1>4. ASSUME NEW pi \in 1 .. m
      PROVE  /\ p[pi] = "*" => (R[pi][ti] <=> \E k \in ti .. n + 1 : R[pi + 1][k])
             /\ p[pi] # "*" => (R[pi][ti] <=> ti <= n /\ p[pi] \in {"?", t[ti]} /\ R[pi + 1][ti + 1])
  <2>1. pi \in 1 .. m + 1 /\ ~(pi > m)
    BY <1>1
  <2>2. R[pi][ti] = RestStep(p, t, R, pi, ti)
    BY <1>2, <2>1
  <2>3. CASE p[pi] = "*"
    <3>1. RestStep(p, t, R, pi, ti) <=> \E k \in ti .. n + 1 : R[pi + 1][k]
      BY <2>1, <2>3 DEF RestStep
    <3>. QED BY <2>2, <2>3, <3>1
  <2>4. CASE p[pi] # "*"
    <3>1. RestStep(p, t, R, pi, ti) <=> ti <= n /\ p[pi] \in {"?", t[ti]} /\ R[pi + 1][ti + 1]
      BY <2>1, <2>4 DEF RestStep
    <3>. QED BY <2>2, <2>4, <3>1
  <2>. QED BY <2>3, <2>4
<1>. QED BY <1>3, <1>4 DEF R

\* What has no * stands for as many characters as it has.
LEMMA Segment ==
    ASSUME NEW C, NEW p \in Seq(C), NEW t \in Seq(C),
           NEW a \in 1 .. Len(p) + 1, NEW k \in 1 .. Len(t) + 1, NEW d \in Nat,
           a + d <= Len(p) + 1, \A j \in a .. a + d - 1 : p[j] # "*", Rest(p, t)[a][k]
    PROVE  k + d <= Len(t) + 1 /\ Rest(p, t)[a + d][k + d]
<1>. DEFINE R == Rest(p, t)
            m == Len(p)
            n == Len(t)
            T == {e \in Nat : e <= d => k + e <= n + 1 /\ R[a + e][k + e]}
<1>1. m \in Nat /\ n \in Nat /\ a \in Nat /\ k \in Nat
  OBVIOUS
<1>2. 0 \in T
  <2>1. a + 0 = a /\ k + 0 = k /\ k <= n + 1
    BY <1>1
  <2>. HIDE DEF R, n
  <2>2. R[a][k]
    BY DEF R
  <2>. QED BY <2>1, <2>2
<1>3. ASSUME NEW e \in Nat, e \in T
      PROVE  e + 1 \in T
  <2>. SUFFICES ASSUME e + 1 <= d
                PROVE  k + (e + 1) <= n + 1 /\ R[a + (e + 1)][k + (e + 1)]
    OBVIOUS
  <2>1. k + e <= n + 1 /\ R[a + e][k + e]
    <3>1. e <= d
      OBVIOUS
    <3>. HIDE DEF R, n
    <3>. QED BY <1>3, <3>1
  <2>2. a + e \in 1 .. m /\ k + e \in 1 .. n + 1 /\ a + e \in a .. a + d - 1
    <3>. HIDE DEF R
    <3>. QED BY <1>1, <2>1
  <2>3. p[a + e] # "*"
    BY <2>2
  <2>. DEFINE pi == a + e
              ti == k + e
  <2>4. /\ pi \in 1 .. m /\ ti \in 1 .. n + 1 /\ p[pi] # "*" /\ R[pi][ti]
        /\ a + (e + 1) = pi + 1 /\ k + (e + 1) = ti + 1
    <3>. HIDE DEF R, m, n
    <3>. QED BY <1>1, <2>1, <2>2, <2>3
  <2>. HIDE DEF pi, ti
  <2>5. ti <= n /\ R[pi + 1][ti + 1]
    BY <2>4, RestAt
  <2>6. ti + 1 <= n + 1
    BY <1>1, <2>4, <2>5
  <2>. DEFINE x == a + (e + 1)
              y == k + (e + 1)
  <2>7. x = pi + 1 /\ y = ti + 1
    BY <2>4
  <2>. HIDE DEF R, n, x, y
  <2>8. y <= n + 1 /\ R[x][y]
    BY <2>5, <2>6, <2>7
  <2>. QED BY <2>8 DEF x, y
<1>. HIDE DEF T
<1>4. d \in T
  BY <1>2, <1>3, SetInduction
<1>. QED BY <1>4 DEF T

\* What stands for nothing is made of *.
LEMMA AtEnd ==
    ASSUME NEW C, NEW p \in Seq(C), NEW t \in Seq(C), NEW pi \in 1 .. Len(p) + 1
    PROVE  Rest(p, t)[pi][Len(t) + 1] <=> \A k \in pi .. Len(p) : p[k] = "*"
<1>. DEFINE R == Rest(p, t)
            m == Len(p)
            n == Len(t)
            Stars(i) == \A k \in i .. m : p[k] = "*"
            T == {e \in Nat : e <= m => (R[m + 1 - e][n + 1] <=> Stars(m + 1 - e))}
<1>1. m \in Nat /\ n \in Nat /\ n + 1 \in 1 .. n + 1
  OBVIOUS
<1>2. 0 \in T
  <2>1. R[m + 1][n + 1]
    BY <1>1, RestAt
  <2>2. Stars(m + 1) /\ m + 1 - 0 = m + 1
    BY <1>1
  <2>. HIDE DEF R, m, n, Stars
  <2>. QED BY <2>1, <2>2
<1>3. ASSUME NEW e \in Nat, e \in T
      PROVE  e + 1 \in T
  <2>. SUFFICES ASSUME e + 1 <= m
                PROVE  R[m + 1 - (e + 1)][n + 1] <=> Stars(m + 1 - (e + 1))
    <3>. HIDE DEF R, m, n, Stars
    <3>. QED OBVIOUS
  <2>. DEFINE i == m - e
  <2>1. i \in 1 .. m /\ m + 1 - (e + 1) = i /\ m + 1 - e = i + 1 /\ e <= m
    BY <1>1
  <2>2. R[i + 1][n + 1] <=> Stars(i + 1)
    <3>. HIDE DEF R, n, m, Stars, i
    <3>. QED BY <1>3, <2>1
  <2>. HIDE DEF i
  <2>3. CASE p[i] = "*"
    <3>1. R[i][n + 1] <=> \E k \in n + 1 .. n + 1 : R[i + 1][k]
      <4>. DEFINE ti == n + 1
      <4>1. ti \in 1 .. n + 1
        BY <1>1
      <4>. HIDE DEF ti
      <4>2. R[i][ti] <=> \E k \in ti .. n + 1 : R[i + 1][k]
        BY <2>1, <2>3, <4>1, RestAt
      <4>. QED BY <4>2 DEF ti
    <3>2. \A k \in n + 1 .. n + 1 : k = n + 1
      BY <1>1
    <3>3. R[i][n + 1] <=> R[i + 1][n + 1]
      <4>. HIDE DEF R, n
      <4>. QED BY <1>1, <3>1, <3>2
    <3>4. Stars(i) <=> Stars(i + 1)
      <4>1. \A k \in i .. m : k = i \/ k \in i + 1 .. m
        BY <2>1
      <4>2. \A k \in i + 1 .. m : k \in i .. m
        BY <2>1
      <4>. HIDE DEF m
      <4>. QED BY <2>3, <4>1, <4>2
    <3>. HIDE DEF R, n, m, Stars
    <3>. QED BY <2>1, <2>2, <3>3, <3>4
  <2>4. CASE p[i] # "*"
    <3>1. ~R[i][n + 1]
      <4>. DEFINE ti == n + 1
      <4>1. ~(ti <= n) /\ ti \in 1 .. n + 1
        BY <1>1
      <4>. HIDE DEF ti
      <4>2. ~R[i][ti]
        BY <2>1, <2>4, <4>1, RestAt
      <4>. QED BY <4>2 DEF ti
    <3>2. ~Stars(i)
      <4>1. i \in i .. m
        BY <2>1
      <4>. HIDE DEF m
      <4>. QED BY <2>4, <4>1
    <3>. HIDE DEF R, n, m, Stars
    <3>. QED BY <2>1, <3>1, <3>2
  <2>. QED BY <2>3, <2>4
<1>. DEFINE e == m + 1 - pi
<1>4. e \in Nat /\ e <= m /\ m + 1 - e = pi
  BY <1>1
<1>5. Nat \subseteq T
  <2>. HIDE DEF T
  <2>. QED BY <1>2, <1>3, SetInduction
<1>6. e \in T
  <2>. HIDE DEF T, e
  <2>. QED BY <1>4, <1>5
<1>7. R[pi][n + 1] <=> Stars(pi)
  <2>. HIDE DEF R, n, m, Stars, e
  <2>. QED BY <1>4, <1>6
<1>. QED BY <1>7

\* What the loop knows: what the last * stands for ends at mark, and there is
\* no other * up to where it is.
Fits(p, pi, ti, star, mark) ==
    star # 0 => /\ star < pi
                /\ p[star] = "*"
                /\ pi - star - 1 = ti - mark
                /\ \A j \in star + 1 .. pi - 1 : p[j] # "*"

ScanFits(p, s) == Fits(p, s.pi, s.ti, s.star, s.mark)

\* Whether it finds what it looks for: from where it is, or when the last *
\* stands for more.
Found(p, t, s) ==
    \/ Rest(p, t)[s.pi][s.ti]
    \/ s.star # 0 /\ \E k \in s.mark + 1 .. Len(t) + 1 : Rest(p, t)[s.star + 1][k]

\* Where a scan is.
LEMMA ScanTypes ==
    ASSUME NEW C, NEW p \in Seq(C), NEW t \in Seq(C), NEW s \in Scans(p, t)
    PROVE  /\ s.pi \in 1 .. Len(p) + 1 /\ s.ti \in 1 .. Len(t) + 1
           /\ s.star \in 0 .. Len(p) /\ s.mark \in 1 .. Len(t) + 1 /\ s.mark <= s.ti
           /\ s.pi \in Nat /\ s.ti \in Nat /\ s.star \in Nat /\ s.mark \in Nat
           /\ Len(p) \in Nat /\ Len(t) \in Nat
<1>1. Len(p) \in Nat /\ Len(t) \in Nat
  OBVIOUS
<1>2. /\ s.pi \in 1 .. Len(p) + 1 /\ s.ti \in 1 .. Len(t) + 1
      /\ s.star \in 0 .. Len(p) /\ s.mark \in 1 .. Len(t) + 1 /\ s.mark <= s.ti
  BY DEF Scans
<1>. QED BY <1>1, <1>2

\* If the last * stands for more, what follows it up to where the scan is
\* stands for as much as before, further on in the text.
LEMMA FoundLater ==
    ASSUME NEW C, NEW p \in Seq(C), NEW t \in Seq(C), NEW s \in Scans(p, t), ScanFits(p, s),
           s.star # 0, NEW k \in s.mark + 1 .. Len(t) + 1, Rest(p, t)[s.star + 1][k]
    PROVE  \E j \in s.ti + 1 .. Len(t) + 1 : Rest(p, t)[s.pi][j]
<1>. DEFINE a == s.star + 1
            d == s.pi - a
            R == Rest(p, t)
            m == Len(p)
            n == Len(t)
<1>1. /\ s.pi \in 1 .. m + 1 /\ s.ti \in 1 .. n + 1 /\ s.star \in 0 .. m /\ s.mark \in 1 .. n + 1
      /\ m \in Nat /\ n \in Nat
  BY ScanTypes
<1>2. /\ s.star < s.pi /\ s.pi - s.star - 1 = s.ti - s.mark
      /\ \A j \in s.star + 1 .. s.pi - 1 : p[j] # "*"
  BY DEF ScanFits, Fits
<1>. HIDE DEF m, n
<1>3. /\ a \in 1 .. m + 1 /\ k \in 1 .. n + 1 /\ d \in Nat /\ a + d = s.pi /\ a + d <= m + 1
      /\ a + d - 1 = s.pi - 1 /\ k + d >= s.ti + 1 /\ k + d \in Nat
  <2>. DEFINE u == s.pi
              v == s.star
              w == s.ti
              x == s.mark
  <2>1. k \in x + 1 .. n + 1
    BY DEF n
  <2>2. /\ u \in 1 .. m + 1 /\ w \in 1 .. n + 1 /\ v \in 0 .. m /\ x \in 1 .. n + 1
        /\ v < u /\ u - v - 1 = w - x
    BY <1>1, <1>2
  <2>. HIDE DEF u, v, w, x
  <2>3. /\ v + 1 \in 1 .. m + 1 /\ k \in 1 .. n + 1 /\ u - (v + 1) \in Nat
        /\ v + 1 + (u - (v + 1)) = u /\ v + 1 + (u - (v + 1)) <= m + 1
        /\ v + 1 + (u - (v + 1)) - 1 = u - 1
    BY <1>1, <2>1, <2>2
  <2>4. k + (u - (v + 1)) >= w + 1 /\ k + (u - (v + 1)) \in Nat
    BY <1>1, <2>1, <2>2
  <2>. QED BY <2>3, <2>4 DEF u, v, w, x
<1>4. \A j \in a .. a + d - 1 : p[j] # "*"
  <2>. HIDE DEF d
  <2>. QED BY <1>2, <1>3
<1>5. R[a][k]
  OBVIOUS
<1>6. k + d <= n + 1 /\ R[a + d][k + d]
  <2>. HIDE DEF R, a, d
  <2>. QED BY <1>3, <1>4, <1>5, Segment DEF R, m, n
<1>. DEFINE j == k + d
<1>7. j \in s.ti + 1 .. n + 1
  <2>. HIDE DEF d
  <2>. QED BY <1>1, <1>3, <1>6
<1>8. R[s.pi][j]
  <2>. HIDE DEF a, d, R
  <2>. QED BY <1>3, <1>6
<1>. HIDE DEF j, R
<1>9. \E i \in s.ti + 1 .. n + 1 : R[s.pi][i]
  BY <1>7, <1>8
<1>. QED BY <1>9 DEF R, n

\* One step of the loop, if those after it find what they look for.
LEMMA LoopStepFinds ==
    ASSUME NEW C, NEW p \in Seq(C), NEW t \in Seq(C), \A k \in 1 .. Len(t) : t[k] # "*",
           NEW s \in Scans(p, t), ScanFits(p, s),
           \A r \in Scans(p, t) :
               Nearer(r, s) /\ ScanFits(p, r) => (Loop(p, t)[r] <=> Found(p, t, r))
    PROVE  Loop(p, t)[s] <=> Found(p, t, s)
<1>. DEFINE R == Rest(p, t)
            F == Loop(p, t)
            m == Len(p)
            n == Len(t)
            Later(a, k) == \E j \in k .. n + 1 : R[a][j]
<1>1. /\ s.pi \in 1 .. m + 1 /\ s.ti \in 1 .. n + 1 /\ s.star \in 0 .. m /\ s.mark \in 1 .. n + 1
      /\ s.mark <= s.ti /\ m \in Nat /\ n \in Nat
      /\ s.pi \in Nat /\ s.ti \in Nat /\ s.star \in Nat /\ s.mark \in Nat
  BY ScanTypes
<1>2. F[s] = LoopStep(p, t, F, s)
  BY LoopIs
<1>3. Found(p, t, s) <=> R[s.pi][s.ti] \/ (s.star # 0 /\ Later(s.star + 1, s.mark + 1))
  BY DEF Found
<1>4. s.star # 0 /\ Later(s.star + 1, s.mark + 1) => Later(s.pi, s.ti + 1)
  BY FoundLater
<1>5. \A i \in 1 .. m : \A ti \in 1 .. n + 1 :
         /\ p[i] = "*" => (R[i][ti] <=> Later(i + 1, ti))
         /\ p[i] # "*" => (R[i][ti] <=> ti <= n /\ p[i] \in {"?", t[ti]} /\ R[i + 1][ti + 1])
  BY RestAt
<1>6. \A ti \in 1 .. n + 1 : R[m + 1][ti] <=> ti = n + 1
  BY RestAt
<1>7. \A a, k : k \in Nat /\ k <= n + 1 => (Later(a, k) <=> R[a][k] \/ Later(a, k + 1))
  <2>. TAKE a, k
  <2>. SUFFICES ASSUME k \in Nat, k <= n + 1 PROVE Later(a, k) <=> R[a][k] \/ Later(a, k + 1)
    OBVIOUS
  <2>1. \A j : j \in k .. n + 1 <=> j = k \/ j \in k + 1 .. n + 1
    BY <1>1
  <2>. HIDE DEF R, n
  <2>. QED BY <2>1
<1>8. CASE s.ti > n
  <2>1. F[s] <=> \A k \in s.pi .. m : p[k] = "*"
    BY <1>2, <1>8 DEF LoopStep
  <2>2. s.ti = n + 1
    BY <1>1, <1>8
  <2>3. R[s.pi][n + 1] <=> \A k \in s.pi .. m : p[k] = "*"
    BY <1>1, AtEnd
  <2>4. ~Later(s.pi, s.ti + 1)
    <3>1. \A j : ~(j \in s.ti + 1 .. n + 1)
      BY <1>1, <2>2
    <3>. HIDE DEF R, n
    <3>. QED BY <3>1
  <2>5. F[s] <=> R[s.pi][s.ti]
    <3>. HIDE DEF R, F, n, m
    <3>. QED BY <2>1, <2>2, <2>3
  <2>. HIDE DEF R, F, n, m, Later
  <2>. QED BY <1>3, <1>4, <2>4, <2>5 DEF F
<1>9. CASE s.ti <= n
  <2>1. /\ s.pi <= m => /\ Further(s) \in Scans(p, t) /\ Nearer(Further(s), s)
                        /\ Past(s) \in Scans(p, t) /\ Nearer(Past(s), s)
        /\ Back(s) \in Scans(p, t) /\ Nearer(Back(s), s)
    BY <1>9, ScanGoesOn
  <2>2. /\ Further(s).pi = s.pi + 1 /\ Further(s).ti = s.ti + 1
        /\ Further(s).star = s.star /\ Further(s).mark = s.mark
        /\ Past(s).pi = s.pi + 1 /\ Past(s).ti = s.ti /\ Past(s).star = s.pi /\ Past(s).mark = s.ti
        /\ Back(s).pi = s.star + 1 /\ Back(s).ti = s.mark + 1
        /\ Back(s).star = s.star /\ Back(s).mark = s.mark + 1
    BY DEF Scans, Further, Past, Back
  <2>3. CASE s.pi <= m /\ p[s.pi] \in {"?", t[s.ti]}
    <3>1. F[s] <=> F[Further(s)]
      <4>1. ~(s.ti > n)
        BY <1>1, <1>9
      <4>. QED BY <1>2, <2>3, <4>1 DEF LoopStep
    <3>2. p[s.pi] # "*" /\ s.pi \in 1 .. m
      <4>1. s.ti \in 1 .. n /\ s.pi \in 1 .. m
        BY <1>1, <1>9, <2>3
      <4>2. t[s.ti] # "*"
        BY <4>1
      <4>. QED BY <2>3, <4>1, <4>2
    <3>3. R[s.pi][s.ti] <=> R[s.pi + 1][s.ti + 1]
      <4>. HIDE DEF R, m, n, Later
      <4>. QED BY <1>1, <1>5, <1>9, <2>3, <3>2
    <3>4. ScanFits(p, Further(s))
      <4>. DEFINE u == s.pi
                  v == s.star
                  w == s.ti
                  x == s.mark
      <4>1. ScanFits(p, Further(s)) <=> Fits(p, u + 1, w + 1, v, x)
        BY <2>2 DEF ScanFits
      <4>2. Fits(p, u, w, v, x)
        BY DEF ScanFits
      <4>3. u \in Nat /\ v \in Nat /\ w \in Nat /\ x \in Nat /\ p[u] # "*"
        BY <1>1, <3>2
      <4>. HIDE DEF u, v, w, x
      <4>4. Fits(p, u + 1, w + 1, v, x)
        <5>. SUFFICES ASSUME v # 0
                      PROVE  /\ v < u + 1 /\ p[v] = "*" /\ u + 1 - v - 1 = w + 1 - x
                             /\ \A j \in v + 1 .. u + 1 - 1 : p[j] # "*"
          BY <4>3 DEF Fits
        <5>1. /\ v < u /\ p[v] = "*" /\ u - v - 1 = w - x
              /\ \A j \in v + 1 .. u - 1 : p[j] # "*"
          BY <4>2 DEF Fits
        <5>2. \A j \in v + 1 .. u + 1 - 1 : j = u \/ j \in v + 1 .. u - 1
          BY <4>3
        <5>3. \A j \in v + 1 .. u + 1 - 1 : p[j] # "*"
          BY <4>3, <5>1, <5>2
        <5>4. v < u + 1 /\ u + 1 - v - 1 = w + 1 - x
          BY <4>3, <5>1
        <5>. QED BY <5>1, <5>3, <5>4
      <4>. QED BY <4>1, <4>4
    <3>5. Found(p, t, Further(s)) <=>
             R[s.pi + 1][s.ti + 1] \/ (s.star # 0 /\ Later(s.star + 1, s.mark + 1))
      BY <2>2 DEF Found
    <3>6. F[Further(s)] <=> Found(p, t, Further(s))
      BY <2>1, <2>3, <3>4
    <3>. HIDE DEF R, F, n, m, Later
    <3>. QED BY <1>3, <3>1, <3>3, <3>5, <3>6 DEF F
  <2>4. CASE ~(s.pi <= m /\ p[s.pi] \in {"?", t[s.ti]}) /\ s.pi <= m /\ p[s.pi] = "*"
    <3>1. F[s] <=> F[Past(s)]
      <4>1. ~(s.ti > n)
        BY <1>1, <1>9
      <4>. QED BY <1>2, <2>4, <4>1 DEF LoopStep
    <3>2. s.pi \in 1 .. m /\ s.pi # 0
      BY <1>1, <2>4
    <3>3. R[s.pi][s.ti] <=> Later(s.pi + 1, s.ti)
      <4>. HIDE DEF R, m, n, Later
      <4>. QED BY <1>1, <1>5, <2>4, <3>2
    <3>4. ScanFits(p, Past(s))
      <4>. DEFINE u == s.pi
                  w == s.ti
      <4>1. ScanFits(p, Past(s)) <=> Fits(p, u + 1, w, u, w)
        BY <2>2 DEF ScanFits
      <4>2. u \in Nat /\ w \in Nat /\ p[u] = "*"
        BY <1>1, <2>4
      <4>. HIDE DEF u, w
      <4>. QED BY <4>1, <4>2 DEF Fits
    <3>5. Found(p, t, Past(s)) <=> R[s.pi + 1][s.ti] \/ Later(s.pi + 1, s.ti + 1)
      BY <2>2, <3>2 DEF Found
    <3>6. F[Past(s)] <=> Found(p, t, Past(s))
      BY <2>1, <2>4, <3>4
    <3>7. Later(s.pi + 1, s.ti) <=> R[s.pi + 1][s.ti] \/ Later(s.pi + 1, s.ti + 1)
      <4>. HIDE DEF R, m, n, Later
      <4>. QED BY <1>1, <1>7, <1>9
    <3>8. Later(s.pi, s.ti + 1) => R[s.pi][s.ti]
      <4>. SUFFICES ASSUME NEW j \in s.ti + 1 .. n + 1, R[s.pi][j]
                    PROVE  Later(s.pi + 1, s.ti)
        BY <3>3
      <4>1. j \in 1 .. n + 1
        BY <1>1
      <4>2. Later(s.pi + 1, j)
        <5>. HIDE DEF m, n, Later
        <5>. QED BY <1>5, <2>4, <3>2, <4>1
      <4>3. \A i \in j .. n + 1 : i \in s.ti .. n + 1
        BY <1>1, <4>1
      <4>. HIDE DEF R, n
      <4>. QED BY <4>2, <4>3
    <3>. HIDE DEF R, F, n, m, Later
    <3>. QED BY <1>3, <1>4, <3>1, <3>3, <3>5, <3>6, <3>7, <3>8 DEF F
  <2>5. CASE ~(s.pi <= m /\ p[s.pi] \in {"?", t[s.ti]}) /\ ~(s.pi <= m /\ p[s.pi] = "*")
    <3>1. F[s] <=> s.star # 0 /\ F[Back(s)]
      <4>1. ~(s.ti > n)
        BY <1>1, <1>9
      <4>. QED BY <1>2, <2>5, <4>1 DEF LoopStep
    <3>2. ~R[s.pi][s.ti]
      <4>1. CASE s.pi <= m
        <5>1. s.pi \in 1 .. m
          BY <1>1, <4>1
        <5>. HIDE DEF R, m, n, Later
        <5>. QED BY <1>1, <1>5, <2>5, <4>1, <5>1
      <4>2. CASE ~(s.pi <= m)
        <5>1. s.pi = m + 1 /\ s.ti # n + 1
          BY <1>1, <1>9, <4>2
        <5>. HIDE DEF R, m, n, Later
        <5>. QED BY <1>1, <1>6, <5>1
      <4>. QED BY <4>1, <4>2
    <3>3. ScanFits(p, Back(s))
      <4>. DEFINE v == s.star
                  x == s.mark
      <4>1. ScanFits(p, Back(s)) <=> Fits(p, v + 1, x + 1, v, x + 1)
        BY <2>2 DEF ScanFits
      <4>2. v \in Nat /\ x \in Nat /\ (v # 0 => p[v] = "*")
        BY <1>1 DEF ScanFits, Fits
      <4>. HIDE DEF v, x
      <4>. QED BY <4>1, <4>2 DEF Fits
    <3>4. Found(p, t, Back(s)) <=>
             \/ R[s.star + 1][s.mark + 1]
             \/ s.star # 0 /\ Later(s.star + 1, s.mark + 1 + 1)
      BY <2>2 DEF Found
    <3>5. F[Back(s)] <=> Found(p, t, Back(s))
      BY <2>1, <3>3
    <3>6. Later(s.star + 1, s.mark + 1) <=> R[s.star + 1][s.mark + 1] \/ Later(s.star + 1, s.mark + 1 + 1)
      <4>1. s.mark + 1 \in Nat /\ s.mark + 1 <= n + 1
        BY <1>1, <1>9
      <4>. HIDE DEF R, m, n, Later
      <4>. QED BY <1>7, <4>1
    <3>. HIDE DEF R, F, n, m, Later
    <3>. QED BY <1>3, <3>1, <3>2, <3>4, <3>5, <3>6 DEF F
  <2>. QED BY <2>3, <2>4, <2>5
<1>10. s.ti > n \/ s.ti <= n
  BY <1>1
<1>. QED BY <1>8, <1>9, <1>10

\* The loop finds what it looks for.
LEMMA LoopFinds ==
    ASSUME NEW C, NEW p \in Seq(C), NEW t \in Seq(C), \A k \in 1 .. Len(t) : t[k] # "*",
           NEW s \in Scans(p, t), ScanFits(p, s)
    PROVE  Loop(p, t)[s] <=> Found(p, t, s)
<1>. DEFINE S == Scans(p, t)
            N == (Len(t) + 1) * (Len(p) + 2)
            Good(r) == ScanFits(p, r) => (Loop(p, t)[r] <=> Found(p, t, r))
            dist(r) == Distance(p, t, r)
            T == {k \in Nat : \A r \in S : dist(r) < k => Good(r)}
<1>1. \A r \in S : dist(r) \in Nat
  <2>. DEFINE a == Len(t) + 1
              b == Len(p) + 2
  <2>1. a \in Nat /\ b \in Nat
    BY ScanTypes
  <2>. HIDE DEF a, b
  <2>2. a * b \in Nat
    BY <2>1
  <2>3. \A r \in S : dist(r) \in 0 .. N
    BY NearerIsLess
  <2>4. N \in Nat
    BY <2>2 DEF a, b
  <2>. HIDE DEF N, S, dist
  <2>. QED BY <2>3, <2>4
<1>2. 0 \in T
  <2>. HIDE DEF S, dist, Good
  <2>1. \A r \in S : ~(dist(r) < 0)
    BY <1>1
  <2>. QED BY <2>1
<1>3. ASSUME NEW k \in Nat, k \in T
      PROVE  k + 1 \in T
  <2>1. \A r \in S : dist(r) < k => Good(r)
    <3>. HIDE DEF S, dist, Good
    <3>. QED BY <1>3
  <2>2. ASSUME NEW q \in S, dist(q) < k + 1
        PROVE  Good(q)
    <3>. SUFFICES ASSUME ScanFits(p, q)
                  PROVE  Loop(p, t)[q] <=> Found(p, t, q)
      OBVIOUS
    <3>1. \A r \in S : Nearer(r, q) => dist(r) < dist(q)
      BY NearerIsLess
    <3>2. \A r \in S : Nearer(r, q) => Good(r)
      <4>. SUFFICES ASSUME NEW r \in S, Nearer(r, q)
                    PROVE  Good(r)
        OBVIOUS
      <4>1. dist(r) < dist(q) /\ dist(r) \in Nat /\ dist(q) \in Nat
        <5>. HIDE DEF S, dist
        <5>. QED BY <1>1, <3>1
      <4>. HIDE DEF S, dist, Good
      <4>2. dist(r) < k
        BY <2>2, <4>1
      <4>. QED BY <2>1, <4>2
    <3>. QED BY <3>2, LoopStepFinds
  <2>. HIDE DEF S, dist, Good
  <2>. QED BY <2>2
<1>4. Nat \subseteq T
  <2>. HIDE DEF T
  <2>. QED BY <1>2, <1>3, SetInduction
<1>5. Good(s)
  <2>. HIDE DEF S, Good, dist
  <2>1. s \in S
    BY DEF S
  <2>2. dist(s) \in Nat /\ dist(s) + 1 \in Nat /\ dist(s) < dist(s) + 1
    BY <1>1, <2>1
  <2>3. dist(s) + 1 \in T
    <3>. HIDE DEF T
    <3>. QED BY <1>4, <2>2
  <2>. QED BY <2>1, <2>2, <2>3
<1>. QED BY <1>5

\* glob_match, which goes back to the last * only, accepts just what a pattern
\* stands for: whatever its * could stand for has been tried.  The host has no *.
THEOREM GlobMatchesDenoted ==
    ASSUME NEW C, NEW p \in Seq(C), NEW t \in Seq(C), ~Has(t, "*")
    PROVE  GlobMatch(p, t) <=> Denotes(p, t)
<1>. DEFINE s == [pi |-> 1, ti |-> 1, star |-> 0, mark |-> 1]
<1>1. Len(p) \in Nat /\ Len(t) \in Nat
  OBVIOUS
<1>2. s \in Scans(p, t)
  <2>1. 1 \in 1 .. Len(p) + 1 /\ 1 \in 1 .. Len(t) + 1 /\ 0 \in 0 .. Len(p) /\ 1 <= 1
    BY <1>1
  <2>. QED BY <2>1 DEF Scans
<1>3. ScanFits(p, s)
  BY DEF ScanFits, Fits
<1>4. \A k \in 1 .. Len(t) : t[k] # "*"
  BY DEF Has
<1>5. Found(p, t, s) <=> Rest(p, t)[1][1]
  BY DEF Found
<1>6. GlobMatch(p, t) = Loop(p, t)[s] /\ Denotes(p, t) = Rest(p, t)[1][1]
  BY LoopIs, RestIs
<1>. HIDE DEF s
<1>7. Loop(p, t)[s] <=> Found(p, t, s)
  BY <1>2, <1>3, <1>4, LoopFinds
<1>. QED BY <1>5, <1>6, <1>7


\* A Host line is for the hosts that one of its patterns stands for and no
\* negated one does (matches_host_patterns); the host has no *.
THEOREM MatchesHostDenoted ==
    ASSUME NEW C, NEW host \in Seq(C), ~Has(host, "*"),
           NEW patterns \in SUBSET Seq(C), <<>> \notin patterns
    PROVE  MatchesHost(host, patterns) <=>
             /\ \E p \in patterns : p[1] # "!" /\ Denotes(p, host)
             /\ \A p \in patterns : p[1] = "!" => ~Denotes(Tail(p), host)
<1>1. \A p \in patterns : GlobMatch(p, host) <=> Denotes(p, host)
  BY GlobMatchesDenoted
<1>2. \A p \in patterns : GlobMatch(Tail(p), host) <=> Denotes(Tail(p), host)
  <2>. TAKE p \in patterns
  <2>1. Tail(p) \in Seq(C)
    <3>1. p \in Seq(C) /\ p # <<>>
      OBVIOUS
    <3>. QED BY <3>1
  <2>. QED BY <2>1, GlobMatchesDenoted
<1>. QED BY <1>1, <1>2 DEF MatchesHost

-----------------------------------------------------------------------------
(* Sequences put together of others.                                       *)

\* Its positions are those of a sequence, and what a set holds stands at one
\* of them each: q tells what stands where, val what it looks like there.
Places(s, K, val, q) ==
    /\ q \in [1 .. Len(s) -> K]
    /\ \A i, j \in 1 .. Len(s) : q[i] = q[j] => i = j
    /\ \A k \in K : \E i \in 1 .. Len(s) : q[i] = k
    /\ \A i \in 1 .. Len(s) : s[i] = val[q[i]]

\* A sequence that gives each of a set once.
Enumerates(s, K, val) == \E q : Places(s, K, val, q)

\* It is as long as the set is large, and has the values of all of it.
LEMMA EnumeratesAll ==
    ASSUME NEW S, NEW s \in Seq(S), NEW K, NEW val, Enumerates(s, K, val)
    PROVE  /\ IsFiniteSet(K) /\ Cardinality(K) = Len(s)
           /\ Range(s) = {val[k] : k \in K}
<1>1. PICK q : Places(s, K, val, q)
  BY DEF Enumerates
<1>2. Len(s) \in Nat /\ DOMAIN s = 1 .. Len(s)
  OBVIOUS
<1>. DEFINE n == Len(s)
            D == 1 .. n
<1>3. /\ q \in [D -> K]
      /\ \A i, j \in D : q[i] = q[j] => i = j
      /\ \A k \in K : \E i \in D : q[i] = k
      /\ \A i \in D : s[i] = val[q[i]]
      /\ DOMAIN s = D
  BY <1>1, <1>2 DEF Places
<1>4. IsFiniteSet(D) /\ Cardinality(D) = n
  BY <1>2, FS_Interval
<1>. HIDE DEF D
<1>5. q \in Bijection(D, K)
  BY <1>3 DEF Bijection, Injection, Surjection, IsInjective
<1>6. IsFiniteSet(K) /\ Cardinality(K) = n
  BY <1>4, <1>5, FS_Bijection DEF ExistsBijection
<1>7. Range(s) = {val[k] : k \in K}
  <2>1. \A i \in D : s[i] \in {val[k] : k \in K}
    BY <1>3
  <2>2. \A k \in K : \E i \in D : s[i] = val[k]
    BY <1>3
  <2>3. Range(s) = {s[i] : i \in D}
    BY <1>3 DEF Range
  <2>. QED BY <2>1, <2>2, <2>3
<1>. QED BY <1>6, <1>7

\* The empty sequence, ...
LEMMA EnumeratesNone ==
    ASSUME NEW val
    PROVE  Enumerates(<<>>, {}, val)
<1>. DEFINE q == [i \in 1 .. 0 |-> 0]
<1>1. Len(<<>>) = 0 /\ 1 .. 0 = {}
  OBVIOUS
<1>2. Places(<<>>, {}, val, q)
  BY <1>1 DEF Places
<1>. QED BY <1>2 DEF Enumerates

\* ... one value ...
LEMMA EnumeratesOne ==
    ASSUME NEW k, NEW val, NEW v, v = val[k]
    PROVE  Enumerates(<<v>>, {k}, val)
<1>. DEFINE q == [i \in 1 .. 1 |-> k]
<1>1. Len(<<v>>) = 1 /\ <<v>>[1] = v /\ 1 .. 1 = {1}
  OBVIOUS
<1>2. Places(<<v>>, {k}, val, q)
  BY <1>1 DEF Places
<1>. QED BY <1>2 DEF Enumerates

\* ... and two sequences of different things.
LEMMA EnumeratesJoined ==
    ASSUME NEW S, NEW s \in Seq(S), NEW t \in Seq(S), NEW K, NEW L, NEW val,
           Enumerates(s, K, val), Enumerates(t, L, val), K \cap L = {}
    PROVE  Enumerates(s \o t, K \cup L, val)
<1>1. PICK a : Places(s, K, val, a)
  BY DEF Enumerates
<1>2. PICK b : Places(t, L, val, b)
  BY DEF Enumerates
<1>. DEFINE m == Len(s)
            n == Len(t)
            u == s \o t
            q == [i \in 1 .. m + n |-> IF i <= m THEN a[i] ELSE b[i - m]]
<1>3. /\ m \in Nat /\ n \in Nat /\ Len(u) = m + n
      /\ \A i \in 1 .. m + n : u[i] = IF i <= m THEN s[i] ELSE t[i - m]
  BY ConcatProperties
<1>4. /\ a \in [1 .. m -> K] /\ (\A i, j \in 1 .. m : a[i] = a[j] => i = j)
      /\ (\A k \in K : \E i \in 1 .. m : a[i] = k) /\ (\A i \in 1 .. m : s[i] = val[a[i]])
  BY <1>1 DEF Places
<1>5. /\ b \in [1 .. n -> L] /\ (\A i, j \in 1 .. n : b[i] = b[j] => i = j)
      /\ (\A k \in L : \E i \in 1 .. n : b[i] = k) /\ (\A i \in 1 .. n : t[i] = val[b[i]])
  BY <1>2 DEF Places
<1>. HIDE DEF m, n, u
<1>6. \A i \in 1 .. m + n : \/ i \in 1 .. m /\ i <= m /\ q[i] = a[i]
                            \/ i - m \in 1 .. n /\ ~(i <= m) /\ q[i] = b[i - m]
  BY <1>3
<1>7. \A i \in 1 .. m : i \in 1 .. m + n /\ q[i] = a[i]
  BY <1>3
<1>8. \A i \in 1 .. n : i + m \in 1 .. m + n /\ q[i + m] = b[i]
  <2>. TAKE i \in 1 .. n
  <2>1. i + m \in 1 .. m + n /\ ~(i + m <= m) /\ (i + m) - m = i
    BY <1>3
  <2>. QED BY <2>1
<1>9. q \in [1 .. m + n -> K \cup L]
  <2>1. \A i \in 1 .. m + n : q[i] \in K \cup L
    BY <1>4, <1>5, <1>6
  <2>2. DOMAIN q = 1 .. m + n
    OBVIOUS
  <2>3. q = [i \in 1 .. m + n |-> q[i]]
    OBVIOUS
  <2>. HIDE DEF q
  <2>. QED BY <2>1, <2>2, <2>3
<1>10. ASSUME NEW i \in 1 .. m + n, NEW j \in 1 .. m + n, q[i] = q[j]
       PROVE  i = j
  <2>. HIDE DEF q
  <2>1. CASE i \in 1 .. m /\ q[i] = a[i] /\ j \in 1 .. m /\ q[j] = a[j]
    BY <1>4, <1>10, <2>1
  <2>2. CASE i - m \in 1 .. n /\ q[i] = b[i - m] /\ j - m \in 1 .. n /\ q[j] = b[j - m]
    <3>1. i - m = j - m
      BY <1>5, <1>10, <2>2
    <3>. QED BY <1>3, <3>1
  <2>3. CASE i \in 1 .. m /\ q[i] = a[i] /\ j - m \in 1 .. n /\ q[j] = b[j - m]
    <3>1. q[i] \in K /\ q[j] \in L
      BY <1>4, <1>5, <2>3
    <3>. QED BY <1>10, <3>1
  <2>4. CASE i - m \in 1 .. n /\ q[i] = b[i - m] /\ j \in 1 .. m /\ q[j] = a[j]
    <3>1. q[j] \in K /\ q[i] \in L
      BY <1>4, <1>5, <2>4
    <3>. QED BY <1>10, <3>1
  <2>. QED BY <1>6, <2>1, <2>2, <2>3, <2>4
<1>11. \A k \in K \cup L : \E i \in 1 .. m + n : q[i] = k
  <2>. HIDE DEF q
  <2>1. \A k \in K : \E i \in 1 .. m + n : q[i] = k
    BY <1>4, <1>7
  <2>2. \A k \in L : \E i \in 1 .. m + n : q[i] = k
    BY <1>5, <1>8
  <2>. QED BY <2>1, <2>2
<1>12. \A i \in 1 .. m + n : u[i] = val[q[i]]
  <2>. HIDE DEF q
  <2>. TAKE i \in 1 .. m + n
  <2>1. u[i] = IF i <= m THEN s[i] ELSE t[i - m]
    BY <1>3
  <2>2. CASE i \in 1 .. m /\ i <= m /\ q[i] = a[i]
    BY <1>4, <2>1, <2>2
  <2>3. CASE i - m \in 1 .. n /\ ~(i <= m) /\ q[i] = b[i - m]
    BY <1>5, <2>1, <2>3
  <2>. QED BY <1>6, <2>2, <2>3
<1>. HIDE DEF q
<1>13. Places(u, K \cup L, val, q)
  BY <1>3, <1>9, <1>10, <1>11, <1>12 DEF Places
<1>. QED BY <1>13 DEF Enumerates, u

\* What FlattenSeq has put together after each of the sequences.
FlattenStep(ss, f, i) == IF i = 1 THEN ss[i] ELSE f[i - 1] \o ss[i]

IsFlatten(ss, f) == f = [i \in 1 .. Len(ss) |-> FlattenStep(ss, f, i)]

\* The recursion is one.
LEMMA FlattenExists ==
    ASSUME NEW S, NEW ss \in Seq(Seq(S))
    PROVE  \E f : IsFlatten(ss, f)
<1>. DEFINE n == Len(ss)
            B == Seq(S)
            step == [x \in (1 .. n) \X B |-> x[2] \o ss[x[1]]]
<1>1. n \in Nat /\ <<>> \in B /\ (\A k \in 1 .. n : ss[k] \in B)
  OBVIOUS
<1>2. step \in [(1 .. n) \X B -> B]
  <2>. SUFFICES ASSUME NEW x \in (1 .. n) \X B PROVE x[2] \o ss[x[1]] \in B
    OBVIOUS
  <2>1. x[2] \in B /\ ss[x[1]] \in B
    BY <1>1
  <2>. QED BY <2>1
<1>3. \A k \in 1 .. n : \A s \in B : step[<<k, s>>] = s \o ss[k]
  OBVIOUS
<1>. HIDE DEF step, B, n
<1>4. PICK f : f[0] = <<>> /\ \A k \in 1 .. n : f[k] = step[<<k, f[k - 1]>>] /\ f[k - 1] \in B
  <2>1. Steppable(n, B, <<>>, step)
    BY <1>1, <1>2 DEF Steppable
  <2>2. PICK f : Steps(n, B, <<>>, step, f)
    BY <2>1, StepsExist
  <2>3. \A k \in 1 .. n : k - 1 \in 0 .. n
    BY <1>1
  <2>. QED BY <2>2, <2>3 DEF Steps
<1>. DEFINE g == [k \in 1 .. n |-> f[k]]
<1>5. \A k \in 1 .. n : g[k] = FlattenStep(ss, g, k)
  <2>. TAKE k \in 1 .. n
  <2>1. k - 1 \in 0 .. n /\ g[k] = f[k]
    BY <1>1
  <2>2. g[k] = f[k - 1] \o ss[k]
    BY <1>3, <1>4, <2>1
  <2>3. CASE k = 1
    <3>1. f[k - 1] = <<>>
      BY <1>4, <2>3
    <3>2. <<>> \o ss[k] = ss[k]
      BY <1>1, ConcatEmptySeq DEF B
    <3>. QED BY <2>2, <2>3, <3>1, <3>2 DEF FlattenStep
  <2>4. CASE k # 1
    <3>1. k - 1 \in 1 .. n
      BY <1>1, <2>4
    <3>2. g[k - 1] = f[k - 1]
      BY <3>1
    <3>. HIDE DEF g
    <3>. QED BY <2>2, <2>4, <3>2 DEF FlattenStep
  <2>. QED BY <2>3, <2>4
<1>6. g = [k \in 1 .. n |-> g[k]]
  OBVIOUS
<1>. HIDE DEF g
<1>7. g = [k \in 1 .. n |-> FlattenStep(ss, g, k)]
  BY <1>5, <1>6
<1>. QED BY <1>7 DEF IsFlatten, n

\* FlattenSeq, one sequence after the other.
LEMMA FlattenSteps ==
    ASSUME NEW S, NEW ss \in Seq(Seq(S))
    PROVE  \E f \in [0 .. Len(ss) -> Seq(S)] :
              /\ f[0] = <<>> /\ f[Len(ss)] = FlattenSeq(ss)
              /\ \A k \in 1 .. Len(ss) : f[k] = f[k - 1] \o ss[k]
<1>. DEFINE n == Len(ss)
            g == CHOOSE g : IsFlatten(ss, g)
            f == [k \in 0 .. n |-> IF k = 0 THEN <<>> ELSE g[k]]
<1>1. n \in Nat /\ (\A i \in 1 .. n : ss[i] \in Seq(S))
  OBVIOUS
<1>2. CASE n = 0
  <2>1. ss = <<>> /\ 1 .. n = {} /\ 0 .. n = {0}
    BY <1>2
  <2>2. FlattenSeq(ss) = <<>>
    BY <1>2, <2>1 DEF FlattenSeq
  <2>3. f \in [0 .. n -> Seq(S)] /\ f[0] = <<>>
    BY <1>2, <2>1
  <2>. QED BY <1>2, <2>1, <2>2, <2>3
<1>3. CASE n # 0
  <2>1. IsFlatten(ss, g)
    BY FlattenExists
  <2>2. FlattenSeq(ss) = g[n]
    BY <1>3 DEF FlattenSeq, IsFlatten, FlattenStep
  <2>. HIDE DEF g
  <2>3. g = [i \in 1 .. n |-> FlattenStep(ss, g, i)]
    BY <2>1 DEF IsFlatten
  <2>4. \A i \in 1 .. n : g[i] = IF i = 1 THEN ss[i] ELSE g[i - 1] \o ss[i]
    BY <2>3 DEF FlattenStep
  <2>. HIDE DEF n
  <2>5. \A k \in 1 .. n : f[k] = g[k] /\ k # 0
    BY <1>1
  <2>6. \A k \in 1 .. n : k # 1 => f[k - 1] = g[k - 1]
    BY <1>1
  <2>7. f[0] = <<>> /\ f[n] = g[n]
    BY <1>1, <1>3
  <2>8. \A k \in 1 .. n : f[k] = f[k - 1] \o ss[k]
    <3>. TAKE k \in 1 .. n
    <3>1. CASE k = 1
      <4>1. f[k - 1] = <<>> /\ ss[k] \in Seq(S)
        BY <1>1, <2>7, <3>1
      <4>2. <<>> \o ss[k] = ss[k]
        BY <4>1, ConcatEmptySeq
      <4>. HIDE DEF f
      <4>. QED BY <2>4, <2>5, <3>1, <4>1, <4>2
    <3>2. CASE k # 1
      <4>. HIDE DEF f
      <4>. QED BY <2>4, <2>5, <2>6, <3>2
    <3>. QED BY <3>1, <3>2
  <2>9. \A k \in 0 .. n : f[k] \in Seq(S)
    <3>. DEFINE T == {k \in Nat : k <= n => f[k] \in Seq(S)}
    <3>. HIDE DEF f
    <3>1. 0 \in T
      <4>1. <<>> \in Seq(S)
        OBVIOUS
      <4>. QED BY <2>7, <4>1
    <3>2. ASSUME NEW k \in Nat, k \in T
          PROVE  k + 1 \in T
      <4>. SUFFICES ASSUME k + 1 <= n PROVE f[k + 1] \in Seq(S)
        OBVIOUS
      <4>1. k + 1 \in 1 .. n /\ (k + 1) - 1 = k /\ k <= n
        BY <1>1
      <4>2. f[k] \in Seq(S)
        BY <3>2, <4>1
      <4>3. f[k + 1] = f[k] \o ss[k + 1]
        BY <2>8, <4>1
      <4>4. ss[k + 1] \in Seq(S)
        BY <1>1, <4>1
      <4>. QED BY <4>2, <4>3, <4>4
    <3>. HIDE DEF T
    <3>3. Nat \subseteq T
      BY <3>1, <3>2, SetInduction
    <3>. QED BY <1>1, <3>3 DEF T
  <2>10. f \in [0 .. n -> Seq(S)]
    <3>1. f = [k \in 0 .. n |-> f[k]]
      OBVIOUS
    <3>. HIDE DEF f
    <3>. QED BY <2>9, <3>1
  <2>. HIDE DEF f
  <2>. QED BY <2>2, <2>7, <2>8, <2>10 DEF n
<1>. QED BY <1>2, <1>3

\* Sequences that each enumerate something, and different things.
EnumerateApart(ss, K, val) ==
    /\ \A k \in 1 .. Len(ss) : Enumerates(ss[k], K[k], val)
    /\ \A j, k \in 1 .. Len(ss) : j # k => K[j] \cap K[k] = {}

\* Put together they enumerate all of it.
LEMMA FlattenEnumerates ==
    ASSUME NEW S, NEW ss \in Seq(Seq(S)), NEW K, NEW val, EnumerateApart(ss, K, val)
    PROVE  /\ FlattenSeq(ss) \in Seq(S)
           /\ Enumerates(FlattenSeq(ss), UNION {K[k] : k \in 1 .. Len(ss)}, val)
<1>. DEFINE n == Len(ss)
            upTo(k) == UNION {K[j] : j \in 1 .. k}
<1>1. PICK f \in [0 .. n -> Seq(S)] :
          /\ f[0] = <<>> /\ f[n] = FlattenSeq(ss)
          /\ \A k \in 1 .. n : f[k] = f[k - 1] \o ss[k]
  BY FlattenSteps
<1>. DEFINE T == {k \in Nat : k <= n => Enumerates(f[k], upTo(k), val)}
<1>2. n \in Nat /\ (\A k \in 1 .. n : ss[k] \in Seq(S))
  OBVIOUS
<1>3. /\ \A k \in 1 .. n : Enumerates(ss[k], K[k], val)
      /\ \A j, k \in 1 .. n : j # k => K[j] \cap K[k] = {}
  BY DEF EnumerateApart
<1>. HIDE DEF n
<1>4. 0 \in T
  <2>1. upTo(0) = {}
    OBVIOUS
  <2>. HIDE DEF upTo
  <2>2. Enumerates(<<>>, {}, val)
    BY EnumeratesNone
  <2>. QED BY <1>1, <2>1, <2>2
<1>5. ASSUME NEW k \in Nat, k \in T
      PROVE  k + 1 \in T
  <2>. SUFFICES ASSUME k + 1 <= n PROVE Enumerates(f[k + 1], upTo(k + 1), val)
    OBVIOUS
  <2>1. k + 1 \in 1 .. n /\ (k + 1) - 1 = k /\ k <= n /\ k \in 0 .. n
    BY <1>2
  <2>2. Enumerates(f[k], upTo(k), val) /\ f[k] \in Seq(S)
    BY <1>1, <1>5, <2>1
  <2>3. Enumerates(ss[k + 1], K[k + 1], val) /\ ss[k + 1] \in Seq(S)
    BY <1>2, <1>3, <2>1
  <2>4. upTo(k) \cap K[k + 1] = {}
    <3>1. \A j \in 1 .. k : j \in 1 .. n /\ j # k + 1
      BY <1>2, <2>1
    <3>2. \A j \in 1 .. k : K[j] \cap K[k + 1] = {}
      BY <1>3, <2>1, <3>1
    <3>. QED BY <3>2
  <2>5. upTo(k + 1) = upTo(k) \cup K[k + 1]
    <3>1. \A j : j \in 1 .. k + 1 <=> j \in 1 .. k \/ j = k + 1
      OBVIOUS
    <3>. QED BY <3>1
  <2>6. f[k + 1] = f[k] \o ss[k + 1]
    BY <1>1, <2>1
  <2>. HIDE DEF upTo
  <2>7. Enumerates(f[k] \o ss[k + 1], upTo(k) \cup K[k + 1], val)
    BY <2>2, <2>3, <2>4, EnumeratesJoined
  <2>. QED BY <2>5, <2>6, <2>7
<1>. HIDE DEF T
<1>6. n \in T
  BY <1>2, <1>4, <1>5, SetInduction
<1>7. n <= n /\ n \in 0 .. n
  BY <1>2
<1>8. Enumerates(f[n], upTo(n), val) /\ f[n] \in Seq(S)
  BY <1>1, <1>6, <1>7 DEF T
<1>. QED BY <1>1, <1>8 DEF n

\* What stands in sequences put together stood in one of them.
LEMMA FlattenRange ==
    ASSUME NEW S, NEW ss \in Seq(Seq(S))
    PROVE  /\ FlattenSeq(ss) \in Seq(S)
           /\ Range(FlattenSeq(ss)) = UNION {Range(ss[k]) : k \in 1 .. Len(ss)}
<1>. DEFINE n == Len(ss)
            upTo(k) == UNION {Range(ss[j]) : j \in 1 .. k}
<1>1. PICK f \in [0 .. n -> Seq(S)] :
          /\ f[0] = <<>> /\ f[n] = FlattenSeq(ss)
          /\ \A k \in 1 .. n : f[k] = f[k - 1] \o ss[k]
  BY FlattenSteps
<1>. DEFINE T == {k \in Nat : k <= n => Range(f[k]) = upTo(k)}
<1>2. n \in Nat /\ (\A k \in 1 .. n : ss[k] \in Seq(S))
  OBVIOUS
<1>. HIDE DEF n
<1>3. 0 \in T
  <2>1. upTo(0) = {} /\ Range(<<>>) = {}
    BY DEF Range
  <2>. HIDE DEF upTo
  <2>. QED BY <1>1, <2>1
<1>4. ASSUME NEW k \in Nat, k \in T
      PROVE  k + 1 \in T
  <2>. SUFFICES ASSUME k + 1 <= n PROVE Range(f[k + 1]) = upTo(k + 1)
    OBVIOUS
  <2>1. k + 1 \in 1 .. n /\ (k + 1) - 1 = k /\ k <= n /\ k \in 0 .. n
    BY <1>2
  <2>2. Range(f[k]) = upTo(k) /\ f[k] \in Seq(S) /\ ss[k + 1] \in Seq(S)
    BY <1>1, <1>2, <1>4, <2>1
  <2>3. upTo(k + 1) = upTo(k) \cup Range(ss[k + 1])
    <3>1. \A j : j \in 1 .. k + 1 <=> j \in 1 .. k \/ j = k + 1
      OBVIOUS
    <3>. QED BY <3>1
  <2>4. f[k + 1] = f[k] \o ss[k + 1]
    BY <1>1, <2>1
  <2>. HIDE DEF upTo
  <2>5. Range(f[k] \o ss[k + 1]) = Range(f[k]) \cup Range(ss[k + 1])
    BY <2>2, RangeConcatenation
  <2>. QED BY <2>2, <2>3, <2>4, <2>5
<1>. HIDE DEF T
<1>5. n \in T
  BY <1>2, <1>3, <1>4, SetInduction
<1>6. n <= n /\ n \in 0 .. n
  BY <1>2
<1>7. Range(f[n]) = upTo(n) /\ f[n] \in Seq(S)
  BY <1>1, <1>5, <1>6 DEF T
<1>. QED BY <1>1, <1>7 DEF n

-----------------------------------------------------------------------------
(* Stanzas.                                                                *)

\* What parse_ssh_config makes of one line.
TakeLine(stanzas, line) ==
    IF line.key = "host" THEN Append(stanzas, [patterns |-> line.value, options |-> <<>>])
    ELSE [stanzas EXCEPT ![Len(stanzas)].options = Append(@, line)]

FirstStanza == [patterns |-> {<<"*">>}, options |-> <<>>]

\* Stanzas of lines.
Stanzas(L) == [patterns : {{<<"*">>}} \cup {l.value : l \in L}, options : Seq(L)]

IsTaken(lines, f) ==
    f = [k \in 0 .. Len(lines) |-> IF k = 0 THEN <<FirstStanza>> ELSE TakeLine(f[k - 1], lines[k])]

\* A Host line is the last of the stanzas after it, ...
LEMMA HostLine ==
    ASSUME NEW L, NEW s \in Seq(Stanzas(L)), NEW line \in L, line.key = "host"
    PROVE  LET t == TakeLine(s, line)
           IN  /\ t \in Seq(Stanzas(L)) /\ Len(t) = Len(s) + 1
               /\ \A j \in 1 .. Len(s) : t[j] = s[j]
               /\ t[Len(t)].patterns = line.value /\ t[Len(t)].options = <<>>
<1>. DEFINE new == [patterns |-> line.value, options |-> <<>>]
            t == TakeLine(s, line)
<1>1. new \in Stanzas(L) /\ new.patterns = line.value /\ new.options = <<>>
  BY DEF Stanzas
<1>2. t = Append(s, new)
  BY DEF TakeLine
<1>. HIDE DEF new, t
<1>3. /\ t \in Seq(Stanzas(L)) /\ Len(t) = Len(s) + 1
      /\ \A j \in 1 .. Len(s) : t[j] = s[j]
      /\ t[Len(s) + 1] = new
  BY <1>1, <1>2, AppendProperties
<1>. QED BY <1>1, <1>3 DEF t

\* ... and any other line is the last option of the last of them.
LEMMA OptionLine ==
    ASSUME NEW L, NEW s \in Seq(Stanzas(L)), s # <<>>, NEW line \in L, line.key # "host"
    PROVE  LET t == TakeLine(s, line)
           IN  /\ t \in Seq(Stanzas(L)) /\ Len(t) = Len(s)
               /\ \A j \in 1 .. Len(s) : j # Len(s) => t[j] = s[j]
               /\ t[Len(s)].patterns = s[Len(s)].patterns
               /\ t[Len(s)].options = Append(s[Len(s)].options, line)
<1>. DEFINE m == Len(s)
            new == [s[m] EXCEPT !.options = Append(@, line)]
            t == TakeLine(s, line)
<1>1. m \in Nat /\ m \in 1 .. m
  OBVIOUS
<1>2. s[m] \in Stanzas(L)
  BY <1>1
<1>3. /\ new \in Stanzas(L) /\ new.patterns = s[m].patterns
      /\ new.options = Append(s[m].options, line)
  <2>1. Append(s[m].options, line) \in Seq(L)
    <3>1. s[m].options \in Seq(L)
      BY <1>2 DEF Stanzas
    <3>. QED BY <3>1
  <2>. QED BY <1>2, <2>1 DEF Stanzas
<1>4. t = [s EXCEPT ![m] = new]
  BY DEF TakeLine
<1>. HIDE DEF new, t
<1>5. /\ t \in Seq(Stanzas(L)) /\ Len(t) = Len(s)
      /\ \A j \in 1 .. Len(s) : t[j] = IF j = m THEN new ELSE s[j]
  BY <1>1, <1>3, <1>4, ExceptSeq
<1>. QED BY <1>1, <1>3, <1>5 DEF t

\* The recursion is one.
LEMMA TakenExists ==
    ASSUME NEW L, NEW lines \in Seq(L)
    PROVE  \E f : IsTaken(lines, f)
<1>. DEFINE n == Len(lines)
            B == {s \in Seq(Stanzas(L)) : s # <<>>}
            b == <<FirstStanza>>
            step == [x \in (1 .. n) \X B |-> TakeLine(x[2], lines[x[1]])]
<1>1. n \in Nat /\ (\A k \in 1 .. n : lines[k] \in L)
  OBVIOUS
<1>2. b \in B
  <2>1. FirstStanza \in Stanzas(L)
    BY DEF FirstStanza, Stanzas
  <2>. QED BY <2>1
<1>3. step \in [(1 .. n) \X B -> B]
  <2>. SUFFICES ASSUME NEW k \in 1 .. n, NEW s \in B PROVE TakeLine(s, lines[k]) \in B
    OBVIOUS
  <2>1. lines[k] \in L /\ s \in Seq(Stanzas(L)) /\ s # <<>> /\ Len(s) \in Nat /\ Len(s) > 0
    BY <1>1
  <2>2. TakeLine(s, lines[k]) \in Seq(Stanzas(L)) /\ Len(TakeLine(s, lines[k])) > 0
    <3>1. CASE lines[k].key = "host"
      BY <2>1, <3>1, HostLine
    <3>2. CASE lines[k].key # "host"
      BY <2>1, <3>2, OptionLine
    <3>. QED BY <3>1, <3>2
  <2>. QED BY <2>2
<1>4. \A k \in 1 .. n : \A s \in B : step[<<k, s>>] = TakeLine(s, lines[k])
  OBVIOUS
<1>. HIDE DEF step, B, n, b
<1>5. PICK f : Steps(n, B, b, step, f)
  BY <1>1, <1>2, <1>3, StepsExist DEF Steppable
<1>6. \A k \in 0 .. n : f[k] = IF k = 0 THEN b ELSE TakeLine(f[k - 1], lines[k])
  <2>. TAKE k \in 0 .. n
  <2>1. CASE k = 0
    BY <1>5, <2>1 DEF Steps
  <2>2. CASE k # 0
    <3>1. k \in 1 .. n /\ k - 1 \in 0 .. n
      BY <1>1, <2>2
    <3>. QED BY <1>4, <1>5, <2>2, <3>1 DEF Steps
  <2>. QED BY <2>1, <2>2
<1>7. f = [k \in 0 .. n |-> f[k]]
  BY <1>5 DEF Steps
<1>8. f = [k \in 0 .. n |-> IF k = 0 THEN b ELSE TakeLine(f[k - 1], lines[k])]
  BY <1>6, <1>7
<1>. QED BY <1>8 DEF IsTaken, n, b

\* The patterns that govern what follows a line: its own, or as before.
LEMMA GoverningNext ==
    ASSUME NEW L, NEW lines \in Seq(L), NEW k \in 1 .. Len(lines)
    PROVE  Governing(lines, k + 1) = IF lines[k].key = "host" THEN lines[k].value
                                     ELSE Governing(lines, k)
<1>. DEFINE hosts(i) == {j \in 1 .. i - 1 : lines[j].key = "host"}
<1>1. \A i : Governing(lines, i) = IF hosts(i) = {} THEN {<<"*">>} ELSE lines[Max(hosts(i))].value
  BY DEF Governing
<1>2. k \in Nat /\ (k + 1) - 1 = k
  OBVIOUS
<1>3. CASE lines[k].key # "host"
  <2>1. \A j : j \in 1 .. k /\ j # k <=> j \in 1 .. k - 1
    BY <1>2
  <2>2. hosts(k + 1) = hosts(k)
    BY <1>2, <1>3, <2>1
  <2>. HIDE DEF hosts
  <2>. QED BY <1>1, <1>3, <2>2
<1>4. CASE lines[k].key = "host"
  <2>1. k \in hosts(k + 1) /\ (\A j \in hosts(k + 1) : j \in 1 .. k)
    BY <1>2, <1>4
  <2>. DEFINE H == hosts(k + 1)
  <2>. HIDE DEF hosts
  <2>2. Max(H) = k
    <3>1. \A x \in H : (\A y \in H : x >= y) => x = k
      BY <1>2, <2>1
    <3>2. \A y \in H : k >= y
      BY <1>2, <2>1
    <3>. HIDE DEF H
    <3>3. k \in H
      BY <2>1 DEF H
    <3>. QED BY <3>1, <3>2, <3>3 DEF Max
  <2>. QED BY <1>1, <1>4, <2>1, <2>2
<1>. QED BY <1>3, <1>4

\* How stanzas come from the first lines: each line that is no Host is an
\* option of one, with the patterns that govern the line.
TakenFits(L, lines, k, s, home) ==
    /\ s \in Seq(Stanzas(L)) /\ s # <<>>
    /\ s[Len(s)].patterns = Governing(lines, k + 1)
    /\ home \in [1 .. k -> 1 .. Len(s)]
    /\ \A i \in 1 .. k : lines[i].key # "host" => s[home[i]].patterns = Governing(lines, i)
    /\ \A j \in 1 .. Len(s) :
          Enumerates(s[j].options, {i \in 1 .. k : lines[i].key # "host" /\ home[i] = j}, lines)

\* Before the first line.
LEMMA FirstFits ==
    ASSUME NEW L, NEW lines \in Seq(L)
    PROVE  \E home : TakenFits(L, lines, 0, <<FirstStanza>>, home)
<1>. DEFINE s == <<FirstStanza>>
            home == [i \in 1 .. 0 |-> 1]
<1>1. FirstStanza \in Stanzas(L) /\ FirstStanza.patterns = {<<"*">>} /\ FirstStanza.options = <<>>
  BY DEF FirstStanza, Stanzas
<1>2. s \in Seq(Stanzas(L)) /\ s # <<>> /\ Len(s) = 1 /\ s[1] = FirstStanza /\ 1 .. 1 = {1}
  BY <1>1
<1>3. Governing(lines, 0 + 1) = {<<"*">>}
  BY DEF Governing
<1>4. home \in [1 .. 0 -> 1 .. Len(s)] /\ 1 .. 0 = {}
  OBVIOUS
<1>5. \A j \in 1 .. Len(s) :
        Enumerates(s[j].options, {i \in 1 .. 0 : lines[i].key # "host" /\ home[i] = j}, lines)
  <2>. TAKE j \in 1 .. Len(s)
  <2>1. s[j].options = <<>>
    BY <1>1, <1>2
  <2>2. {i \in 1 .. 0 : lines[i].key # "host" /\ home[i] = j} = {}
    BY <1>4
  <2>. QED BY <2>1, <2>2, EnumeratesNone
<1>. HIDE DEF s, home
<1>6. TakenFits(L, lines, 0, s, home)
  BY <1>1, <1>2, <1>3, <1>4, <1>5 DEF TakenFits
<1>. QED BY <1>6 DEF s

\* One more line.
LEMMA NextFits ==
    ASSUME NEW L, NEW lines \in Seq(L), NEW k \in Nat, k + 1 <= Len(lines),
           NEW s, NEW home, TakenFits(L, lines, k, s, home)
    PROVE  \E h : TakenFits(L, lines, k + 1, TakeLine(s, lines[k + 1]), h)
<1>. DEFINE line == lines[k + 1]
            t == TakeLine(s, line)
            m == Len(t)
            h == [i \in 1 .. k + 1 |-> IF i <= k THEN home[i] ELSE m]
            mine(u, n, j) == {i \in 1 .. n : lines[i].key # "host" /\ u[i] = j}
<1>1. /\ s \in Seq(Stanzas(L)) /\ s # <<>> /\ Len(s) \in Nat /\ Len(s) > 0
      /\ s[Len(s)].patterns = Governing(lines, k + 1)
      /\ home \in [1 .. k -> 1 .. Len(s)]
      /\ \A i \in 1 .. k : lines[i].key # "host" => s[home[i]].patterns = Governing(lines, i)
      /\ \A j \in 1 .. Len(s) : Enumerates(s[j].options, mine(home, k, j), lines)
  <2>1. s \in Seq(Stanzas(L)) /\ s # <<>>
    BY DEF TakenFits
  <2>2. Len(s) \in Nat /\ Len(s) > 0
    BY <2>1
  <2>. QED BY <2>1, <2>2, Zenon DEF TakenFits
<1>2. k + 1 \in 1 .. Len(lines) /\ line \in L
  OBVIOUS
<1>3. /\ t \in Seq(Stanzas(L)) /\ m \in Nat /\ m >= Len(s) /\ t # <<>>
      /\ \A j \in 1 .. Len(s) : t[j].patterns = s[j].patterns
  <2>1. CASE line.key = "host"
    <3>1. /\ t \in Seq(Stanzas(L)) /\ m = Len(s) + 1
          /\ \A j \in 1 .. Len(s) : t[j] = s[j]
      BY <1>1, <1>2, <2>1, HostLine
    <3>. HIDE DEF t
    <3>. QED BY <1>1, <3>1
  <2>2. CASE line.key # "host"
    <3>1. /\ t \in Seq(Stanzas(L)) /\ m = Len(s)
          /\ \A j \in 1 .. Len(s) : j # Len(s) => t[j] = s[j]
          /\ t[Len(s)].patterns = s[Len(s)].patterns
      BY <1>1, <1>2, <2>2, OptionLine
    <3>. HIDE DEF t
    <3>. QED BY <1>1, <3>1
  <2>. QED BY <2>1, <2>2
<1>4. t[m].patterns = Governing(lines, (k + 1) + 1)
  <2>1. CASE line.key = "host"
    <3>1. t[m].patterns = line.value
      BY <1>1, <1>2, <2>1, HostLine
    <3>. HIDE DEF t
    <3>. QED BY <1>2, <2>1, <3>1, GoverningNext
  <2>2. CASE line.key # "host"
    <3>1. m = Len(s) /\ t[Len(s)].patterns = s[Len(s)].patterns
      BY <1>1, <1>2, <2>2, OptionLine
    <3>. HIDE DEF t
    <3>. QED BY <1>1, <1>2, <2>2, <3>1, GoverningNext
  <2>. QED BY <2>1, <2>2
<1>5. /\ \A i \in 1 .. k : h[i] = home[i] /\ i \in 1 .. k + 1
      /\ h[k + 1] = m /\ h \in [1 .. k + 1 -> 1 .. m]
  <2>. HIDE DEF t
  <2>. QED BY <1>1, <1>3
<1>6. \A i \in 1 .. k + 1 : i \in 1 .. k \/ i = k + 1
  OBVIOUS
<1>7. \A i \in 1 .. k + 1 : lines[i].key # "host" => t[h[i]].patterns = Governing(lines, i)
  <2>. SUFFICES ASSUME NEW i \in 1 .. k + 1, lines[i].key # "host"
                PROVE  t[h[i]].patterns = Governing(lines, i)
    OBVIOUS
  <2>1. CASE i \in 1 .. k
    <3>. HIDE DEF t, h
    <3>. QED BY <1>1, <1>3, <1>5, <2>1
  <2>2. CASE i = k + 1
    <3>1. m = Len(s) /\ t[Len(s)].patterns = s[Len(s)].patterns
      BY <1>1, <1>2, <2>2, OptionLine
    <3>. HIDE DEF t, h
    <3>. QED BY <1>1, <1>5, <2>2, <3>1
  <2>. QED BY <1>6, <2>1, <2>2
<1>8. \A j \in 1 .. m : Enumerates(t[j].options, mine(h, k + 1, j), lines)
  <2>1. \A j : mine(h, k + 1, j) = mine(home, k, j) \cup
                   (IF line.key # "host" /\ m = j THEN {k + 1} ELSE {})
    <3>. TAKE j
    <3>1. \A i : i \in mine(h, k + 1, j) <=>
                   \/ i \in mine(home, k, j)
                   \/ i = k + 1 /\ line.key # "host" /\ m = j
      <4>. HIDE DEF h, t
      <4>1. k + 1 \in 1 .. k + 1
        OBVIOUS
      <4>. QED BY <1>5, <1>6, <4>1
    <3>. HIDE DEF mine, h, t
    <3>. QED BY <3>1
  <2>2. CASE line.key = "host"
    <3>1. /\ m = Len(s) + 1 /\ t[m].options = <<>>
          /\ \A j \in 1 .. Len(s) : t[j] = s[j]
      BY <1>1, <1>2, <2>2, HostLine
    <3>2. mine(home, k, Len(s) + 1) = {}
      <4>1. \A i \in 1 .. k : home[i] # Len(s) + 1
        <5>1. \A i \in 1 .. k : home[i] \in 1 .. Len(s)
          BY <1>1
        <5>. QED BY <1>1, <5>1
      <4>. QED BY <4>1
    <3>. TAKE j \in 1 .. m
    <3>3. mine(h, k + 1, j) = mine(home, k, j)
      BY <2>1, <2>2
    <3>. HIDE DEF mine, h, t
    <3>4. CASE j \in 1 .. Len(s)
      BY <1>1, <3>1, <3>3, <3>4
    <3>5. CASE j = Len(s) + 1
      BY <3>1, <3>2, <3>3, <3>5, EnumeratesNone
    <3>6. j \in 1 .. Len(s) \/ j = Len(s) + 1
      BY <1>1, <3>1 DEF m
    <3>. QED BY <3>4, <3>5, <3>6
  <2>3. CASE line.key # "host"
    <3>1. /\ m = Len(s) /\ t[Len(s)].options = Append(s[Len(s)].options, line)
          /\ \A j \in 1 .. Len(s) : j # Len(s) => t[j] = s[j]
      BY <1>1, <1>2, <2>3, OptionLine
    <3>. TAKE j \in 1 .. m
    <3>2. CASE j # m
      <4>1. mine(h, k + 1, j) = mine(home, k, j)
        BY <2>1, <3>2
      <4>. HIDE DEF mine, h, t
      <4>. QED BY <1>1, <3>1, <3>2, <4>1 DEF m
    <3>3. CASE j = m
      <4>. DEFINE o == s[m].options
      <4>1. mine(h, k + 1, j) = mine(home, k, j) \cup {k + 1}
        BY <2>1, <2>3, <3>3
      <4>2. j \in 1 .. Len(s) /\ j = Len(s)
        BY <3>1, <3>3
      <4>3. Enumerates(o, mine(home, k, j), lines) /\ o \in Seq(L)
        <5>1. s[j] \in Stanzas(L)
          BY <1>1, <4>2
        <5>. HIDE DEF mine, h, t
        <5>. QED BY <1>1, <3>3, <4>2, <5>1 DEF Stanzas
      <4>4. Enumerates(<<line>>, {k + 1}, lines) /\ <<line>> \in Seq(L)
        BY <1>2, EnumeratesOne
      <4>5. mine(home, k, j) \cap {k + 1} = {}
        OBVIOUS
      <4>. DEFINE M == mine(home, k, j)
      <4>6. t[j].options = o \o <<line>>
        <5>1. t[j].options = Append(o, line)
          BY <3>1, <3>3
        <5>. HIDE DEF t, o
        <5>. QED BY <1>2, <4>3, <5>1, AppendIsConcat
      <4>. HIDE DEF mine, h, t, o, m
      <4>7. Enumerates(o \o <<line>>, mine(home, k, j) \cup {k + 1}, lines)
        BY <4>3, <4>4, <4>5, EnumeratesJoined
      <4>. QED BY <4>1, <4>6, <4>7
    <3>. QED BY <3>2, <3>3
  <2>. QED BY <2>2, <2>3
<1>. HIDE DEF h, t
<1>9. TakenFits(L, lines, k + 1, t, h)
  BY <1>3, <1>4, <1>5, <1>7, <1>8 DEF TakenFits
<1>. QED BY <1>9 DEF t

\* parse_ssh_config.
LEMMA ParsedFits ==
    ASSUME NEW L, NEW lines \in Seq(L)
    PROVE  \E home : TakenFits(L, lines, Len(lines), Parsed(lines), home)
<1>. DEFINE n == Len(lines)
            f == CHOOSE f : IsTaken(lines, f)
            T == {k \in Nat : k <= n => \E home : TakenFits(L, lines, k, f[k], home)}
<1>1. n \in Nat
  OBVIOUS
<1>2. Parsed(lines) = f[n]
  BY DEF Parsed, IsTaken, TakeLine, FirstStanza
<1>3. IsTaken(lines, f)
  BY TakenExists
<1>. HIDE DEF f
<1>4. /\ f[0] = <<FirstStanza>>
      /\ \A k \in Nat : k + 1 <= n => f[k + 1] = TakeLine(f[k], lines[k + 1])
  <2>1. f = [k \in 0 .. n |-> IF k = 0 THEN <<FirstStanza>> ELSE TakeLine(f[k - 1], lines[k])]
    BY <1>3 DEF IsTaken
  <2>2. f[0] = <<FirstStanza>>
    BY <1>1, <2>1
  <2>3. ASSUME NEW k \in Nat, k + 1 <= n
        PROVE  f[k + 1] = TakeLine(f[k], lines[k + 1])
    <3>1. k + 1 \in 0 .. n /\ k + 1 # 0 /\ (k + 1) - 1 = k
      BY <1>1, <2>3
    <3>. HIDE DEF n
    <3>. QED BY <2>1, <3>1
  <2>. QED BY <2>2, <2>3
<1>5. 0 \in T
  BY <1>4, FirstFits
<1>6. ASSUME NEW k \in Nat, k \in T
      PROVE  k + 1 \in T
  <2>. SUFFICES ASSUME k + 1 <= n
                PROVE  \E home : TakenFits(L, lines, k + 1, f[k + 1], home)
    OBVIOUS
  <2>1. k <= n
    BY <1>1
  <2>2. PICK home : TakenFits(L, lines, k, f[k], home)
    BY <1>6, <2>1
  <2>3. \E h : TakenFits(L, lines, k + 1, TakeLine(f[k], lines[k + 1]), h)
    BY <2>2, NextFits
  <2>. QED BY <1>4, <2>3
<1>. HIDE DEF T
<1>7. n \in T /\ n <= n
  BY <1>1, <1>5, <1>6, SetInduction
<1>. QED BY <1>2, <1>7 DEF T

-----------------------------------------------------------------------------
(* Files that include one another.                                         *)

\* What a readable file includes is what its lines say, and is there.
LEMMA IncludesIs ==
    ASSUME NEW config, IsConfig(config), NEW f \in DOMAIN config, config[f] # Unreadable
    PROVE  /\ Includes(config[f]) \in Seq(DOMAIN config)
           /\ \A V : Range(Includes(config[f])) \subseteq V <=>
                       \A i \in DOMAIN config[f] :
                          config[f][i].key = "include" => Range(config[f][i].value) \subseteq V
<1>. DEFINE lines == config[f]
            n == Len(lines)
            F == DOMAIN config
            ss == [i \in DOMAIN lines |-> IF lines[i].key = "include" THEN lines[i].value ELSE <<>>]
<1>1. /\ lines \in Seq(Range(lines))
      /\ \A i \in DOMAIN lines : lines[i].key = "include" => lines[i].value \in Seq(F)
  BY DEF IsConfig, IsText
<1>. HIDE DEF lines, F
<1>2. n \in Nat /\ DOMAIN lines = 1 .. n
  BY <1>1
<1>3. \A i \in 1 .. n : ss[i] \in Seq(F)
  <2>1. <<>> \in Seq(F)
    OBVIOUS
  <2>. QED BY <1>1, <1>2, <2>1
<1>4. ss \in Seq(Seq(F)) /\ Len(ss) = n
  <2>1. ss = [i \in 1 .. n |-> ss[i]]
    BY <1>2
  <2>. HIDE DEF ss, n
  <2>. QED BY <1>2, <1>3, <2>1
<1>5. /\ FlattenSeq(ss) \in Seq(F)
      /\ Range(FlattenSeq(ss)) = UNION {Range(ss[k]) : k \in 1 .. n}
  BY <1>4, FlattenRange
<1>6. Includes(lines) = FlattenSeq(ss)
  BY DEF Includes
<1>7. ASSUME NEW V
      PROVE  Range(FlattenSeq(ss)) \subseteq V <=>
               \A i \in DOMAIN lines : lines[i].key = "include" => Range(lines[i].value) \subseteq V
  <2>1. Range(FlattenSeq(ss)) \subseteq V <=> \A k \in 1 .. n : Range(ss[k]) \subseteq V
    <3>. HIDE DEF ss, n
    <3>. QED BY <1>5
  <2>2. Range(<<>>) = {}
    BY DEF Range
  <2>3. \A k \in 1 .. n : Range(ss[k]) \subseteq V <=>
                             (lines[k].key = "include" => Range(lines[k].value) \subseteq V)
    <3>. TAKE k \in 1 .. n
    <3>1. CASE lines[k].key = "include"
      <4>1. ss[k] = lines[k].value
        BY <1>2, <3>1
      <4>. HIDE DEF ss
      <4>. QED BY <3>1, <4>1
    <3>2. CASE lines[k].key # "include"
      <4>1. ss[k] = <<>>
        BY <1>2, <3>2
      <4>. HIDE DEF ss
      <4>. QED BY <2>2, <3>2, <4>1
    <3>. QED BY <3>1, <3>2
  <2>. HIDE DEF ss, n
  <2>. QED BY <1>2, <2>1, <2>3
<1>. HIDE DEF ss
<1>. QED BY <1>5, <1>6, <1>7 DEF lines, F

\* A file to load, and how far the files are loaded.
Calls(config) == [name : DOMAIN config, state : Loads(config)]

Call(name, state) == [name |-> name, state |-> state]

\* The file itself, before what it includes.
Taken(x) == [x.state EXCEPT !.loaded = Append(@, x.name), !.visited = @ \cup {x.name}]

\* Then what it includes, one after the other.
FromStep(names, load, x, from, k) ==
    IF k = 0 THEN Taken(x) ELSE load[[name |-> names[k], state |-> from[k - 1]]]

IsFrom(config, load, x, from) ==
    from = [k \in 0 .. Len(Includes(config[x.name])) |->
              FromStep(Includes(config[x.name]), load, x, from, k)]

From(config, load, x) == CHOOSE from : IsFrom(config, load, x, from)

LoadStep(config, load, x) ==
    IF ~x.state.ok \/ x.name \in x.state.visited THEN x.state
    ELSE IF config[x.name] = Unreadable THEN [x.state EXCEPT !.ok = FALSE]
    ELSE From(config, load, x)[Len(Includes(config[x.name]))]

IsLoad(config, load) == load = [x \in Calls(config) |-> LoadStep(config, load, x)]

Load(config) == CHOOSE load : IsLoad(config, load)

\* load_ssh_config_path is this recursion.
LEMMA LoadPathIs ==
    ASSUME NEW config, NEW name, NEW state
    PROVE  LoadPath(config, name, state) = Load(config)[Call(name, state)]
BY DEF LoadPath, Load, IsLoad, LoadStep, From, IsFrom, FromStep, Taken, Calls, Call

\* What is called is a file with how far they are loaded.
LEMMA CallTyped ==
    ASSUME NEW config, NEW name \in DOMAIN config, NEW state \in Loads(config)
    PROVE  Call(name, state) \in Calls(config) /\ Call(name, state).name = name
           /\ Call(name, state).state = state
BY DEF Call, Calls

\* A file that is taken is loaded, and visited.
LEMMA TakenIs ==
    ASSUME NEW config, NEW x \in Calls(config)
    PROVE  /\ x.name \in DOMAIN config /\ x.state \in Loads(config)
           /\ Taken(x) \in Loads(config) /\ Taken(x).ok = x.state.ok
           /\ Taken(x).loaded = Append(x.state.loaded, x.name)
           /\ Taken(x).visited = x.state.visited \cup {x.name}
<1>1. x.name \in DOMAIN config /\ x.state \in Loads(config)
  BY DEF Calls
<1>2. x.state.loaded \in Seq(DOMAIN config) /\ x.state.visited \in SUBSET DOMAIN config
  BY <1>1 DEF Loads
<1>3. Append(x.state.loaded, x.name) \in Seq(DOMAIN config)
  BY <1>1, <1>2
<1>. QED BY <1>1, <1>2, <1>3 DEF Loads, Taken

\* Nothing that was visited is forgotten, where this is visited already.
Grows(config, load, V) ==
    \A y \in Calls(config) : V \subseteq y.state.visited =>
        load[y] \in Loads(config) /\ y.state.visited \subseteq load[y].visited

\* How the files a file includes are loaded.
FromRuns(config, load, x, g) ==
    LET names == Includes(config[x.name])
    IN  /\ g[0] = Taken(x)
        /\ \A k \in 1 .. Len(names) : names[k] \in DOMAIN config
                                      /\ g[k] = load[Call(names[k], g[k - 1])]
        /\ \A k \in 0 .. Len(names) : g[k] \in Loads(config)
                                      /\ x.state.visited \cup {x.name} \subseteq g[k].visited

\* The recursion over the files is one, and it runs so.
LEMMA FromFits ==
    ASSUME NEW config, IsConfig(config), NEW x \in Calls(config), config[x.name] # Unreadable,
           NEW load, Grows(config, load, x.state.visited \cup {x.name})
    PROVE  FromRuns(config, load, x, From(config, load, x))
<1>. DEFINE names == Includes(config[x.name])
            n == Len(names)
            V == x.state.visited \cup {x.name}
            B == {r \in Loads(config) : V \subseteq r.visited}
            b == Taken(x)
            step == [y \in (1 .. n) \X B |-> load[Call(names[y[1]], y[2])]]
<1>1. names \in Seq(DOMAIN config)
  <2>1. x.name \in DOMAIN config
    BY TakenIs
  <2>. QED BY <2>1, IncludesIs
<1>2. n \in Nat /\ (\A k \in 1 .. n : names[k] \in DOMAIN config)
  <2>. HIDE DEF names
  <2>. QED BY <1>1
<1>3. b \in B
  BY TakenIs
<1>4. \A k \in 1 .. n : \A r \in B : load[Call(names[k], r)] \in B
  <2>. SUFFICES ASSUME NEW k \in 1 .. n, NEW r \in B
                PROVE  load[Call(names[k], r)] \in B
    OBVIOUS
  <2>. DEFINE y == Call(names[k], r)
  <2>. HIDE DEF V, names
  <2>1. y \in Calls(config) /\ y.state = r /\ V \subseteq y.state.visited
    BY <1>2, CallTyped
  <2>. HIDE DEF y
  <2>2. load[y] \in Loads(config) /\ y.state.visited \subseteq load[y].visited
    BY <2>1 DEF Grows, V
  <2>3. V \subseteq load[y].visited
    BY <2>1, <2>2
  <2>. QED BY <2>2, <2>3 DEF y
<1>5. step \in [(1 .. n) \X B -> B]
  <2>. HIDE DEF n, B, names
  <2>. QED BY <1>4
<1>6. \A k \in 1 .. n : \A r \in B : step[<<k, r>>] = load[Call(names[k], r)]
  <2>. HIDE DEF n, B, names
  <2>. QED OBVIOUS
<1>. HIDE DEF step, B, n, b, names
<1>7. PICK g : Steps(n, B, b, step, g)
  BY <1>2, <1>3, <1>5, StepsExist DEF Steppable
<1>8. \A k \in 0 .. n : g[k] = FromStep(names, load, x, g, k)
  <2>. TAKE k \in 0 .. n
  <2>1. CASE k = 0
    BY <1>7, <2>1 DEF Steps, FromStep, b
  <2>2. CASE k # 0
    <3>1. k \in 1 .. n /\ k - 1 \in 0 .. n
      BY <1>2, <2>2
    <3>2. g[k] = load[Call(names[k], g[k - 1])]
      BY <1>6, <1>7, <3>1 DEF Steps
    <3>. QED BY <2>2, <3>2 DEF FromStep, Call
  <2>. QED BY <2>1, <2>2
<1>9. g = [k \in 0 .. n |-> g[k]]
  BY <1>7 DEF Steps
<1>10. g = [k \in 0 .. n |-> FromStep(names, load, x, g, k)]
  BY <1>8, <1>9
<1>11. IsFrom(config, load, x, g)
  BY <1>10 DEF IsFrom, n, names
<1>. DEFINE h == From(config, load, x)
<1>12. IsFrom(config, load, x, h)
  BY <1>11 DEF From
<1>. HIDE DEF h
<1>13. h = [k \in 0 .. n |-> FromStep(names, load, x, h, k)]
  BY <1>12 DEF IsFrom, n, names
<1>14. h[0] = b
  BY <1>2, <1>13 DEF FromStep, b
<1>15. \A k \in 1 .. n : h[k] = load[Call(names[k], h[k - 1])]
  <2>. TAKE k \in 1 .. n
  <2>1. k \in 0 .. n /\ k # 0
    BY <1>2
  <2>. QED BY <1>13, <2>1 DEF FromStep, Call
<1>. DEFINE T == {k \in Nat : k <= n => h[k] \in B}
<1>16. 0 \in T
  BY <1>3, <1>14
<1>17. ASSUME NEW k \in Nat, k \in T
       PROVE  k + 1 \in T
  <2>. SUFFICES ASSUME k + 1 <= n PROVE h[k + 1] \in B
    OBVIOUS
  <2>1. k + 1 \in 1 .. n /\ (k + 1) - 1 = k /\ k <= n
    BY <1>2
  <2>2. h[k] \in B
    BY <1>17, <2>1
  <2>3. h[k + 1] = load[Call(names[k + 1], h[k])]
    BY <1>15, <2>1
  <2>. QED BY <1>4, <2>1, <2>2, <2>3
<1>. HIDE DEF T
<1>18. Nat \subseteq T
  BY <1>16, <1>17, SetInduction
<1>19. \A k \in 0 .. n : h[k] \in B
  <2>. TAKE k \in 0 .. n
  <2>1. k \in Nat /\ k <= n
    BY <1>2
  <2>. QED BY <1>18, <2>1 DEF T
<1>20. \A k \in 0 .. n : h[k] \in Loads(config) /\ x.state.visited \cup {x.name} \subseteq h[k].visited
  BY <1>19 DEF B, V
<1>. QED BY <1>2, <1>14, <1>15, <1>20 DEF FromRuns, h, n, names, b

\* The files that are left to visit.
Left(config, x) == Cardinality(DOMAIN config \ x.state.visited)

\* They are at most all of them.
LEMMA LeftIs ==
    ASSUME NEW config, IsConfig(config), NEW x
    PROVE  /\ Cardinality(DOMAIN config) \in Nat
           /\ Left(config, x) \in 0 .. Cardinality(DOMAIN config)
<1>. DEFINE D == DOMAIN config
            R == D \ x.state.visited
<1>1. IsFiniteSet(D)
  BY DEF IsConfig
<1>2. R \in SUBSET D
  OBVIOUS
<1>. HIDE DEF R, D
<1>3. Cardinality(D) \in Nat /\ Cardinality(R) \in Nat /\ Cardinality(R) <= Cardinality(D)
  BY <1>1, <1>2, FS_Subset, FS_CardinalityType
<1>. QED BY <1>3 DEF Left, R, D

\* There are less when a file has been visited.
LEMMA LeftShrinks ==
    ASSUME NEW config, IsConfig(config), NEW x \in Calls(config), x.name \notin x.state.visited,
           NEW y, x.state.visited \cup {x.name} \subseteq y.state.visited
    PROVE  Left(config, y) < Left(config, x)
<1>. DEFINE D == DOMAIN config
            R == D \ x.state.visited
            Q == D \ y.state.visited
<1>1. IsFiniteSet(D)
  BY DEF IsConfig
<1>2. R \in SUBSET D /\ Q \in SUBSET R /\ Q # R
  BY DEF Calls
<1>. HIDE DEF Q, R, D
<1>3. IsFiniteSet(R)
  BY <1>1, <1>2, FS_Subset
<1>4. Cardinality(R) \in Nat /\ Cardinality(Q) \in Nat /\ Cardinality(Q) < Cardinality(R)
  BY <1>2, <1>3, FS_Subset, FS_CardinalityType
<1>. QED BY <1>4 DEF Left, Q, R, D

\* What is left unless a file that is not visited is taken.
LEMMA LoadStepIs ==
    ASSUME NEW config, NEW load, NEW x \in Calls(config)
    PROVE  \/ LoadStep(config, load, x) = x.state /\ (x.state.ok => x.name \in x.state.visited)
           \/ /\ x.state.ok /\ x.name \notin x.state.visited /\ config[x.name] = Unreadable
              /\ LoadStep(config, load, x) = [x.state EXCEPT !.ok = FALSE]
           \/ /\ x.state.ok /\ x.name \notin x.state.visited /\ config[x.name] # Unreadable
              /\ LoadStep(config, load, x) = From(config, load, x)[Len(Includes(config[x.name]))]
<1>1. x.state.ok \in BOOLEAN
  BY DEF Calls, Loads
<1>. QED BY <1>1 DEF LoadStep

\* The number of a file's includes.
LEMMA IncludesCount ==
    ASSUME NEW config, IsConfig(config), NEW x \in Calls(config), config[x.name] # Unreadable
    PROVE  Len(Includes(config[x.name])) \in Nat
<1>1. x.name \in DOMAIN config
  BY TakenIs
<1>2. Includes(config[x.name]) \in Seq(DOMAIN config)
  BY <1>1, IncludesIs
<1>. QED BY <1>2

\* The step keeps what was visited, where the function does.
LEMMA LoadStepGrows ==
    ASSUME NEW config, IsConfig(config), NEW x \in Calls(config), NEW load,
           x.name \notin x.state.visited => Grows(config, load, x.state.visited \cup {x.name})
    PROVE  /\ LoadStep(config, load, x) \in Loads(config)
           /\ x.state.visited \subseteq LoadStep(config, load, x).visited
<1>1. x.state \in Loads(config) /\ x.name \in DOMAIN config
  BY TakenIs
<1>2. CASE LoadStep(config, load, x) = x.state
  BY <1>1, <1>2
<1>3. CASE LoadStep(config, load, x) = [x.state EXCEPT !.ok = FALSE]
  BY <1>1, <1>3 DEF Loads
<1>4. CASE /\ x.name \notin x.state.visited /\ config[x.name] # Unreadable
           /\ LoadStep(config, load, x) = From(config, load, x)[Len(Includes(config[x.name]))]
  <2>. DEFINE n == Len(Includes(config[x.name]))
              g == From(config, load, x)
  <2>1. FromRuns(config, load, x, g)
    BY <1>4, FromFits
  <2>2. n \in Nat /\ n \in 0 .. n
    BY <1>4, IncludesCount
  <2>3. g[n] \in Loads(config) /\ x.state.visited \cup {x.name} \subseteq g[n].visited
    <3>. HIDE DEF g
    <3>. QED BY <2>1, <2>2 DEF FromRuns
  <2>. QED BY <1>4, <2>3
<1>. QED BY <1>2, <1>3, <1>4, LoadStepIs

\* Functions that forget nothing.
Growing(config) ==
    {f \in [Calls(config) -> Loads(config)] :
        \A y \in Calls(config) : y.state.visited \subseteq f[y].visited}

\* The recursion over the files is one.
LEMMA LoadExists ==
    ASSUME NEW config, IsConfig(config)
    PROVE  \E load : IsLoad(config, load)
<1>. DEFINE D == Calls(config)
            B == Loads(config)
            F == Growing(config)
            N == Cardinality(DOMAIN config)
            rank == [x \in D |-> Left(config, x)]
            next(f) == [x \in D |-> LoadStep(config, f, x)]
            step == [f \in F |-> next(f)]
<1>1. N \in Nat /\ rank \in [D -> 0 .. N]
  BY LeftIs
<1>2. F # {} /\ F \subseteq [D -> B]
  <2>. DEFINE f == [x \in D |-> x.state]
  <2>1. f \in [D -> B] /\ \A y \in D : y.state.visited \subseteq f[y].visited
    BY DEF Calls
  <2>. HIDE DEF f
  <2>2. f \in F
    BY <2>1 DEF Growing
  <2>. QED BY <2>2 DEF Growing
<1>3. \A f \in F : \A V : Grows(config, f, V)
  BY DEF Growing, Grows
<1>4. \A f \in F : next(f) \in F
  <2>. TAKE f \in F
  <2>1. ASSUME NEW x \in D
        PROVE  LoadStep(config, f, x) \in B /\ x.state.visited \subseteq LoadStep(config, f, x).visited
    <3>1. Grows(config, f, x.state.visited \cup {x.name})
      BY <1>3
    <3>. HIDE DEF F
    <3>. QED BY <3>1, LoadStepGrows
  <2>. DEFINE h == next(f)
  <2>2. h \in [D -> B]
    BY <2>1
  <2>3. \A x \in D : h[x] = LoadStep(config, f, x)
    OBVIOUS
  <2>. HIDE DEF h
  <2>4. \A x \in D : x.state.visited \subseteq h[x].visited
    BY <2>1, <2>3
  <2>5. h \in F
    BY <2>2, <2>4 DEF Growing
  <2>. QED BY <2>5 DEF h
<1>5. step \in [F -> F]
  <2>. HIDE DEF F, next
  <2>. QED BY <1>4
<1>6. ASSUME NEW f \in F, NEW g \in F, NEW x \in D,
             \A y \in D : rank[y] < rank[x] => f[y] = g[y]
      PROVE  LoadStep(config, f, x) = LoadStep(config, g, x)
  <2>1. CASE x.name \in x.state.visited \/ ~x.state.ok \/ config[x.name] = Unreadable
    <3>1. x.state.ok \in BOOLEAN
      BY DEF Calls, Loads
    <3>. QED BY <2>1, <3>1 DEF LoadStep
  <2>2. CASE x.name \notin x.state.visited /\ config[x.name] # Unreadable
    <3>. DEFINE names == Includes(config[x.name])
                n == Len(names)
                a == From(config, f, x)
                b == From(config, g, x)
                V == x.state.visited \cup {x.name}
                T == {k \in Nat : k <= n => a[k] = b[k]}
    <3>1. FromRuns(config, f, x, a) /\ FromRuns(config, g, x, b)
      BY <1>3, <2>2, FromFits
    <3>2. n \in Nat
      BY <2>2, IncludesCount
    <3>. HIDE DEF a, b, F, n, names
    <3>3. /\ a[0] = b[0]
          /\ \A k \in 1 .. n : /\ names[k] \in DOMAIN config
                               /\ a[k] = f[Call(names[k], a[k - 1])]
                               /\ b[k] = g[Call(names[k], b[k - 1])]
          /\ \A k \in 0 .. n : a[k] \in B /\ V \subseteq a[k].visited
      BY <3>1 DEF FromRuns, n, names
    <3>4. 0 \in T
      BY <3>3
    <3>5. ASSUME NEW k \in Nat, k \in T
          PROVE  k + 1 \in T
      <4>. SUFFICES ASSUME k + 1 <= n PROVE a[k + 1] = b[k + 1]
        OBVIOUS
      <4>1. k + 1 \in 1 .. n /\ (k + 1) - 1 = k /\ k <= n /\ k \in 0 .. n
        BY <3>2
      <4>. DEFINE y == Call(names[k + 1], a[k])
      <4>2. y \in D /\ y.state = a[k] /\ V \subseteq y.state.visited
        BY <3>3, <4>1, CallTyped
      <4>3. /\ a[k] = b[k] /\ a[k + 1] = f[y]
            /\ b[k + 1] = g[Call(names[k + 1], b[k])]
        BY <3>3, <3>5, <4>1
      <4>4. b[k + 1] = g[y]
        BY <4>3
      <4>. HIDE DEF y
      <4>5. rank[y] < rank[x]
        <5>1. Left(config, y) < Left(config, x)
          BY <2>2, <4>2, LeftShrinks
        <5>. HIDE DEF D
        <5>. QED BY <4>2, <5>1
      <4>. HIDE DEF rank
      <4>. QED BY <1>6, <4>2, <4>3, <4>4, <4>5
    <3>. HIDE DEF T
    <3>6. n \in T /\ n <= n
      BY <3>2, <3>4, <3>5, SetInduction
    <3>7. a[n] = b[n]
      BY <3>6 DEF T
    <3>. QED BY <2>2, <3>7 DEF LoadStep, a, b, n, names
  <2>. QED BY <2>1, <2>2
<1>7. \A f, g \in F : \A x \in D :
        (\A y \in D : rank[y] < rank[x] => f[y] = g[y]) => step[f][x] = step[g][x]
  <2>. SUFFICES ASSUME NEW f \in F, NEW g \in F, NEW x \in D,
                       \A y \in D : rank[y] < rank[x] => f[y] = g[y]
                PROVE  step[f][x] = step[g][x]
    OBVIOUS
  <2>1. step[f][x] = LoadStep(config, f, x) /\ step[g][x] = LoadStep(config, g, x)
    <3>. HIDE DEF F, D
    <3>. QED OBVIOUS
  <2>. HIDE DEF step, F, D, rank
  <2>. QED BY <1>6, <2>1
<1>8. RecursionIn(D, B, F, N, rank, step)
  <2>. HIDE DEF D, B, F, N, rank, step
  <2>. QED BY <1>1, <1>2, <1>5, <1>7 DEF RecursionIn
<1>9. \E f \in F : f = step[f]
  <2>. HIDE DEF D, B, F, N, rank, step
  <2>. QED BY <1>8, RecursionExistsIn
<1>10. PICK f \in F : f = step[f]
  BY <1>9
<1>11. f = next(f)
  <2>. HIDE DEF F, next
  <2>. QED BY <1>10
<1>12. IsLoad(config, f)
  BY <1>11 DEF IsLoad
<1>. QED BY <1>12

\* What the recursion defines.
LEMMA LoadRuns ==
    ASSUME NEW config, IsConfig(config), NEW x \in Calls(config)
    PROVE  Load(config)[x] = LoadStep(config, Load(config), x)
<1>. DEFINE load == Load(config)
<1>1. IsLoad(config, load)
  BY LoadExists DEF Load
<1>. HIDE DEF load
<1>2. load = [y \in Calls(config) |-> LoadStep(config, load, y)]
  BY <1>1 DEF IsLoad
<1>3. load[x] = LoadStep(config, load, x)
  BY <1>2
<1>. QED BY <1>3 DEF load

\* What holds of a call when it holds of those with less left holds of all.
LEMMA CallInduction ==
    ASSUME NEW config, IsConfig(config), NEW G,
           \A x \in Calls(config) :
              (\A y \in Calls(config) : Left(config, y) < Left(config, x) => y \in G) => x \in G
    PROVE  Calls(config) \subseteq G
<1>. DEFINE D == Calls(config)
            T == {k \in Nat : \A x \in D : Left(config, x) < k => x \in G}
<1>1. \A x \in D : Left(config, x) \in Nat
  BY LeftIs
<1>. HIDE DEF D
<1>2. 0 \in T
  <2>1. \A x \in D : ~(Left(config, x) < 0)
    BY <1>1
  <2>. QED BY <2>1
<1>3. ASSUME NEW k \in Nat, k \in T
      PROVE  k + 1 \in T
  <2>. SUFFICES ASSUME NEW x \in D, Left(config, x) < k + 1 PROVE x \in G
    OBVIOUS
  <2>1. ASSUME NEW y \in D, Left(config, y) < Left(config, x)
        PROVE  y \in G
    <3>1. Left(config, y) < k
      BY <1>1, <2>1
    <3>. QED BY <1>3, <3>1
  <2>. QED BY <2>1 DEF D
<1>4. ASSUME NEW x \in D
      PROVE  x \in G
  <2>. DEFINE k == Left(config, x) + 1
  <2>1. k \in Nat /\ Left(config, x) < k
    BY <1>1
  <2>. HIDE DEF k
  <2>2. k \in T
    <3>. HIDE DEF T
    <3>. QED BY <1>2, <1>3, <2>1, SetInduction
  <2>. QED BY <2>1, <2>2
<1>. QED BY <1>4 DEF D

\* Loading forgets nothing that was visited.
LEMMA LoadGrows ==
    ASSUME NEW config, IsConfig(config)
    PROVE  \A V : Grows(config, Load(config), V)
<1>. DEFINE load == Load(config)
            G == {x \in Calls(config) : /\ load[x] \in Loads(config)
                                        /\ x.state.visited \subseteq load[x].visited}
<1>1. ASSUME NEW x \in Calls(config),
             \A y \in Calls(config) : Left(config, y) < Left(config, x) => y \in G
      PROVE  x \in G
  <2>1. x.name \notin x.state.visited => Grows(config, load, x.state.visited \cup {x.name})
    <3>. SUFFICES ASSUME x.name \notin x.state.visited, NEW y \in Calls(config),
                         x.state.visited \cup {x.name} \subseteq y.state.visited
                  PROVE  load[y] \in Loads(config) /\ y.state.visited \subseteq load[y].visited
      BY DEF Grows
    <3>1. Left(config, y) < Left(config, x)
      BY LeftShrinks
    <3>. HIDE DEF load
    <3>. QED BY <1>1, <3>1
  <2>2. load[x] = LoadStep(config, load, x)
    BY LoadRuns
  <2>. HIDE DEF load
  <2>. QED BY <2>1, <2>2, LoadStepGrows
<1>. HIDE DEF G
<1>2. Calls(config) \subseteq G
  BY <1>1, CallInduction
<1>. HIDE DEF load
<1>3. \A y \in Calls(config) : load[y] \in Loads(config) /\ y.state.visited \subseteq load[y].visited
  BY <1>2 DEF G
<1>. QED BY <1>3 DEF Grows, load

\* Each file that is visited is loaded once.
Sound(s) ==
    /\ Range(s.loaded) = s.visited
    /\ \A i, j \in DOMAIN s.loaded : s.loaded[i] = s.loaded[j] => i = j

\* A file is read, and what it includes is among some.
Kept(config, f, V) == config[f] # Unreadable /\ Range(Includes(config[f])) \subseteq V

\* How loading comes from s to r, with some files done: what is visited on
\* the way is among the files C, and is read with what it includes.
Progress(config, C, s, done, r) ==
    /\ Sound(r)
    /\ s.visited \subseteq r.visited
    /\ r.visited \subseteq s.visited \cup C
    /\ r.ok => /\ s.ok /\ done \subseteq r.visited
               /\ \A f \in r.visited : f \in s.visited \/ Kept(config, f, r.visited)
    /\ s.ok /\ ~r.ok => \E f \in C : config[f] = Unreadable

\* Loading goes on from where it is.
LEMMA ProgressOn ==
    ASSUME NEW config, NEW C, NEW s, NEW r, NEW q, NEW done, NEW also,
           Progress(config, C, s, done, r), Progress(config, C, r, also, q)
    PROVE  Progress(config, C, s, done \cup also, q)
<1>1. q.ok => \A f \in q.visited : f \in s.visited \/ Kept(config, f, q.visited)
  <2>. SUFFICES ASSUME q.ok, NEW f \in q.visited, f \notin s.visited
                PROVE  Kept(config, f, q.visited)
    OBVIOUS
  <2>1. r.ok /\ r.visited \subseteq q.visited
    BY DEF Progress
  <2>2. CASE f \in r.visited
    <3>1. Kept(config, f, r.visited)
      BY <2>1, <2>2 DEF Progress
    <3>. QED BY <2>1, <3>1 DEF Kept
  <2>3. CASE f \notin r.visited
    BY <2>3 DEF Progress
  <2>. QED BY <2>2, <2>3
<1>. QED BY <1>1 DEF Progress

\* A file that is not loaded yet.
LEMMA TakenSound ==
    ASSUME NEW config, NEW x \in Calls(config), Sound(x.state), x.name \notin x.state.visited
    PROVE  Sound(Taken(x))
<1>. DEFINE l == x.state.loaded
            m == Taken(x).loaded
            F == DOMAIN config
<1>1. /\ x.name \in F /\ l \in Seq(F) /\ m = Append(l, x.name)
      /\ Taken(x).visited = x.state.visited \cup {x.name}
  BY TakenIs DEF Loads
<1>. HIDE DEF l, m, F
<1>2. /\ Len(l) \in Nat /\ DOMAIN l = 1 .. Len(l) /\ Len(m) = Len(l) + 1
      /\ m \in Seq(F) /\ m[Len(l) + 1] = x.name /\ (\A i \in 1 .. Len(l) : m[i] = l[i])
  BY <1>1, AppendProperties
<1>3. DOMAIN m = 1 .. Len(l) + 1
  BY <1>2
<1>4. \A i : i \in 1 .. Len(l) + 1 <=> i \in 1 .. Len(l) \/ i = Len(l) + 1
  BY <1>2
<1>5. \A i \in 1 .. Len(l) : l[i] # x.name
  BY <1>2 DEF Sound, Range, l
<1>6. \A i, j \in 1 .. Len(l) : l[i] = l[j] => i = j
  BY <1>2 DEF Sound, l
<1>7. \A i, j \in DOMAIN m : m[i] = m[j] => i = j
  BY <1>2, <1>3, <1>4, <1>5, <1>6
<1>8. Range(m) = Range(l) \cup {x.name}
  <2>1. \A i \in DOMAIN m : m[i] \in Range(l) \cup {x.name}
    BY <1>2, <1>3, <1>4 DEF Range
  <2>2. \A i \in DOMAIN l : \E j \in DOMAIN m : m[j] = l[i]
    BY <1>2, <1>3, <1>4
  <2>3. \E j \in DOMAIN m : m[j] = x.name
    BY <1>2, <1>3, <1>4
  <2>. QED BY <2>1, <2>2, <2>3 DEF Range
<1>9. Range(l) = x.state.visited
  BY DEF Sound, l
<1>. QED BY <1>1, <1>7, <1>8, <1>9 DEF Sound, m

\* Files with all they include.
IncludeClosed(config, C) ==
    /\ C \subseteq DOMAIN config
    /\ \A f \in C : config[f] # Unreadable => Range(Includes(config[f])) \subseteq C

\* A call does what it should.
CallFine(config, C, x) ==
    x.name \in C /\ Sound(x.state) => Progress(config, C, x.state, {x.name}, Load(config)[x])

\* What is included, one after the other.
LEMMA IncludesLoaded ==
    ASSUME NEW config, IsConfig(config), NEW C, IncludeClosed(config, C),
           NEW x \in Calls(config), x.name \in C, Sound(x.state), x.state.ok,
           x.name \notin x.state.visited, config[x.name] # Unreadable,
           \A y \in Calls(config) : Left(config, y) < Left(config, x) => CallFine(config, C, y)
    PROVE  LET names == Includes(config[x.name])
           IN  Progress(config, C, Taken(x), Range(names),
                        From(config, Load(config), x)[Len(names)])
<1>. DEFINE load == Load(config)
            names == Includes(config[x.name])
            n == Len(names)
            V == x.state.visited \cup {x.name}
            g == From(config, load, x)
            t == Taken(x)
            upTo(k) == {names[j] : j \in 1 .. k}
            T == {k \in Nat : k <= n => Progress(config, C, t, upTo(k), g[k])}
<1>1. FromRuns(config, load, x, g)
  BY LoadGrows, FromFits
<1>2. n \in Nat
  BY IncludesCount
<1>3. Range(names) = upTo(n) /\ Range(names) \subseteq C
  <2>1. x.name \in DOMAIN config
    BY TakenIs
  <2>2. names \in Seq(DOMAIN config)
    BY <2>1, IncludesIs
  <2>. HIDE DEF names
  <2>3. Range(names) = upTo(n)
    BY <2>2 DEF Range
  <2>. HIDE DEF upTo
  <2>4. Range(names) \subseteq C
    BY DEF IncludeClosed, names
  <2>. QED BY <2>3, <2>4
<1>. HIDE DEF g, names, n
<1>4. /\ g[0] = t
      /\ \A k \in 1 .. n : names[k] \in DOMAIN config /\ g[k] = load[Call(names[k], g[k - 1])]
      /\ \A k \in 0 .. n : g[k] \in Loads(config) /\ V \subseteq g[k].visited
  BY <1>1 DEF FromRuns, n, names
<1>5. Sound(t)
  BY TakenSound
<1>. HIDE DEF load, t
<1>6. 0 \in T
  <2>1. upTo(0) = {}
    OBVIOUS
  <2>. HIDE DEF upTo
  <2>2. Progress(config, C, t, {}, t)
    BY <1>5 DEF Progress
  <2>. QED BY <1>4, <2>1, <2>2
<1>7. ASSUME NEW k \in Nat, k \in T
      PROVE  k + 1 \in T
  <2>. SUFFICES ASSUME k + 1 <= n PROVE Progress(config, C, t, upTo(k + 1), g[k + 1])
    OBVIOUS
  <2>1. k + 1 \in 1 .. n /\ (k + 1) - 1 = k /\ k <= n /\ k \in 0 .. n
    BY <1>2
  <2>2. Progress(config, C, t, upTo(k), g[k])
    BY <1>7, <2>1
  <2>. DEFINE y == Call(names[k + 1], g[k])
  <2>3. /\ y \in Calls(config) /\ y.state = g[k] /\ y.name = names[k + 1]
        /\ V \subseteq y.state.visited
    BY <1>4, <2>1, CallTyped
  <2>4. g[k + 1] = load[y]
    BY <1>4, <2>1
  <2>. HIDE DEF y, T
  <2>5. Left(config, y) < Left(config, x)
    BY <2>3, LeftShrinks
  <2>6. y.name \in C
    <3>1. names[k + 1] \in upTo(n)
      BY <2>1
    <3>. HIDE DEF upTo
    <3>. QED BY <1>3, <2>3, <3>1
  <2>7. upTo(k + 1) = upTo(k) \cup {y.name}
    <3>1. \A j : j \in 1 .. k + 1 <=> j \in 1 .. k \/ j = k + 1
      OBVIOUS
    <3>. QED BY <2>3, <3>1
  <2>. HIDE DEF upTo
  <2>8. Sound(y.state)
    BY <2>2, <2>3 DEF Progress
  <2>9. Progress(config, C, g[k], {y.name}, g[k + 1])
    BY <2>3, <2>4, <2>5, <2>6, <2>8 DEF CallFine, load
  <2>10. Progress(config, C, t, upTo(k) \cup {y.name}, g[k + 1])
    BY <2>2, <2>9, ProgressOn
  <2>. QED BY <2>7, <2>10
<1>. HIDE DEF T
<1>8. n \in T /\ n <= n
  BY <1>2, <1>6, <1>7, SetInduction
<1>9. Progress(config, C, t, upTo(n), g[n])
  BY <1>8 DEF T
<1>. HIDE DEF upTo
<1>. QED BY <1>3, <1>9 DEF g, t, n, names, load

\* A file and all it includes.
LEMMA CallsFine ==
    ASSUME NEW config, IsConfig(config), NEW C, IncludeClosed(config, C), NEW x \in Calls(config)
    PROVE  CallFine(config, C, x)
<1>. DEFINE G == {y \in Calls(config) : CallFine(config, C, y)}
<1>1. ASSUME NEW z \in Calls(config),
             \A y \in Calls(config) : Left(config, y) < Left(config, z) => y \in G
      PROVE  z \in G
  <2>. DEFINE s == z.state
              r == Load(config)[z]
  <2>. SUFFICES ASSUME z.name \in C, Sound(s)
                PROVE  Progress(config, C, s, {z.name}, r)
    BY DEF CallFine
  <2>1. r = LoadStep(config, Load(config), z)
    BY LoadRuns
  <2>2. s \in Loads(config) /\ z.name \in DOMAIN config
    BY TakenIs
  <2>. HIDE DEF r
  <2>3. CASE r = s /\ (s.ok => z.name \in s.visited)
    BY <2>3 DEF Progress
  <2>4. CASE config[z.name] = Unreadable /\ r = [s EXCEPT !.ok = FALSE]
    <3>1. r.ok = FALSE /\ r.visited = s.visited /\ r.loaded = s.loaded
      BY <2>2, <2>4 DEF Loads
    <3>2. Sound(r)
      BY <3>1 DEF Sound
    <3>. QED BY <2>4, <3>1, <3>2 DEF Progress
  <2>5. CASE /\ s.ok /\ z.name \notin s.visited /\ config[z.name] # Unreadable
             /\ r = From(config, Load(config), z)[Len(Includes(config[z.name]))]
    <3>. DEFINE t == Taken(z)
                names == Includes(config[z.name])
    <3>1. Progress(config, C, t, Range(names), r)
      <4>1. \A y \in Calls(config) : Left(config, y) < Left(config, z) => CallFine(config, C, y)
        BY <1>1
      <4>. HIDE DEF G
      <4>. QED BY <2>5, <4>1, IncludesLoaded
    <3>2. t.visited = s.visited \cup {z.name} /\ t.ok = s.ok
      BY TakenIs
    <3>. HIDE DEF t, G
    <3>3. r.ok => Kept(config, z.name, r.visited)
      BY <2>5, <3>1 DEF Progress, Kept
    <3>4. r.ok => \A f \in r.visited : f \in s.visited \/ Kept(config, f, r.visited)
      BY <3>1, <3>2, <3>3 DEF Progress
    <3>. HIDE DEF names
    <3>. QED BY <2>5, <3>1, <3>2, <3>4 DEF Progress
  <2>6. \/ r = s /\ (s.ok => z.name \in s.visited)
        \/ /\ s.ok /\ z.name \notin s.visited /\ config[z.name] = Unreadable
           /\ r = [s EXCEPT !.ok = FALSE]
        \/ /\ s.ok /\ z.name \notin s.visited /\ config[z.name] # Unreadable
           /\ r = From(config, Load(config), z)[Len(Includes(config[z.name]))]
    BY <2>1, LoadStepIs
  <2>. QED BY <2>3, <2>4, <2>5, <2>6
<1>. HIDE DEF G
<1>2. Calls(config) \subseteq G
  BY <1>1, CallInduction
<1>. QED BY <1>2 DEF G

\* The files that are reached have all they include.
LEMMA ReachedClosed ==
    ASSUME NEW config, IsConfig(config)
    PROVE  IncludeClosed(config, Reached(config)) /\ Reached(config) \subseteq DOMAIN config
<1>1. Reached(config) \subseteq DOMAIN config
  BY DEF Reached
<1>2. ASSUME NEW f \in Reached(config), config[f] # Unreadable
      PROVE  Range(Includes(config[f])) \subseteq Reached(config)
  <2>1. f \in DOMAIN config
    BY <1>1
  <2>2. Range(Includes(config[f])) \subseteq DOMAIN config
    <3>1. Includes(config[f]) \in Seq(DOMAIN config)
      BY <1>2, <2>1, IncludesIs
    <3>. QED BY <3>1, RangeOfSeq
  <2>3. ASSUME NEW names \in SUBSET DOMAIN config, Closed(config, names)
        PROVE  Range(Includes(config[f])) \subseteq names
    <3>1. f \in names
      BY <2>3 DEF Reached
    <3>2. \A i \in DOMAIN config[f] :
             config[f][i].key = "include" => Range(config[f][i].value) \subseteq names
      BY <1>2, <2>3, <3>1 DEF Closed
    <3>. QED BY <1>2, <2>1, <3>2, IncludesIs
  <2>. QED BY <2>2, <2>3 DEF Reached
<1>. QED BY <1>1, <1>2 DEF IncludeClosed

\* Along whatever ways the files of an ssh configuration include one another,
\* also in cycles, each that is to be read is loaded once, and nothing else
\* is; it fails just when one of them cannot be read (load_ssh_config_path).
THEOREM LoadsReached ==
    ASSUME NEW config, IsConfig(config), UserConfig \in DOMAIN config
    PROVE  LET all == LoadPath(config, UserConfig, Nothing)
           IN  /\ all \in Loads(config)
               /\ all.ok <=> \A f \in Reached(config) : config[f] # Unreadable
               /\ all.ok => Range(all.loaded) = Reached(config)
               /\ \A i, j \in DOMAIN all.loaded : all.loaded[i] = all.loaded[j] => i = j
<1>. DEFINE C == Reached(config)
            x == Call(UserConfig, Nothing)
            r == Load(config)[x]
<1>1. Nothing \in Loads(config) /\ Nothing.ok /\ Nothing.visited = {} /\ Nothing.loaded = <<>>
  BY DEF Nothing, Loads
<1>2. x \in Calls(config) /\ x.name = UserConfig /\ x.state = Nothing
  BY <1>1, CallTyped
<1>3. UserConfig \in C
  BY DEF Reached, Closed
<1>4. Sound(Nothing)
  BY <1>1 DEF Sound, Range
<1>5. r \in Loads(config)
  <2>1. Grows(config, Load(config), {})
    BY LoadGrows
  <2>. HIDE DEF x
  <2>. QED BY <1>2, <2>1 DEF Grows
<1>6. LoadPath(config, UserConfig, Nothing) = r
  BY LoadPathIs
<1>7. Progress(config, C, Nothing, {UserConfig}, r)
  <2>1. CallFine(config, C, x)
    BY <1>2, CallsFine, ReachedClosed
  <2>. HIDE DEF x, C
  <2>. QED BY <1>2, <1>3, <1>4, <2>1 DEF CallFine
<1>. HIDE DEF r
<1>8. ASSUME r.ok
      PROVE  r.visited = C /\ \A f \in C : config[f] # Unreadable
  <2>1. /\ UserConfig \in r.visited /\ r.visited \subseteq C
        /\ \A f \in r.visited : Kept(config, f, r.visited)
    BY <1>1, <1>7, <1>8 DEF Progress
  <2>2. r.visited \in SUBSET DOMAIN config
    BY <1>5 DEF Loads
  <2>3. Closed(config, r.visited)
    <3>1. ASSUME NEW f \in r.visited
          PROVE  \A i \in DOMAIN config[f] :
                    config[f][i].key = "include" => Range(config[f][i].value) \subseteq r.visited
      <4>1. f \in DOMAIN config /\ config[f] # Unreadable
            /\ Range(Includes(config[f])) \subseteq r.visited
        BY <2>1, <2>2 DEF Kept
      <4>. QED BY <4>1, IncludesIs
    <3>. QED BY <2>1, <3>1 DEF Closed
  <2>4. C \subseteq r.visited
    BY <2>2, <2>3 DEF Reached
  <2>. HIDE DEF C
  <2>. QED BY <2>1, <2>4 DEF Kept
<1>9. ~r.ok => \E f \in C : config[f] = Unreadable
  BY <1>1, <1>7 DEF Progress
<1>10. Sound(r)
  BY <1>7 DEF Progress
<1>. HIDE DEF C
<1>11. r.ok \in BOOLEAN
  BY <1>5 DEF Loads
<1>. QED BY <1>5, <1>6, <1>8, <1>9, <1>10, <1>11 DEF Sound, C

-----------------------------------------------------------------------------
(* The keys that are offered.                                              *)

\* Sequences for each of a set, once: what they enumerate are parts.
Spread(ss, K, q, parts, val) ==
    /\ q \in [1 .. Len(ss) -> K]
    /\ \A i, j \in 1 .. Len(ss) : q[i] = q[j] => i = j
    /\ \A k \in K : \E i \in 1 .. Len(ss) : q[i] = k
    /\ \A i \in 1 .. Len(ss) : Enumerates(ss[i], parts[q[i]], val)
    /\ \A j, k \in K : j # k => parts[j] \cap parts[k] = {}

Together(K, parts) == UNION {parts[k] : k \in K}

\* Put together they enumerate all parts.
LEMMA SpreadEnumerates ==
    ASSUME NEW S, NEW ss \in Seq(Seq(S)), NEW K, NEW q, NEW parts, NEW val,
           Spread(ss, K, q, parts, val)
    PROVE  /\ FlattenSeq(ss) \in Seq(S)
           /\ Enumerates(FlattenSeq(ss), Together(K, parts), val)
<1>. DEFINE n == Len(ss)
            D == 1 .. n
            M == [i \in D |-> parts[q[i]]]
<1>1. /\ q \in [D -> K] /\ (\A i, j \in D : q[i] = q[j] => i = j)
      /\ (\A k \in K : \E i \in D : q[i] = k)
      /\ (\A i \in D : Enumerates(ss[i], parts[q[i]], val))
      /\ (\A j, k \in K : j # k => parts[j] \cap parts[k] = {})
  BY Zenon DEF Spread
<1>. HIDE DEF D
<1>2. \A i \in D : M[i] = parts[q[i]]
  OBVIOUS
<1>. HIDE DEF M
<1>3. \A i \in D : Enumerates(ss[i], M[i], val)
  BY <1>1, <1>2
<1>4. \A j, k \in D : j # k => M[j] \cap M[k] = {}
  BY <1>1, <1>2
<1>5. EnumerateApart(ss, M, val)
  BY <1>3, <1>4 DEF EnumerateApart, D
<1>6. FlattenSeq(ss) \in Seq(S) /\ Enumerates(FlattenSeq(ss), UNION {M[i] : i \in D}, val)
  BY <1>5, FlattenEnumerates DEF D
<1>7. UNION {M[i] : i \in D} = Together(K, parts)
  <2>1. \A i \in D : q[i] \in K
    BY <1>1
  <2>2. \A i \in D : M[i] \subseteq Together(K, parts)
    BY <1>2, <2>1 DEF Together
  <2>3. ASSUME NEW x \in Together(K, parts)
        PROVE  \E i \in D : x \in M[i]
    <3>1. PICK k \in K : x \in parts[k]
      BY DEF Together
    <3>2. PICK i \in D : q[i] = k
      BY <1>1
    <3>. QED BY <1>2, <3>1, <3>2
  <2>. QED BY <2>2, <2>3
<1>. QED BY <1>6, <1>7

\* What is enumerated may be told apart by one more mark.
LEMMA EnumeratesMarked ==
    ASSUME NEW s, NEW K, NEW val, Enumerates(s, K, val), NEW f, NEW w,
           \A k \in K : w[<<f, k>>] = val[k]
    PROVE  Enumerates(s, {f} \X K, w)
<1>1. PICK q : Places(s, K, val, q)
  BY DEF Enumerates
<1>. DEFINE D == 1 .. Len(s)
            h == [i \in D |-> <<f, q[i]>>]
<1>2. /\ q \in [D -> K] /\ (\A i, j \in D : q[i] = q[j] => i = j)
      /\ (\A k \in K : \E i \in D : q[i] = k) /\ (\A i \in D : s[i] = val[q[i]])
  BY <1>1, Zenon DEF Places
<1>. HIDE DEF D
<1>3. h \in [D -> {f} \X K] /\ (\A i \in D : h[i] = <<f, q[i]>>)
  BY <1>2
<1>. HIDE DEF h
<1>4. \A i, j \in D : h[i] = h[j] => i = j
  BY <1>2, <1>3
<1>5. \A k \in {f} \X K : \E i \in D : h[i] = k
  <2>. SUFFICES ASSUME NEW k \in K PROVE \E i \in D : h[i] = <<f, k>>
    OBVIOUS
  <2>. QED BY <1>2, <1>3
<1>6. \A i \in D : s[i] = w[h[i]]
  BY <1>2, <1>3
<1>7. Places(s, {f} \X K, w, h)
  BY <1>3, <1>4, <1>5, <1>6 DEF Places, D
<1>. QED BY <1>7 DEF Enumerates

\* A sequence enumerates its positions.
LEMMA EnumeratesPositions ==
    ASSUME NEW S, NEW s \in Seq(S)
    PROVE  Enumerates(s, 1 .. Len(s), s)
<1>. DEFINE q == [i \in 1 .. Len(s) |-> i]
<1>1. Places(s, 1 .. Len(s), s, q)
  BY DEF Places
<1>. QED BY <1>1 DEF Enumerates

ValuesOf(L) == {l.value : l \in L}
OfKey(K, val, key) == {k \in K : val[k].key = key}

\* The values of one keyword.
LEMMA ValuesEnumerate ==
    ASSUME NEW L, NEW options \in Seq(L), NEW K, NEW val, Enumerates(options, K, val),
           NEW w, \A k \in K : w[k] = val[k].value, NEW key
    PROVE  /\ Values(options, key) \in Seq(ValuesOf(L))
           /\ Enumerates(Values(options, key), OfKey(K, val, key), w)
<1>. DEFINE n == Len(options)
            D == 1 .. n
            W == ValuesOf(L)
            ss == [i \in DOMAIN options |->
                     IF options[i].key = key THEN <<options[i].value>> ELSE <<>>]
            parts == [k \in K |-> IF val[k].key = key THEN {k} ELSE {}]
<1>1. n \in Nat /\ DOMAIN options = D /\ (\A i \in D : options[i] \in L)
  OBVIOUS
<1>2. PICK q : Places(options, K, val, q)
  BY DEF Enumerates
<1>3. /\ q \in [D -> K] /\ (\A i, j \in D : q[i] = q[j] => i = j)
      /\ (\A k \in K : \E i \in D : q[i] = k) /\ (\A i \in D : options[i] = val[q[i]])
  BY <1>2, Zenon DEF Places
<1>. HIDE DEF n
<1>4. ss \in Seq(Seq(W)) /\ Len(ss) = n /\ DOMAIN ss = D
  <2>1. \A i \in D : ss[i] \in Seq(W)
    <3>. TAKE i \in D
    <3>. DEFINE v == options[i].value
    <3>1. v \in W
      BY <1>1 DEF ValuesOf
    <3>2. ss[i] = <<v>> \/ ss[i] = <<>>
      BY <1>1
    <3>. HIDE DEF ss, W, v
    <3>3. <<v>> \in Seq(W) /\ <<>> \in Seq(W)
      BY <3>1
    <3>. QED BY <3>2, <3>3
  <2>2. ss = [i \in 1 .. n |-> ss[i]] /\ DOMAIN ss = D
    BY <1>1
  <2>. HIDE DEF ss, W
  <2>. QED BY <1>1, <2>1, <2>2
<1>5. \A i \in D : Enumerates(ss[i], parts[q[i]], w)
  <2>. TAKE i \in D
  <2>1. q[i] \in K /\ options[i] = val[q[i]] /\ w[q[i]] = options[i].value
    BY <1>3
  <2>2. CASE options[i].key = key
    <3>1. ss[i] = <<options[i].value>> /\ parts[q[i]] = {q[i]}
      BY <1>1, <2>1, <2>2
    <3>2. Enumerates(<<options[i].value>>, {q[i]}, w)
      BY <2>1, EnumeratesOne
    <3>. HIDE DEF ss, parts
    <3>. QED BY <3>1, <3>2
  <2>3. CASE options[i].key # key
    <3>1. ss[i] = <<>> /\ parts[q[i]] = {}
      BY <1>1, <2>1, <2>3
    <3>2. Enumerates(<<>>, {}, w)
      BY EnumeratesNone
    <3>. HIDE DEF ss, parts
    <3>. QED BY <3>1, <3>2
  <2>. QED BY <2>2, <2>3
<1>6. \A j, k \in K : j # k => parts[j] \cap parts[k] = {}
  OBVIOUS
<1>7. Together(K, parts) = OfKey(K, val, key)
  BY DEF Together, OfKey
<1>8. Values(options, key) = FlattenSeq(ss)
  BY DEF Values
<1>. HIDE DEF ss, parts, W
<1>9. Spread(ss, K, q, parts, w)
  BY <1>3, <1>4, <1>5, <1>6 DEF Spread
<1>10. FlattenSeq(ss) \in Seq(W) /\ Enumerates(FlattenSeq(ss), Together(K, parts), w)
  <2>1. ss \in Seq(Seq(W))
    BY <1>4
  <2>. HIDE DEF D
  <2>. QED BY <1>9, <2>1, SpreadEnumerates, Zenon
<1>. QED BY <1>7, <1>8, <1>10 DEF W

\* Patterns that govern a line are texts.
LEMMA GoverningTexts ==
    ASSUME NEW config, IsConfig(config), NEW f \in DOMAIN config, config[f] # Unreadable,
           NEW i \in DOMAIN config[f]
    PROVE  \A p \in Governing(config[f], i) : p # <<>> /\ IsText(p)
<1>. DEFINE lines == config[f]
            hosts == {j \in 1 .. i - 1 : lines[j].key = "host"}
<1>1. /\ lines \in Seq(Range(lines))
      /\ \A j \in DOMAIN lines : lines[j].key = "host" => \A p \in lines[j].value : p # <<>> /\ IsText(p)
  BY DEF IsConfig, IsText
<1>2. Len(lines) \in Nat /\ DOMAIN lines = 1 .. Len(lines)
  BY <1>1
<1>3. Governing(lines, i) = IF hosts = {} THEN {<<"*">>} ELSE lines[Max(hosts)].value
  BY DEF Governing
<1>4. CASE hosts = {}
  <2>1. <<"*">> # <<>> /\ IsText(<<"*">>)
    BY DEF IsText, Range
  <2>. QED BY <1>3, <1>4, <2>1
<1>5. CASE hosts # {}
  <2>1. hosts \in SUBSET (1 .. Len(lines)) /\ (\A j \in hosts : lines[j].key = "host")
    BY <1>2
  <2>. HIDE DEF hosts, lines
  <2>2. Max(hosts) \in hosts
    BY <1>2, <1>5, <2>1, GreatestNat
  <2>. QED BY <1>1, <1>2, <1>3, <1>5, <2>1, <2>2 DEF lines
<1>. QED BY <1>4, <1>5

\* The lines of a file that give a key are those of stanzas for the host.
LEMMA OffersMatch ==
    ASSUME NEW config, IsConfig(config), NEW f \in DOMAIN config, config[f] # Unreadable,
           NEW host, IsText(host), ~Has(host, "*")
    PROVE  Offers(config[f], host) =
             {i \in DOMAIN config[f] : /\ config[f][i].key = "identityfile"
                                       /\ MatchesHost(host, Governing(config[f], i))}
<1>. SUFFICES ASSUME NEW i \in DOMAIN config[f]
              PROVE  MatchesHost(host, Governing(config[f], i)) <=>
                        /\ \E p \in Governing(config[f], i) : p[1] # "!" /\ Denotes(p, host)
                        /\ \A p \in Governing(config[f], i) : p[1] = "!" => ~Denotes(Tail(p), host)
  BY DEF Offers
<1>. DEFINE patterns == Governing(config[f], i)
            C == Range(host) \cup UNION {Range(p) : p \in patterns}
<1>1. \A p \in patterns : p # <<>> /\ IsText(p)
  BY GoverningTexts
<1>. HIDE DEF patterns
<1>2. host \in Seq(C)
  <2>1. host \in Seq(Range(host)) /\ Range(host) \subseteq C
    BY DEF IsText
  <2>. HIDE DEF C
  <2>. QED BY <2>1, SeqMonotonic
<1>3. patterns \in SUBSET Seq(C)
  <2>. SUFFICES ASSUME NEW p \in patterns PROVE p \in Seq(C)
    OBVIOUS
  <2>1. p \in Seq(Range(p)) /\ Range(p) \subseteq C
    BY <1>1 DEF IsText
  <2>. HIDE DEF C
  <2>. QED BY <2>1, SeqMonotonic
<1>4. <<>> \notin patterns
  BY <1>1
<1>. HIDE DEF C
<1>. QED BY <1>2, <1>3, <1>4, MatchesHostDenoted DEF patterns

\* The options of stanzas for a host are those of the stanzas whose patterns
\* it matches (resolve_for_host).
LEMMA OptionsEnumerate ==
    ASSUME NEW L, NEW stanzas \in Seq(Stanzas(L)), NEW K, NEW val, Enumerates(stanzas, K, val),
           NEW host, NEW parts, NEW w,
           \A k \in K : Enumerates(val[k].options, parts[k], w),
           \A j, k \in K : j # k => parts[j] \cap parts[k] = {}
    PROVE  /\ OptionsFor(stanzas, host) \in Seq(L)
           /\ Enumerates(OptionsFor(stanzas, host),
                         Together({k \in K : MatchesHost(host, val[k].patterns)}, parts), w)
<1>. DEFINE n == Len(stanzas)
            D == 1 .. n
            For(stanza) == MatchesHost(host, stanza.patterns)
            ss == [i \in DOMAIN stanzas |-> IF For(stanzas[i]) THEN stanzas[i].options ELSE <<>>]
            chosen == [k \in K |-> IF For(val[k]) THEN parts[k] ELSE {}]
<1>1. n \in Nat /\ DOMAIN stanzas = D /\ (\A i \in D : stanzas[i] \in Stanzas(L))
  OBVIOUS
<1>2. PICK q : Places(stanzas, K, val, q)
  BY DEF Enumerates
<1>3. /\ q \in [D -> K] /\ (\A i, j \in D : q[i] = q[j] => i = j)
      /\ (\A k \in K : \E i \in D : q[i] = k) /\ (\A i \in D : stanzas[i] = val[q[i]])
  BY <1>2, Zenon DEF Places
<1>4. OptionsFor(stanzas, host) = FlattenSeq(ss)
  BY DEF OptionsFor
<1>5. Together(K, chosen) = Together({k \in K : MatchesHost(host, val[k].patterns)}, parts)
  BY DEF Together
<1>. HIDE DEF n, For
<1>6. \A i \in D : ss[i] = (IF For(stanzas[i]) THEN stanzas[i].options ELSE <<>>)
  BY <1>1
<1>7. \A k \in K : chosen[k] = IF For(val[k]) THEN parts[k] ELSE {}
  OBVIOUS
<1>8. ss = [i \in 1 .. n |-> ss[i]] /\ DOMAIN ss = D
  BY <1>1
<1>. HIDE DEF ss, chosen
<1>9. ss \in Seq(Seq(L)) /\ Len(ss) = n
  <2>1. \A i \in D : ss[i] \in Seq(L)
    <3>. TAKE i \in D
    <3>1. stanzas[i].options \in Seq(L)
      BY <1>1 DEF Stanzas
    <3>2. <<>> \in Seq(L)
      OBVIOUS
    <3>. QED BY <1>6, <3>1, <3>2
  <2>. QED BY <1>1, <1>8, <2>1
<1>10. \A i \in D : Enumerates(ss[i], chosen[q[i]], w)
  <2>. TAKE i \in D
  <2>1. q[i] \in K /\ stanzas[i] = val[q[i]]
    BY <1>3
  <2>2. CASE For(stanzas[i])
    <3>1. ss[i] = val[q[i]].options /\ chosen[q[i]] = parts[q[i]]
      BY <1>6, <1>7, <2>1, <2>2
    <3>. QED BY <2>1, <3>1
  <2>3. CASE ~For(stanzas[i])
    <3>1. ss[i] = <<>> /\ chosen[q[i]] = {}
      BY <1>6, <1>7, <2>1, <2>3
    <3>. QED BY <3>1, EnumeratesNone
  <2>. QED BY <2>2, <2>3
<1>11. \A j, k \in K : j # k => chosen[j] \cap chosen[k] = {}
  BY <1>7
<1>12. Spread(ss, K, q, chosen, w)
  BY <1>3, <1>9, <1>10, <1>11 DEF Spread
<1>13. FlattenSeq(ss) \in Seq(L) /\ Enumerates(FlattenSeq(ss), Together(K, chosen), w)
  <2>1. ss \in Seq(Seq(L))
    BY <1>9
  <2>. HIDE DEF D
  <2>. QED BY <1>12, <2>1, SpreadEnumerates, Zenon
<1>. QED BY <1>4, <1>5, <1>13

\* The files that are reached can all be read.
Readable(config) == \A f \in Reached(config) : config[f] # Unreadable

\* All lines that are read, ...
Lines(config) == UNION {Range(config[f]) : f \in Reached(config)}

\* ... in which stanza of its file each is, ...
Home(config, f) ==
    CHOOSE home : TakenFits(Lines(config), config[f], Len(config[f]), Parsed(config[f]), home)

\* ... and which stanzas there are: a file and a number each.
StanzasOf(config, f) == 1 .. Len(Parsed(config[f]))
AllStanzas(config) == UNION {{f} \X StanzasOf(config, f) : f \in Reached(config)}
StanzaAt(config) == [k \in AllStanzas(config) |-> Parsed(config[k[1]])[k[2]]]

\* A file that is read is one of lines, with the stanzas it is parsed to.
LEMMA FileParsed ==
    ASSUME NEW config, IsConfig(config), Readable(config), NEW f \in Reached(config)
    PROVE  /\ f \in DOMAIN config /\ config[f] # Unreadable
           /\ config[f] \in Seq(Lines(config))
           /\ TakenFits(Lines(config), config[f], Len(config[f]), Parsed(config[f]), Home(config, f))
<1>. DEFINE lines == config[f]
            L == Lines(config)
<1>1. f \in DOMAIN config /\ lines # Unreadable
  BY DEF Reached, Readable
<1>2. lines \in Seq(Range(lines))
  BY <1>1 DEF IsConfig, IsText
<1>3. Range(lines) \subseteq L
  BY DEF Lines
<1>. HIDE DEF L
<1>4. lines \in Seq(L)
  BY <1>2, <1>3, SeqMonotonic
<1>5. \E home : TakenFits(L, lines, Len(lines), Parsed(lines), home)
  BY <1>4, ParsedFits
<1>6. TakenFits(L, lines, Len(lines), Parsed(lines), Home(config, f))
  BY <1>5 DEF Home, L
<1>. QED BY <1>1, <1>4, <1>6 DEF L

\* What is loaded is the stanzas of the files that are reached, once each.
LEMMA LoadedEnumerates ==
    ASSUME NEW config, IsConfig(config), Readable(config), UserConfig \in DOMAIN config
    PROVE  /\ Loaded(config) \in Seq(Stanzas(Lines(config)))
           /\ Enumerates(Loaded(config), AllStanzas(config), StanzaAt(config))
<1>. DEFINE all == LoadPath(config, UserConfig, Nothing)
            q == all.loaded
            n == Len(q)
            D == 1 .. n
            F == Reached(config)
            S == Stanzas(Lines(config))
            ss == [k \in DOMAIN q |-> Parsed(config[q[k]])]
            parts == [f \in F |-> {f} \X StanzasOf(config, f)]
            w == StanzaAt(config)
<1>1. /\ all \in Loads(config)
      /\ all.ok <=> \A f \in F : config[f] # Unreadable
      /\ all.ok => Range(q) = F
      /\ \A i, j \in DOMAIN q : q[i] = q[j] => i = j
  BY LoadsReached
<1>2. all.ok
  BY <1>1 DEF Readable
<1>3. Loaded(config) = FlattenSeq(ss)
  BY <1>2 DEF Loaded
<1>. HIDE DEF all
<1>4. q \in Seq(DOMAIN config)
  BY <1>1 DEF Loads
<1>. HIDE DEF q, F
<1>5. n \in Nat /\ DOMAIN q = D
  BY <1>4
<1>6. q \in [D -> F] /\ \A f \in F : \E i \in D : q[i] = f
  <2>1. F = {q[i] : i \in D}
    BY <1>1, <1>2, <1>5 DEF Range
  <2>2. q = [i \in D |-> q[i]]
    BY <1>4
  <2>. HIDE DEF D
  <2>. QED BY <2>1, <2>2
<1>7. \A i \in D : ss[i] = Parsed(config[q[i]])
  BY <1>5
<1>8. ss = [i \in 1 .. n |-> ss[i]] /\ DOMAIN ss = D
  BY <1>5
<1>9. \A f \in F : parts[f] = {f} \X StanzasOf(config, f)
  OBVIOUS
<1>. HIDE DEF ss, parts, n
<1>10. ASSUME NEW f \in F
       PROVE  /\ Parsed(config[f]) \in Seq(S)
              /\ Enumerates(Parsed(config[f]), parts[f], w)
  <2>1. Parsed(config[f]) \in Seq(S)
    BY FileParsed DEF TakenFits, F
  <2>2. Enumerates(Parsed(config[f]), StanzasOf(config, f), Parsed(config[f]))
    BY <2>1, EnumeratesPositions DEF StanzasOf
  <2>3. \A j \in StanzasOf(config, f) : w[<<f, j>>] = Parsed(config[f])[j]
    <3>. TAKE j \in StanzasOf(config, f)
    <3>1. <<f, j>> \in AllStanzas(config)
      BY DEF AllStanzas, F
    <3>. QED BY <3>1 DEF StanzaAt
  <2>. HIDE DEF w, S
  <2>4. Enumerates(Parsed(config[f]), {f} \X StanzasOf(config, f), w)
    BY <2>2, <2>3, EnumeratesMarked
  <2>. QED BY <1>9, <2>1, <2>4
<1>. HIDE DEF w, S
<1>11. ss \in Seq(Seq(S)) /\ Len(ss) = n
  <2>1. \A i \in D : ss[i] \in Seq(S)
    BY <1>6, <1>7, <1>10
  <2>. QED BY <1>5, <1>8, <2>1
<1>12. Spread(ss, F, q, parts, w)
  <2>1. \A i \in D : Enumerates(ss[i], parts[q[i]], w)
    BY <1>6, <1>7, <1>10
  <2>2. \A e, f \in F : e # f => parts[e] \cap parts[f] = {}
    BY <1>9
  <2>3. \A i, j \in D : q[i] = q[j] => i = j
    BY <1>1, <1>5
  <2>. QED BY <1>6, <1>11, <2>1, <2>2, <2>3 DEF Spread
<1>13. FlattenSeq(ss) \in Seq(S) /\ Enumerates(FlattenSeq(ss), Together(F, parts), w)
  <2>1. ss \in Seq(Seq(S))
    BY <1>11
  <2>. HIDE DEF D
  <2>. QED BY <1>12, <2>1, SpreadEnumerates, Zenon
<1>14. Together(F, parts) = AllStanzas(config)
  BY <1>9 DEF Together, AllStanzas, F
<1>. QED BY <1>3, <1>13, <1>14 DEF w, S

\* The lines of a file that are options for a host, ...
OptionPlaces(config, host) ==
    UNION {{f} \X {i \in 1 .. Len(config[f]) :
                     /\ config[f][i].key # "host"
                     /\ MatchesHost(host, Governing(config[f], i))} : f \in Reached(config)}

\* ... of those of one stanza of a file.
PlacesOf(config, f, j) ==
    {i \in 1 .. Len(config[f]) : config[f][i].key # "host" /\ Home(config, f)[i] = j}

AllLines(config) == UNION {{f} \X (1 .. Len(config[f])) : f \in Reached(config)}
LineAt(config) == [k \in AllLines(config) |-> config[k[1]][k[2]]]

\* The options for a host are its lines of all files, once each.
LEMMA OptionsOfHost ==
    ASSUME NEW config, IsConfig(config), Readable(config), UserConfig \in DOMAIN config, NEW host
    PROVE  /\ OptionsFor(Loaded(config), host) \in Seq(Lines(config))
           /\ Enumerates(OptionsFor(Loaded(config), host), OptionPlaces(config, host), LineAt(config))
<1>. DEFINE F == Reached(config)
            L == Lines(config)
            K == AllStanzas(config)
            val == StanzaAt(config)
            w == LineAt(config)
            parts == [k \in K |-> {k[1]} \X PlacesOf(config, k[1], k[2])]
            chosen == {k \in K : MatchesHost(host, val[k].patterns)}
<1>1. Loaded(config) \in Seq(Stanzas(L)) /\ Enumerates(Loaded(config), K, val)
  BY LoadedEnumerates
<1>2. \A k \in K : k[1] \in F /\ k[2] \in StanzasOf(config, k[1]) /\ k = <<k[1], k[2]>>
  BY DEF AllStanzas
<1>3. \A f \in F : \A j \in StanzasOf(config, f) :
         /\ <<f, j>> \in K
         /\ val[<<f, j>>] = Parsed(config[f])[j]
         /\ parts[<<f, j>>] = {f} \X PlacesOf(config, f, j)
  <2>. TAKE f \in F
  <2>. TAKE j \in StanzasOf(config, f)
  <2>1. <<f, j>> \in K
    BY DEF AllStanzas
  <2>. QED BY <2>1 DEF StanzaAt
<1>. HIDE DEF parts, val, K
<1>4. ASSUME NEW f \in F, NEW j \in StanzasOf(config, f)
      PROVE  Enumerates(Parsed(config[f])[j].options, {f} \X PlacesOf(config, f, j), w)
  <2>1. Enumerates(Parsed(config[f])[j].options, PlacesOf(config, f, j), config[f])
    BY FileParsed DEF TakenFits, PlacesOf, StanzasOf
  <2>2. \A i \in PlacesOf(config, f, j) : w[<<f, i>>] = config[f][i]
    <3>. TAKE i \in PlacesOf(config, f, j)
    <3>1. <<f, i>> \in AllLines(config)
      BY DEF AllLines, PlacesOf
    <3>. QED BY <3>1 DEF LineAt
  <2>. HIDE DEF w
  <2>. QED BY <2>1, <2>2, EnumeratesMarked
<1>. HIDE DEF w
<1>5. \A k \in K : Enumerates(val[k].options, parts[k], w)
  BY <1>2, <1>3, <1>4
<1>6. \A j, k \in K : j # k => parts[j] \cap parts[k] = {}
  <2>. TAKE j, k \in K
  <2>. SUFFICES ASSUME NEW x, x \in parts[j], x \in parts[k] PROVE j = k
    OBVIOUS
  <2>1. /\ x \in {j[1]} \X PlacesOf(config, j[1], j[2])
        /\ x \in {k[1]} \X PlacesOf(config, k[1], k[2])
    BY <1>2, <1>3
  <2>2. j[1] = x[1] /\ k[1] = x[1]
    BY <2>1
  <2>3. j[2] = Home(config, x[1])[x[2]] /\ k[2] = Home(config, x[1])[x[2]]
    BY <2>1 DEF PlacesOf
  <2>. QED BY <1>2, <2>2, <2>3
<1>7. /\ OptionsFor(Loaded(config), host) \in Seq(L)
      /\ Enumerates(OptionsFor(Loaded(config), host), Together(chosen, parts), w)
  <2>. HIDE DEF F, L, chosen
  <2>1. /\ OptionsFor(Loaded(config), host) \in Seq(L)
        /\ Enumerates(OptionsFor(Loaded(config), host),
                      Together({k \in K : MatchesHost(host, val[k].patterns)}, parts), w)
    BY <1>1, <1>5, <1>6, OptionsEnumerate
  <2>. QED BY <2>1 DEF chosen
<1>8. Together(chosen, parts) = OptionPlaces(config, host)
  <2>1. ASSUME NEW f \in F, NEW i \in 1 .. Len(config[f]), config[f][i].key # "host"
        PROVE  LET j == Home(config, f)[i]
               IN  /\ j \in StanzasOf(config, f)
                   /\ Parsed(config[f])[j].patterns = Governing(config[f], i)
    BY <2>1, FileParsed DEF TakenFits, StanzasOf
  <2>2. ASSUME NEW k \in chosen, NEW x \in parts[k]
        PROVE  x \in OptionPlaces(config, host)
    <3>1. k \in K /\ MatchesHost(host, val[k].patterns)
      OBVIOUS
    <3>. DEFINE f == k[1]
                j == k[2]
                i == x[2]
    <3>2. f \in F /\ j \in StanzasOf(config, f) /\ k = <<f, j>>
      BY <1>2, <3>1
    <3>3. x \in {f} \X PlacesOf(config, f, j) /\ val[k] = Parsed(config[f])[j]
      BY <1>3, <3>2
    <3>4. x = <<f, i>> /\ i \in PlacesOf(config, f, j)
      BY <3>3
    <3>5. i \in 1 .. Len(config[f]) /\ config[f][i].key # "host" /\ Home(config, f)[i] = j
      BY <3>4 DEF PlacesOf
    <3>6. Parsed(config[f])[j].patterns = Governing(config[f], i)
      BY <2>1, <3>2, <3>5
    <3>7. MatchesHost(host, Governing(config[f], i))
      BY <3>1, <3>3, <3>6
    <3>. HIDE DEF f, j, i
    <3>. QED BY <3>2, <3>4, <3>5, <3>7 DEF OptionPlaces
  <2>3. ASSUME NEW x \in OptionPlaces(config, host)
        PROVE  \E k \in chosen : x \in parts[k]
    <3>1. PICK f \in F : x \in {f} \X {i \in 1 .. Len(config[f]) :
                                 /\ config[f][i].key # "host"
                                 /\ MatchesHost(host, Governing(config[f], i))}
      BY DEF OptionPlaces
    <3>. DEFINE i == x[2]
                j == Home(config, f)[i]
    <3>2. /\ x = <<f, i>> /\ i \in 1 .. Len(config[f]) /\ config[f][i].key # "host"
          /\ MatchesHost(host, Governing(config[f], i))
      BY <3>1
    <3>. HIDE DEF i
    <3>3. j \in StanzasOf(config, f) /\ Parsed(config[f])[j].patterns = Governing(config[f], i)
      BY <2>1, <3>2
    <3>4. i \in PlacesOf(config, f, j)
      BY <3>2 DEF PlacesOf
    <3>. HIDE DEF j
    <3>5. <<f, j>> \in chosen
      BY <1>3, <3>2, <3>3
    <3>6. x \in parts[<<f, j>>]
      BY <1>3, <3>2, <3>3, <3>4
    <3>. QED BY <3>5, <3>6
  <2>. HIDE DEF chosen, F
  <2>4. Together(chosen, parts) \subseteq OptionPlaces(config, host)
    BY <2>2 DEF Together
  <2>5. OptionPlaces(config, host) \subseteq Together(chosen, parts)
    BY <2>3 DEF Together
  <2>. QED BY <2>4, <2>5
<1>. HIDE DEF chosen
<1>9. LineAt(config) = w
  BY DEF w
<1>. QED BY <1>7, <1>8, <1>9

\* Of the options for a host those of keys are what is to be offered.
LEMMA KeyPlaces ==
    ASSUME NEW config, IsConfig(config), Readable(config),
           NEW host, IsText(host), ~Has(host, "*")
    PROVE  {k \in OptionPlaces(config, host) : config[k[1]][k[2]].key = "identityfile"}
             = Offered(config, host)
<1>. DEFINE keysOf(f) == {i \in DOMAIN config[f] :
                             /\ config[f][i].key = "identityfile"
                             /\ MatchesHost(host, Governing(config[f], i))}
<1>1. \A f \in Reached(config) : Offers(config[f], host) = keysOf(f)
  BY FileParsed, OffersMatch
<1>2. \A f \in Reached(config) : DOMAIN config[f] = 1 .. Len(config[f])
  BY FileParsed
<1>3. Offered(config, host) = UNION {{f} \X Offers(config[f], host) : f \in Reached(config)}
  BY DEF Offered, Readable
<1>4. Offered(config, host) = UNION {{f} \X keysOf(f) : f \in Reached(config)}
  BY <1>1, <1>3
<1>5. ASSUME NEW k \in OptionPlaces(config, host), config[k[1]][k[2]].key = "identityfile"
      PROVE  \E f \in Reached(config) : k \in {f} \X keysOf(f)
  <2>1. PICK f \in Reached(config) : k \in {f} \X {i \in 1 .. Len(config[f]) :
                                 /\ config[f][i].key # "host"
                                 /\ MatchesHost(host, Governing(config[f], i))}
    BY DEF OptionPlaces
  <2>. QED BY <1>2, <1>5, <2>1
<1>6. ASSUME NEW f \in Reached(config), NEW k \in {f} \X keysOf(f)
      PROVE  k \in OptionPlaces(config, host) /\ config[k[1]][k[2]].key = "identityfile"
  <2>1. k = <<f, k[2]>> /\ k[2] \in keysOf(f)
    OBVIOUS
  <2>. QED BY <1>2, <2>1 DEF OptionPlaces
<1>. HIDE DEF keysOf
<1>. QED BY <1>4, <1>5, <1>6

\* The keys that are tried for a host are those of all files that are
\* reached, each as often as it is written there, from the lines whose
\* patterns stand for the host; none when one of the files cannot be read
\* (load_ssh_config_path, parse_ssh_config, resolve_for_host).
THEOREM KeysOffered ==
    ASSUME NEW config, IsConfig(config), NEW host, IsText(host), ~Has(host, "*")
    PROVE  LET keys == Values(OptionsFor(Loaded(config), host), "identityfile")
               places == Offered(config, host)
           IN  /\ Len(keys) = Cardinality(places)
               /\ Range(keys) = {config[k[1]][k[2]].value : k \in places}
<1>. DEFINE keys == Values(OptionsFor(Loaded(config), host), "identityfile")
            places == Offered(config, host)
<1>1. CASE UserConfig \in DOMAIN config /\ Readable(config)
  <2>. DEFINE options == OptionsFor(Loaded(config), host)
              K == OptionPlaces(config, host)
              val == LineAt(config)
              L == Lines(config)
              w == [k \in K |-> config[k[1]][k[2]].value]
  <2>1. options \in Seq(L) /\ Enumerates(options, K, val)
    BY <1>1, OptionsOfHost
  <2>2. \A k \in K : val[k] = config[k[1]][k[2]]
    BY DEF OptionPlaces, LineAt, AllLines
  <2>. HIDE DEF options, K, val, L
  <2>3. \A k \in K : w[k] = val[k].value
    BY <2>2
  <2>4. OfKey(K, val, "identityfile") = places
    BY <1>1, <2>2, KeyPlaces DEF K, OfKey
  <2>5. places \subseteq K /\ (\A k \in places : w[k] = config[k[1]][k[2]].value)
    BY <2>2, <2>4 DEF OfKey
  <2>. HIDE DEF w, places
  <2>6. keys \in Seq(ValuesOf(L)) /\ Enumerates(keys, places, w)
    <3>1. keys = Values(options, "identityfile")
      BY DEF options
    <3>2. /\ Values(options, "identityfile") \in Seq(ValuesOf(L))
          /\ Enumerates(Values(options, "identityfile"), OfKey(K, val, "identityfile"), w)
      BY <2>1, <2>3, ValuesEnumerate
    <3>. HIDE DEF keys
    <3>. QED BY <2>4, <3>1, <3>2
  <2>. HIDE DEF keys
  <2>7. Cardinality(places) = Len(keys) /\ Range(keys) = {w[k] : k \in places}
    BY <2>6, EnumeratesAll
  <2>8. {w[k] : k \in places} = {config[k[1]][k[2]].value : k \in places}
    BY <2>5
  <2>. QED BY <2>7, <2>8 DEF keys, places
<1>2. CASE ~(UserConfig \in DOMAIN config /\ Readable(config))
  <2>1. Loaded(config) = <<>>
    <3>1. CASE UserConfig \notin DOMAIN config
      BY <3>1 DEF Loaded
    <3>2. CASE UserConfig \in DOMAIN config
      <4>1. ~LoadPath(config, UserConfig, Nothing).ok
        BY <1>2, <3>2, LoadsReached DEF Readable
      <4>. QED BY <3>2, <4>1 DEF Loaded
    <3>. QED BY <3>1, <3>2
  <2>2. places = {}
    <3>1. CASE UserConfig \notin DOMAIN config
      <4>1. Closed(config, {})
        BY <3>1 DEF Closed
      <4>2. Reached(config) = {}
        BY <4>1 DEF Reached
      <4>. QED BY <4>2 DEF Offered
    <3>2. CASE UserConfig \in DOMAIN config
      BY <1>2, <3>2 DEF Readable, Offered
    <3>. QED BY <3>1, <3>2
  <2>3. FlattenSeq(<<>>) = <<>>
    BY DEF FlattenSeq
  <2>4. keys = <<>>
    <3>1. OptionsFor(<<>>, host) = <<>>
      <4>1. [i \in DOMAIN <<>> |->
               IF MatchesHost(host, <<>>[i].patterns) THEN <<>>[i].options ELSE <<>>] = <<>>
        OBVIOUS
      <4>. QED BY <2>3, <4>1 DEF OptionsFor
    <3>2. Values(<<>>, "identityfile") = <<>>
      <4>1. [i \in DOMAIN <<>> |->
               IF <<>>[i].key = "identityfile" THEN <<<<>>[i].value>> ELSE <<>>] = <<>>
        OBVIOUS
      <4>. QED BY <2>3, <4>1 DEF Values
    <3>. QED BY <2>1, <3>1, <3>2
  <2>5. Len(keys) = 0 /\ Range(keys) = {}
    BY <2>4 DEF Range
  <2>6. Cardinality({}) = 0
    BY FS_EmptySet
  <2>. QED BY <2>2, <2>5, <2>6
<1>. QED BY <1>1, <1>2

-----------------------------------------------------------------------------
(* The invariant.                                                          *)

\* The part of what the command line decides that is about the target.
TargetDecided ==
    target.kind = "target" => /\ spec.user # <<>> => target.user = spec.user
                              /\ spec.explicit => target.port = spec.port

Stages == {"started", "configured", "parsed", "resolved", "connected", "failed"}

\* The invariant in the parts its steps are about.
LEMMA Parts ==
    IInv <=> /\ stage \in Stages
             /\ SettingTyped /\ SettingDecided
             /\ SpecTyped(spec)
             /\ target.kind \in {"none", "target", "invalid"}
             /\ TargetDecided
             /\ stage \in {"started", "configured", "parsed"} => target.kind = "none"
             /\ IdentitiesOffered
             /\ ParsesBack /\ WrittenFits
             /\ ListingInv
<1>1. ListingInv => ListingTypeOK
  BY DEF ListingInv
<1>. QED BY <1>1 DEF IInv, TypeOK, CommandLineDecides, TargetFits, SettingTyped, SettingDecided,
            SpecTyped, TargetDecided, Stages

\* The invariant holds again when its parts do.
LEMMA PartsAgain ==
    ASSUME stage' \in Stages, SettingTyped', SettingDecided', SpecTyped(spec'),
           target'.kind \in {"none", "target", "invalid"}, TargetDecided',
           stage' \in {"started", "configured", "parsed"} => target'.kind = "none",
           IdentitiesOffered', ParsesBack', WrittenFits', ListingInv'
    PROVE  IInv'
<1>1. ListingTypeOK'
  BY DEF ListingInv
<1>. QED BY <1>1 DEF IInv, TypeOK, CommandLineDecides, TargetFits, SettingTyped, SettingDecided,
            SpecTyped, TargetDecided, Stages

\* The initial state.
LEMMA Initially == Init => IInv
<1>. SUFFICES ASSUME Init PROVE IInv
  OBVIOUS
<1>1. /\ stage = "started" /\ setting.kind = "none" /\ spec.kind = "none" /\ target.kind = "none"
      /\ ListingInit
  BY DEF Init, None
<1>2. written.kind = "none"
  BY DEF Init, None
<1>. QED BY <1>1, <1>2, ListingInitially, Parts
         DEF Stages, SettingTyped, SettingDecided, SpecTyped, TargetDecided, IdentitiesOffered,
             ParsesBack, WrittenFits

\* What does not touch the listing keeps its invariant.
LEMMA ListingStays == ListingInv /\ UNCHANGED listingVars => ListingInv'
BY ListingInvStep

\* Without a target no keys are offered.
LEMMA NoneOffered == target'.kind # "target" => IdentitiesOffered'
BY DEF IdentitiesOffered

\* A setting is resolved.
LEMMA ConfigureStep ==
    ASSUME IInv, NEW s \in DOMAIN Settings, NEW cli \in Given(Settings[s].flag),
           NEW env \in Given(Settings[s].range \cup (IF s \in Plain THEN {} ELSE {Malformed})),
           NEW file \in Given(Settings[s].range), Configure(s, cli, env, file)
    PROVE  IInv'
<1>1. /\ stage = "started" /\ stage' = "configured"
      /\ spec' = spec /\ target' = target /\ written' = written /\ files' = files
      /\ UNCHANGED listingVars
  BY DEF Configure
<1>2. SettingTyped' /\ SettingDecided'
  BY ConfigureFits
<1>3. ListingInv'
  BY <1>1, Parts, ListingStays
<1>4. ParsesBack' /\ WrittenFits'
  BY <1>1, Parts DEF ParsesBack, WrittenFits
<1>5. IdentitiesOffered'
  BY <1>1, NoneOffered, Parts
<1>. QED BY <1>1, <1>2, <1>3, <1>4, <1>5, Parts, PartsAgain DEF Stages, TargetDecided

\* A parsed source argument.
LEMMA ParseStep ==
    ASSUME IInv, NEW parsed, SpecTyped(parsed), ParseAs(parsed), ParsesBack', target' = target,
           UNCHANGED listingVars
    PROVE  IInv'
<1>1. /\ stage = "configured" /\ stage' \in {"failed", "parsed"} /\ spec' = parsed
      /\ setting'.kind = "none"
  BY DEF ParseAs, None
<1>2. target.kind = "none"
  BY <1>1, Parts
<1>3. ListingInv'
  BY Parts, ListingStays
<1>4. IdentitiesOffered'
  BY <1>2, NoneOffered
<1>. QED BY <1>1, <1>2, <1>3, <1>4, Parts, PartsAgain
         DEF Stages, SettingTyped, SettingDecided, SpecTyped, TargetDecided, WrittenFits

\* A text has characters.
LEMMA TextIsText ==
    ASSUME NEW text \in Texts
    PROVE  \E C : text \in Seq(C)
BY StartupAssumption DEF IsText

\* The target keeps the user and the port that the source argument gives.
LEMMA TargetKeeps ==
    ASSUME NEW sp, NEW stanzas, NEW loginName
    PROVE  LET t == ConnectTarget(sp, stanzas, loginName)
           IN  /\ t.kind \in {"target", "invalid"}
               /\ t.kind = "target" => /\ sp.user # <<>> => t.user = sp.user
                                       /\ sp.explicit => t.port = sp.port
<1>. DEFINE t == ConnectTarget(sp, stanzas, loginName)
            options == OptionsFor(stanzas, sp.host)
            user == Or(IF sp.user = <<>> THEN <<>> ELSE <<sp.user>>,
                       Or(LastOf(Values(options, "user")), loginName))
            port == IF sp.explicit THEN <<sp.port>>
                    ELSE Or(LastOf(Ports(Values(options, "port"))), <<sp.port>>)
<1>1. \/ t = Invalid
      \/ \E host, keys : t = [kind |-> "target", user |-> user[1], port |-> port[1],
                              host |-> host, keys |-> keys]
  BY DEF ConnectTarget
<1>2. sp.user # <<>> => user[1] = sp.user
  BY DEF Or
<1>3. sp.explicit => port[1] = sp.port
  OBVIOUS
<1>. HIDE DEF t, user, port
<1>4. /\ t.kind \in {"target", "invalid"}
      /\ t.kind = "target" => t.user = user[1] /\ t.port = port[1]
  BY <1>1 DEF Invalid
<1>5. t.kind = "target" => /\ sp.user # <<>> => t.user = sp.user
                           /\ sp.explicit => t.port = sp.port
  BY <1>2, <1>3, <1>4
<1>. QED BY <1>4, <1>5 DEF t

\* The keys of a target are those of the options for its host.
LEMMA TargetKeys ==
    ASSUME NEW sp, NEW stanzas, NEW loginName
    PROVE  LET t == ConnectTarget(sp, stanzas, loginName)
           IN  t.kind = "target" => t.keys = Values(OptionsFor(stanzas, sp.host), "identityfile")
<1>. DEFINE t == ConnectTarget(sp, stanzas, loginName)
            keys == Values(OptionsFor(stanzas, sp.host), "identityfile")
<1>1. \/ t = Invalid
      \/ \E host, user, port : t = [kind |-> "target", user |-> user, port |-> port,
                                    host |-> host, keys |-> keys]
  BY DEF ConnectTarget
<1>. HIDE DEF t, keys
<1>2. t.kind = "target" => t.keys = keys
  BY <1>1 DEF Invalid
<1>. QED BY <1>2 DEF t, keys

\* The target is resolved.
LEMMA ResolveTargetStep ==
    ASSUME IInv, NEW config \in Configs, NEW loginName, ResolveTarget(config, loginName)
    PROVE  IInv'
<1>. DEFINE t == ConnectTarget(spec, Loaded(config), loginName)
<1>1. /\ spec.kind = "remote" /\ target' = t /\ stage' \in {"failed", "resolved"}
      /\ spec' = [spec EXCEPT !.path = <<>>] /\ setting' = setting /\ UNCHANGED listingVars
      /\ written'.kind = "none" /\ files' = config
  BY DEF ResolveTarget, None
<1>2. /\ t.kind \in {"target", "invalid"}
      /\ t.kind = "target" => /\ spec.user # <<>> => t.user = spec.user
                              /\ spec.explicit => t.port = spec.port
  BY TargetKeeps
<1>3. t.kind = "target" => t.keys = Values(OptionsFor(Loaded(config), spec.host), "identityfile")
  BY TargetKeys
<1>. HIDE DEF t
<1>4. SpecTyped(spec)
  BY Parts
<1>5. SpecTyped(spec') /\ spec'.user = spec.user /\ spec'.explicit = spec.explicit
      /\ spec'.port = spec.port /\ spec'.host = spec.host
  BY <1>1, <1>4 DEF SpecTyped
<1>6. TargetDecided'
  BY <1>1, <1>2, <1>5 DEF TargetDecided
<1>7. SettingTyped' /\ SettingDecided'
  BY <1>1, Parts DEF SettingTyped, SettingDecided
<1>8. ListingInv'
  BY <1>1, Parts, ListingStays
<1>9. ParsesBack' /\ WrittenFits'
  BY <1>1 DEF ParsesBack, WrittenFits
<1>10. IdentitiesOffered'
  <2>. DEFINE keys == Values(OptionsFor(Loaded(config), spec.host), "identityfile")
              places == Offered(config, spec.host)
  <2>1. IsText(spec.host) /\ IsConfig(config)
    BY <1>1, <1>4, StartupAssumption DEF SpecTyped
  <2>2. ~Has(spec.host, "*") =>
           /\ Len(keys) = Cardinality(places)
           /\ Range(keys) = {config[k[1]][k[2]].value : k \in places}
    BY <2>1, KeysOffered
  <2>3. target'.kind = "target" => target'.keys = keys
    BY <1>1, <1>3
  <2>. HIDE DEF keys
  <2>4. target'.kind = "target" /\ ~Has(spec.host, "*") =>
           /\ Len(target'.keys) = Cardinality(places)
           /\ Range(target'.keys) = {config[k[1]][k[2]].value : k \in places}
    BY <2>2, <2>3
  <2>. QED BY <1>1, <1>5, <2>4 DEF IdentitiesOffered
<1>. QED BY <1>1, <1>2, <1>5, <1>6, <1>7, <1>8, <1>9, <1>10, Parts, PartsAgain DEF Stages

\* The source is connected to, and its listing begins.
LEMMA ConnectStep ==
    ASSUME IInv, NEW src \in Sources, NEW t \in Trees, Connect(src, t)
    PROVE  IInv'
<1>1. /\ stage' = "connected" /\ spec'.kind = "none" /\ target'.kind = "none"
      /\ setting' = setting /\ BeginListing(src, t)
  BY DEF Connect, None
<1>2. ListingInv'
  BY <1>1, Parts, BeginListingStep
<1>3. SettingTyped' /\ SettingDecided'
  BY <1>1, Parts DEF SettingTyped, SettingDecided
<1>4. ParsesBack'
  <2>1. written' = written /\ (stage = "resolved" \/ spec.kind = "local")
    BY DEF Connect
  <2>2. stage = "resolved" => written.kind = "none"
    BY Parts DEF WrittenFits
  <2>3. spec.kind = "local" => ~(written.kind = "written" /\ ~Ambiguous(written))
    BY Parts DEF ParsesBack, Invalid
  <2>. QED BY <2>1, <2>2, <2>3 DEF ParsesBack
<1>5. IdentitiesOffered'
  BY <1>1, NoneOffered
<1>. QED BY <1>1, <1>2, <1>3, <1>4, <1>5, Parts, PartsAgain
         DEF Stages, SpecTyped, TargetDecided, WrittenFits

\* The rest stays as it is, but for the stage and the listing.
LEMMA OtherStep ==
    ASSUME IInv, stage' \in {stage, "failed"}, UNCHANGED <<setting, written, spec, files, target>>,
           ListingInv'
    PROVE  IInv'
<1>1. SettingTyped' /\ SettingDecided' /\ SpecTyped(spec') /\ TargetDecided'
  BY Parts DEF SettingTyped, SettingDecided, TargetDecided
<1>2. ParsesBack' /\ WrittenFits'
  BY Parts DEF ParsesBack, WrittenFits
<1>3. IdentitiesOffered'
  BY Parts DEF IdentitiesOffered
<1>. QED BY <1>1, <1>2, <1>3, Parts, PartsAgain DEF Stages

\* Every step keeps the invariant.
LEMMA IInvStep == IInv /\ [Next]_vars => IInv'
<1>. SUFFICES ASSUME IInv, [Next]_vars PROVE IInv'
  OBVIOUS
<1>1. ListingInv
  BY Parts
<1>2. ASSUME NEW s \in DOMAIN Settings, NEW cli \in Given(Settings[s].flag),
             NEW env \in Given(Settings[s].range \cup (IF s \in Plain THEN {} ELSE {Malformed})),
             NEW file \in Given(Settings[s].range), Configure(s, cli, env, file)
      PROVE  IInv'
  BY <1>2, ConfigureStep
<1>3. CASE ConfigFileBroken \/ ConnectFails
  <2>1. /\ stage' = "failed" /\ UNCHANGED <<setting, written, spec, files, target>>
        /\ UNCHANGED listingVars
    BY <1>3 DEF ConfigFileBroken, ConnectFails
  <2>. QED BY <1>1, <2>1, ListingStays, OtherStep
<1>4. ASSUME NEW text \in Texts, NEW there, Parse(text, there)
      PROVE  IInv'
  <2>1. SpecTyped(ParseSource(text, there))
    BY TextIsText, SourceTyped
  <2>2. /\ ParseAs(ParseSource(text, there)) /\ target' = target /\ UNCHANGED listingVars
        /\ written' = written /\ stage = "configured"
    BY <1>4 DEF Parse, ParseAs
  <2>3. ParsesBack'
    BY <2>2, Parts DEF WrittenFits, ParsesBack
  <2>. QED BY <2>1, <2>2, <2>3, ParseStep
<1>5. ASSUME NEW w \in [kind : {"written"}, user : Users \cup {<<>>}, host : Hosts,
                        port : PortTexts \cup {<<>>}, path : Paths], ParseWritten(w)
      PROVE  IInv'
  <2>0. PICK C : WrittenParts(w, C)
    BY WrittenAre
  <2>1. SpecTyped(ParseSource(Format(w), "nothing"))
    <3>1. Format(w) \in Seq(C)
      BY <2>0, FormatIs
    <3>. QED BY <3>1, SourceTyped
  <2>2. /\ ParseAs(ParseSource(Format(w), "nothing")) /\ target' = target
        /\ UNCHANGED listingVars
        /\ written' = w /\ spec' = ParseSource(Format(w), "nothing")
    BY <1>5 DEF ParseWritten, ParseAs
  <2>3. ParsesBack'
    BY <2>0, <2>2, WrittenIsRead DEF ParsesBack
  <2>. QED BY <2>1, <2>2, <2>3, ParseStep
<1>6. ASSUME NEW config \in Configs, NEW loginName, ResolveTarget(config, loginName)
      PROVE  IInv'
  BY <1>6, ResolveTargetStep
<1>7. ASSUME NEW src \in Sources, NEW t \in Trees, Connect(src, t)
      PROVE  IInv'
  BY <1>7, ConnectStep
<1>8. CASE List
  <2>1. ListingNext /\ stage' = stage /\ UNCHANGED <<setting, written, spec, files, target>>
    BY <1>8 DEF List
  <2>2. ListingInv'
    BY <1>1, <2>1, ListingInvStep DEF ListingStep
  <2>. QED BY <2>1, <2>2, OtherStep
<1>9. CASE UNCHANGED vars
  <2>1. stage' = stage /\ UNCHANGED <<setting, written, spec, files, target>>
        /\ UNCHANGED listingVars
    BY <1>9 DEF vars
  <2>. QED BY <1>1, <2>1, ListingStays, OtherStep
<1>. QED BY <1>2, <1>3, <1>4, <1>5, <1>6, <1>7, <1>8, <1>9 DEF Next

\* The inductive invariant: the types, what the command line decides, and
\* what is known of a listing on its way.
THEOREM Invariance == Spec => []IInv
<1>1. Init => IInv
  BY Initially
<1>2. IInv /\ [Next]_vars => IInv'
  BY IInvStep
<1>. QED BY <1>1, <1>2, PTL DEF Spec

\* Whatever is given for a setting, and by whom, what is resolved is not
\* below its smallest value, and whatever the source argument is, a remote
\* one that is parsed has a host and a port.
THEOREM TypeCorrect == Spec => []TypeOK
<1>1. IInv => TypeOK
  BY DEF IInv
<1>. QED BY <1>1, Invariance, PTL

\* Neither the environment nor a configuration file undoes what the command
\* line says, for all settings, ssh configurations and source arguments.
THEOREM CommandLineDecidesHolds == Spec => []CommandLineDecides
<1>1. IInv => CommandLineDecides
  BY DEF IInv
<1>. QED BY <1>1, Invariance, PTL

\* Whatever the user, the host, the port and the path, a remote source put
\* together from them is read as these, but for those that are ambiguous:
\* for strings of any length over any characters.
THEOREM ParsesBackHolds == Spec => []ParsesBack
<1>1. IInv => ParsesBack
  BY DEF IInv
<1>. QED BY <1>1, Invariance, PTL

\* Whatever files an ssh configuration consists of and however they include
\* one another, the keys tried for a host are those of all files that are
\* reached from the user's, each as often as it is written there, from the
\* lines whose patterns stand for the host.
THEOREM IdentitiesOfferedHolds == Spec => []IdentitiesOffered
<1>1. IInv => IdentitiesOffered
  BY DEF IInv
<1>. QED BY <1>1, Invariance, PTL

\* A listing that is complete holds what was in the tree all the time, and
\* nothing that never was, for every tree and every sequence of changes.
THEOREM ListsWhatStayedHolds == Spec => []ListsWhatStayed
<1>1. IInv => ListsWhatStayed
  BY DEF IInv, ListingInv
<1>. QED BY <1>1, Invariance, PTL

\* Each entry is read where it was found, and no two share a key.
THEOREM ReadsWhatItListedHolds == Spec => []ReadsWhatItListed
<1>1. IInv => ReadsWhatItListed
  BY KeyedReads DEF IInv
<1>. QED BY <1>1, Invariance, PTL

=============================================================================
