-------------------------- MODULE WorkList_proofs --------------------------
(***************************************************************************)
(* Work items, the list that holds them and the deliveries that refer to   *)
(* them: what each change of the work of an outgoing link (OutLink) does   *)
(* to their agreement.                                                     *)
(***************************************************************************)
EXTENDS Integers, Sequences, FiniteSetsExt, Functions, FiniteSetTheorems,
        WellFoundedInduction, TLAPS

Names == Nat \ {0}
Kinds == {"delivery", "flow", "first_detach", "second_detach"}
ItemRecord == [kind : Kinds, value : Nat, processing : BOOLEAN, after : Nat]

-----------------------------------------------------------------------------
(* The invariant speaks of the number n of deliveries, the undelivered set u, the       *)
(* references lw of deliveries to items, the work list wl, the items it, the number fw  *)
(* of deliveries forwarded, the item w that the I/O thread works on and the number c of *)
(* deliveries it has completed.                                                         *)

\* Work items exist as long as they are in the list or worked on, and are in one place.
Items(wl, it, w) ==
    /\ wl \in Seq(Names) /\ w \in Nat
    /\ IsFiniteSet(DOMAIN it) /\ DOMAIN it \subseteq Names
    /\ it \in [DOMAIN it -> ItemRecord]
    /\ \A i \in DOMAIN wl : wl[i] \in DOMAIN it /\ wl[i] # w
    /\ \A i, j \in DOMAIN wl : wl[i] = wl[j] => i = j
    /\ w # 0 => w \in DOMAIN it
    /\ \A x \in DOMAIN it : it[x].processing <=> x = w

\* Item a comes before item b.
Ahead(wl, w, a, b) ==
    /\ a # 0
    /\ \/ a = w /\ \E j \in DOMAIN wl : wl[j] = b
       \/ \E i, j \in DOMAIN wl : i < j /\ wl[i] = a /\ wl[j] = b

Held(n, lw, x) == {d \in 1 .. n : lw[d] = x}

\* Every undelivered delivery has an item, every item is in the list or worked on, and an
\* item counts its deliveries.
Linked(n, u, lw, wl, it, fw, w, c) ==
    /\ fw <= n
    /\ u \subseteq 1 .. fw
    /\ lw \in [1 .. n -> Nat]
    /\ \A d \in 1 .. n : d \in u <=> lw[d] # 0
    /\ \A d \in u : lw[d] \in DOMAIN it /\ it[lw[d]].kind = "delivery"
    /\ \A x \in DOMAIN it : x = w \/ \E i \in DOMAIN wl : wl[i] = x
    /\ \A x \in DOMAIN it : it[x].after <= fw
    /\ \A x \in DOMAIN it : it[x].kind = "delivery" =>
         it[x].value - (IF x = w THEN c ELSE 0) = Cardinality(Held(n, lw, x))

\* The items are in the order of their deliveries, and a drain is behind the deliveries
\* that are older than it and before the younger ones.
Ordered(u, lw, wl, it, w) ==
    /\ \A d, e \in u : Ahead(wl, w, lw[d], lw[e]) => d < e
    /\ \A d \in u, x \in DOMAIN it : it[x].kind = "flow" =>
         /\ Ahead(wl, w, lw[d], x) => d <= it[x].after
         /\ Ahead(wl, w, x, lw[d]) => it[x].after < d

-----------------------------------------------------------------------------
(* Sets and lists *)

\* A set of natural numbers has a least member, which Min is.
LEMMA LowestOf ==
    ASSUME NEW S \in SUBSET Nat, S # {}
    PROVE  Min(S) \in S /\ \A y \in S : Min(S) <= y
  <1>1. PICK x \in S : \A y \in S : ~(<<y, x>> \in OpToRel(<, Nat))
    BY NatLessThanWellFounded, WFMin, Zenon
  <1>2. ASSUME NEW y \in S PROVE x <= y
    <2>1. y < x => <<y, x>> \in OpToRel(<, Nat)
      BY Zenon DEF OpToRel
    <2>2. ~(y < x)
      BY <1>1, <2>1, Zenon
    <2> QED
      BY <2>2
  <1> QED
    BY <1>2, Zenon DEF Min

\* qdr_link_work: there is always a name for another item.
LEMMA FreshName ==
    ASSUME NEW D, IsFiniteSet(D), D \subseteq Names
    PROVE  LET w == CHOOSE x \in 1 .. (Cardinality(D) + 1) : x \notin D
           IN  w \in Names /\ w \notin D
  <1>1. PICK n \in Nat : n = Cardinality(D)
    BY FS_CardinalityType
  <1>2. \E x \in 1 .. (n + 1) : x \notin D
    <2>1. SUFFICES ASSUME 1 .. (n + 1) \in SUBSET D PROVE FALSE
      OBVIOUS
    <2>2. Cardinality(1 .. (n + 1)) <= n
      BY <1>1, <2>1, FS_Subset
    <2>3. Cardinality(1 .. (n + 1)) = n + 1
      BY FS_Interval
    <2> QED
      BY <2>2, <2>3
  <1> DEFINE w == CHOOSE x \in 1 .. (n + 1) : x \notin D
  <1>3. w \in 1 .. (n + 1) /\ w \notin D
    BY <1>2
  <1> HIDE DEF w
  <1>4. w \in Names
    BY <1>3 DEF Names
  <1> QED
    BY <1>1, <1>3, <1>4 DEF w

\* The members of a list before or at position i, among those in S, tell the positions
\* of S apart and are as many as S has members in all.
LEMMA Ranks ==
    ASSUME NEW n \in Nat, NEW S \in SUBSET (1 .. n)
    PROVE  /\ IsFiniteSet(S) /\ Cardinality(S) \in Nat
           /\ \A i, j \in S : i < j => Cardinality({k \in S : k <= i})
                                         < Cardinality({k \in S : k <= j})
           /\ \A r \in 1 .. Cardinality(S) : \E i \in S : Cardinality({k \in S : k <= i}) = r
           /\ \A i \in S : Cardinality({k \in S : k <= i}) \in 1 .. Cardinality(S)
  <1> DEFINE Rank(i) == Cardinality({k \in S : k <= i})
  <1>1. IsFiniteSet(S) /\ Cardinality(S) \in Nat
    <2>1. IsFiniteSet(1 .. n)
      BY FS_Interval
    <2>2. IsFiniteSet(S)
      BY <2>1, FS_Subset, Zenon
    <2> QED
      BY <2>2, FS_CardinalityType
  <1>2. ASSUME NEW i \in S PROVE Rank(i) \in 1 .. Cardinality(S)
    <2> DEFINE B == {k \in S : k <= i}
    <2>1. IsFiniteSet(B) /\ Cardinality(B) <= Cardinality(S)
      BY <1>1, FS_Subset
    <2>2. i \in B
      OBVIOUS
    <2>3. Cardinality(B) \in Nat /\ Cardinality(B) # 0
      BY <2>1, <2>2, FS_CardinalityType, FS_EmptySet
    <2> QED
      BY <1>1, <2>1, <2>3
  <1>3. ASSUME NEW i \in S, NEW j \in S, i < j PROVE Rank(i) < Rank(j)
    <2> DEFINE A == {k \in S : k <= i}
               B == {k \in S : k <= j}
    <2>1. IsFiniteSet(B)
      BY <1>1, FS_Subset
    <2>2. A \in SUBSET B /\ j \in B /\ j \notin A
      <3>1. ASSUME NEW k \in A PROVE k \in B
        <4>1. k \in Nat /\ i \in Nat /\ j \in Nat /\ k \in S /\ k <= i
          OBVIOUS
        <4> QED
          BY <1>3, <4>1
      <3>2. j \in Nat /\ i \in Nat
        OBVIOUS
      <3>3. j \in B /\ j \notin A
        BY <1>3, <3>2
      <3> QED
        BY <3>1, <3>3, Zenon
    <2>3. Cardinality(A) <= Cardinality(B) /\ Cardinality(A) # Cardinality(B)
      BY <2>1, <2>2, FS_Subset
    <2>4. Rank(i) \in Nat /\ Rank(j) \in Nat
      BY <1>2, <1>1
    <2> QED
      BY <2>3, <2>4
  <1>4. ASSUME NEW r \in 1 .. Cardinality(S) PROVE \E i \in S : Rank(i) = r
    <2> DEFINE f == [i \in S |-> Rank(i)]
               T == 1 .. Cardinality(S)
    <2>1. f \in [S -> T]
      BY <1>2
    <2>2. \A i, j \in S : f[i] = f[j] => i = j
      <3> SUFFICES ASSUME NEW i \in S, NEW j \in S, i # j PROVE Rank(i) # Rank(j)
        OBVIOUS
      <3>1. i < j \/ j < i
        OBVIOUS
      <3>2. Rank(i) \in Nat /\ Rank(j) \in Nat
        BY <1>1, <1>2
      <3> QED
        BY <1>3, <3>1, <3>2
    <2>3. f \in Injection(S, T)
      BY <2>1, <2>2, Zenon DEF Injection, IsInjective
    <2>4. IsFiniteSet(T) /\ Cardinality(T) = Cardinality(S)
      BY <1>1, FS_Interval
    <2>5. f \in Surjection(S, T)
      BY <2>3, <2>4, FS_Injection
    <2> QED
      BY <2>5, Zenon DEF Surjection
  <1> QED
    BY <1>1, <1>2, <1>3, <1>4

\* The list r has the members of wl that are not in gone, in their order.
Cut(wl, gone, r) ==
    /\ r \in Seq(Names)
    /\ \A k \in DOMAIN r : \E i \in DOMAIN wl : wl[i] = r[k] /\ wl[i] \notin gone
    /\ \A i \in DOMAIN wl : wl[i] \notin gone => \E k \in DOMAIN r : r[k] = wl[i]
    /\ \A k, m \in DOMAIN r : k < m =>
         \E i, j \in DOMAIN wl : i < j /\ wl[i] = r[k] /\ wl[j] = r[m]

\* A list without some of its members: the k-th of those that stay.
Kept(list, gone) ==
    LET stay == {i \in DOMAIN list : list[i] \notin gone} IN
    [k \in 1 .. Cardinality(stay) |->
       list[CHOOSE i \in stay : Cardinality({j \in stay : j <= i}) = k]]

\* Kept cuts the others out of the list.
LEMMA KeptIsCut ==
    ASSUME NEW wl \in Seq(Names), NEW gone
    PROVE  Cut(wl, gone, Kept(wl, gone))
  <1> DEFINE stay == {i \in DOMAIN wl : wl[i] \notin gone}
             Rank(i) == Cardinality({j \in stay : j <= i})
             At(k) == CHOOSE i \in stay : Rank(i) = k
             r == Kept(wl, gone)
  <1>1. PICK n \in Nat :
          /\ n = Cardinality(stay)
          /\ \A i, j \in stay : i < j => Rank(i) < Rank(j)
          /\ \A k \in 1 .. n : \E i \in stay : Rank(i) = k
          /\ \A i \in stay : Rank(i) \in 1 .. n
    <2>1. Len(wl) \in Nat /\ stay \in SUBSET (1 .. Len(wl))
      OBVIOUS
    <2> HIDE DEF stay
    <2>2. /\ Cardinality(stay) \in Nat
          /\ \A i, j \in stay : i < j => Cardinality({k \in stay : k <= i})
                                         < Cardinality({k \in stay : k <= j})
          /\ \A k \in 1 .. Cardinality(stay) :
               \E i \in stay : Cardinality({j \in stay : j <= i}) = k
          /\ \A i \in stay : Cardinality({k \in stay : k <= i}) \in 1 .. Cardinality(stay)
      BY <2>1, Ranks, Zenon
    <2> QED
      BY <2>2, Zenon
  <1>2. r = [k \in 1 .. n |-> wl[At(k)]]
    BY <1>1 DEF Kept
  <1>3. \A k \in 1 .. n : At(k) \in stay /\ Rank(At(k)) = k
    BY <1>1, Zenon
  <1> HIDE DEF At, Rank
  <1>4. \A i \in stay : i \in 1 .. Len(wl) /\ i \in DOMAIN wl /\ wl[i] \in Names /\ wl[i] \notin gone
    OBVIOUS
  <1> HIDE DEF stay, r
  <1>5. DOMAIN r = 1 .. n /\ \A k \in 1 .. n : r[k] = wl[At(k)]
    BY <1>2
  <1>6. r \in Seq(Names)
    BY <1>2, <1>3, <1>4
  <1>7. ASSUME NEW k \in 1 .. n, NEW m \in 1 .. n, k < m
        PROVE  At(k) < At(m)
    <2>1. At(k) \in stay /\ At(m) \in stay /\ Rank(At(k)) = k /\ Rank(At(m)) = m
      BY <1>3
    <2>2. At(k) \in Nat /\ At(m) \in Nat
      BY <2>1, <1>4
    <2>3. At(m) < At(k) => m < k
      BY <2>1, <1>1
    <2>4. At(m) # At(k)
      BY <2>1, <1>7
    <2> QED
      BY <2>2, <2>3, <2>4, <1>7
  <1>8. ASSUME NEW i \in DOMAIN wl, wl[i] \notin gone PROVE \E k \in DOMAIN r : r[k] = wl[i]
    <2>1. i \in stay
      BY <1>8 DEF stay
    <2>2. Rank(i) \in 1 .. n
      BY <2>1, <1>1
    <2>3. At(Rank(i)) \in stay /\ Rank(At(Rank(i))) = Rank(i)
      BY <2>2, <1>3
    <2>4. At(Rank(i)) = i
      <3>1. i \in Nat /\ At(Rank(i)) \in Nat /\ Rank(i) \in Nat
        BY <2>1, <2>2, <2>3, <1>4
      <3>2. At(Rank(i)) < i => Rank(At(Rank(i))) < Rank(i)
        BY <2>1, <2>3, <1>1
      <3>3. i < At(Rank(i)) => Rank(i) < Rank(At(Rank(i)))
        BY <2>1, <2>3, <1>1
      <3> QED
        BY <3>1, <3>2, <3>3, <2>3
    <2> QED
      BY <2>2, <2>4, <1>5
  <1>9. \A k \in DOMAIN r : \E i \in DOMAIN wl : wl[i] = r[k] /\ wl[i] \notin gone
    BY <1>3, <1>4, <1>5
  <1>10. \A k, m \in DOMAIN r : k < m =>
                \E i, j \in DOMAIN wl : i < j /\ wl[i] = r[k] /\ wl[j] = r[m]
    BY <1>3, <1>4, <1>5, <1>7
  <1> QED
    BY <1>6, <1>8, <1>9, <1>10 DEF r, Cut

-----------------------------------------------------------------------------
(* The work list *)

\* A new item is behind all others.
LEMMA AheadAppend ==
    ASSUME NEW wl \in Seq(Names), NEW w \in Nat, NEW x \in Names, x # w,
           \A i \in DOMAIN wl : wl[i] # x,
           NEW a, NEW b, Ahead(Append(wl, x), w, a, b)
    PROVE  a # x /\ (b = x \/ Ahead(wl, w, a, b))
  <1> DEFINE r == Append(wl, x)
  <1>1. Len(wl) \in Nat /\ DOMAIN wl = 1 .. Len(wl)
    OBVIOUS
  <1>2. /\ DOMAIN r = 1 .. (Len(wl) + 1)
        /\ \A i \in 1 .. Len(wl) : r[i] = wl[i]
        /\ r[Len(wl) + 1] = x
    OBVIOUS
  <1> HIDE DEF r
  <1>3. a # 0 /\ (\/ a = w /\ \E j \in DOMAIN r : r[j] = b
                 \/ \E i, j \in DOMAIN r : i < j /\ r[i] = a /\ r[j] = b)
    BY DEF Ahead, r
  <1>4. CASE a = w /\ \E j \in DOMAIN r : r[j] = b
    <2>1. PICK j \in 1 .. (Len(wl) + 1) : r[j] = b
      BY <1>4, <1>2
    <2>2. j = Len(wl) + 1 \/ j \in 1 .. Len(wl)
      BY <1>1
    <2> QED
      BY <1>1, <1>2, <1>3, <1>4, <2>1, <2>2 DEF Ahead
  <1>5. CASE \E i, j \in DOMAIN r : i < j /\ r[i] = a /\ r[j] = b
    <2>1. PICK i \in 1 .. (Len(wl) + 1), j \in 1 .. (Len(wl) + 1) : i < j /\ r[i] = a /\ r[j] = b
      BY <1>5, <1>2
    <2>2. i \in 1 .. Len(wl) /\ (j = Len(wl) + 1 \/ j \in 1 .. Len(wl))
      BY <1>1, <2>1
    <2> QED
      BY <1>1, <1>2, <1>3, <2>1, <2>2, Zenon DEF Ahead
  <1> QED
    BY <1>3, <1>4, <1>5

\* The item taken is the one before all others.
LEMMA AheadTail ==
    ASSUME NEW wl \in Seq(Names), wl # <<>>,
           NEW a, NEW b, Ahead(Tail(wl), Head(wl), a, b)
    PROVE  Ahead(wl, 0, a, b)
  <1> DEFINE r == Tail(wl)
  <1>1. Len(wl) \in Nat /\ DOMAIN wl = 1 .. Len(wl) /\ Len(wl) > 0 /\ Head(wl) = wl[1]
    OBVIOUS
  <1>2. /\ DOMAIN r = 1 .. (Len(wl) - 1)
        /\ \A i \in 1 .. (Len(wl) - 1) : r[i] = wl[i + 1]
    OBVIOUS
  <1> HIDE DEF r
  <1>3. a # 0 /\ (\/ a = wl[1] /\ \E j \in DOMAIN r : r[j] = b
                 \/ \E i, j \in DOMAIN r : i < j /\ r[i] = a /\ r[j] = b)
    BY <1>1 DEF Ahead, r
  <1>4. CASE a = wl[1] /\ \E j \in DOMAIN r : r[j] = b
    <2>1. PICK j \in 1 .. (Len(wl) - 1) : r[j] = b
      BY <1>4, <1>2
    <2>2. 1 \in DOMAIN wl /\ j + 1 \in DOMAIN wl /\ 1 < j + 1 /\ wl[j + 1] = b
      BY <1>1, <1>2, <2>1
    <2> QED
      BY <1>3, <1>4, <2>2 DEF Ahead
  <1>5. CASE \E i, j \in DOMAIN r : i < j /\ r[i] = a /\ r[j] = b
    <2>1. PICK i \in 1 .. (Len(wl) - 1), j \in 1 .. (Len(wl) - 1) : i < j /\ r[i] = a /\ r[j] = b
      BY <1>5, <1>2
    <2>2. i + 1 \in DOMAIN wl /\ j + 1 \in DOMAIN wl /\ i + 1 < j + 1
          /\ wl[i + 1] = a /\ wl[j + 1] = b
      BY <1>1, <1>2, <2>1
    <2> QED
      BY <1>3, <2>2 DEF Ahead
  <1> QED
    BY <1>3, <1>4, <1>5

\* An item that is put back is before all others again.
LEMMA AheadPutBack ==
    ASSUME NEW wl \in Seq(Names), NEW w \in Names,
           NEW a, NEW b, Ahead(<<w>> \o wl, 0, a, b)
    PROVE  Ahead(wl, w, a, b)
  <1> DEFINE r == <<w>> \o wl
  <1>1. Len(wl) \in Nat /\ DOMAIN wl = 1 .. Len(wl)
    OBVIOUS
  <1>2. /\ DOMAIN r = 1 .. (Len(wl) + 1) /\ r[1] = w
        /\ \A i \in 2 .. (Len(wl) + 1) : r[i] = wl[i - 1]
    <2>1. <<w>> \in Seq(Names) /\ Len(<<w>>) = 1 /\ <<w>>[1] = w
      OBVIOUS
    <2> QED
      BY <2>1
  <1> HIDE DEF r
  <1>3. PICK i \in 1 .. (Len(wl) + 1), j \in 1 .. (Len(wl) + 1) :
          a # 0 /\ i < j /\ r[i] = a /\ r[j] = b
    BY <1>2 DEF Ahead, r
  <1>4. j - 1 \in DOMAIN wl /\ wl[j - 1] = b
    BY <1>1, <1>2, <1>3
  <1>5. CASE i = 1
    BY <1>2, <1>3, <1>4, <1>5 DEF Ahead
  <1>6. CASE i # 1
    <2>1. i - 1 \in DOMAIN wl /\ i - 1 < j - 1 /\ wl[i - 1] = a
      BY <1>1, <1>2, <1>3, <1>6
    <2> QED
      BY <1>3, <1>4, <2>1 DEF Ahead
  <1> QED
    BY <1>5, <1>6

-----------------------------------------------------------------------------
(* What the operations do to the items *)

With(it, x, r) == [y \in DOMAIN it \cup {x} |-> IF y = x THEN r ELSE it[y]]

\* A new item at the tail (qdr_link_enqueue_work_CT).
LEMMA ItemsEnqueued ==
    ASSUME NEW wl, NEW it, NEW w, Items(wl, it, w), NEW x \in Names, x \notin DOMAIN it,
           NEW new \in ItemRecord, new.processing = FALSE
    PROVE  Items(Append(wl, x), With(it, x, new), w)
  <1> DEFINE r == Append(wl, x)
             t == With(it, x, new)
  <1>1. wl \in Seq(Names) /\ w \in Nat
    BY DEF Items
  <1>2. Len(wl) \in Nat /\ DOMAIN wl = 1 .. Len(wl)
    BY <1>1
  <1>3. /\ r \in Seq(Names)
        /\ DOMAIN r = 1 .. (Len(wl) + 1)
        /\ \A i \in 1 .. Len(wl) : r[i] = wl[i]
        /\ r[Len(wl) + 1] = x
    BY <1>1
  <1>4. x # w
    BY DEF Items, Names
  <1>5. /\ DOMAIN t = DOMAIN it \cup {x}
        /\ t[x] = new
        /\ \A y \in DOMAIN it : t[y] = it[y]
    BY DEF With
  <1>6. new \in ItemRecord /\ new.processing = FALSE
    OBVIOUS
  <1> HIDE DEF r
  <1>7. t \in [DOMAIN t -> ItemRecord]
    <2>1. \A y \in DOMAIN t : t[y] \in ItemRecord
      BY <1>5, <1>6 DEF Items
    <2> QED
      BY <2>1, Zenon DEF With
  <1> HIDE DEF t
  <1>8. IsFiniteSet(DOMAIN t) /\ DOMAIN t \subseteq Names
    BY <1>5, FS_AddElement DEF Items
  <1>9. \A i \in DOMAIN r : r[i] \in DOMAIN t /\ r[i] # w
    <2> SUFFICES ASSUME NEW i \in 1 .. (Len(wl) + 1) PROVE r[i] \in DOMAIN t /\ r[i] # w
      BY <1>3
    <2>1. i \in 1 .. Len(wl) \/ i = Len(wl) + 1
      BY <1>2
    <2> QED
      BY <2>1, <1>2, <1>3, <1>4, <1>5 DEF Items
  <1>10. \A i, j \in DOMAIN r : r[i] = r[j] => i = j
    <2> SUFFICES ASSUME NEW i \in 1 .. (Len(wl) + 1), NEW j \in 1 .. (Len(wl) + 1), r[i] = r[j]
                 PROVE  i = j
      BY <1>3
    <2>1. i \in 1 .. Len(wl) \/ i = Len(wl) + 1
      BY <1>2
    <2>2. j \in 1 .. Len(wl) \/ j = Len(wl) + 1
      BY <1>2
    <2> QED
      BY <2>1, <2>2, <1>2, <1>3 DEF Items
  <1>11. \A y \in DOMAIN t : t[y].processing <=> y = w
    BY <1>4, <1>5, <1>6 DEF Items
  <1>12. w # 0 => w \in DOMAIN t
    BY <1>5 DEF Items
  <1> QED
    BY <1>1, <1>3, <1>7, <1>8, <1>9, <1>10, <1>11, <1>12 DEF Items, r, t

\* The head of the list becomes the I/O thread's.
LEMMA ItemsTaken ==
    ASSUME NEW wl, NEW it, Items(wl, it, 0), wl # <<>>
    PROVE  /\ Head(wl) \in DOMAIN it
           /\ Items(Tail(wl), [it EXCEPT ![Head(wl)].processing = TRUE], Head(wl))
  <1> DEFINE r == Tail(wl)
             h == Head(wl)
             t == [it EXCEPT ![h].processing = TRUE]
  <1>1. wl \in Seq(Names)
    BY DEF Items
  <1>2. Len(wl) \in Nat /\ DOMAIN wl = 1 .. Len(wl) /\ Len(wl) > 0 /\ h = wl[1]
    BY <1>1
  <1>3. /\ r \in Seq(Names)
        /\ DOMAIN r = 1 .. (Len(wl) - 1)
        /\ \A i \in 1 .. (Len(wl) - 1) : r[i] = wl[i + 1]
    BY <1>1
  <1>4. h \in DOMAIN it /\ h \in Names /\ h \in Nat
    BY <1>2 DEF Items, Names
  <1> HIDE DEF r, h
  <1>5. DOMAIN t = DOMAIN it /\ \A y \in DOMAIN it : y # h => t[y] = it[y]
    OBVIOUS
  <1>6. it[h] \in ItemRecord /\ t[h] = [it[h] EXCEPT !.processing = TRUE]
    BY <1>4 DEF Items
  <1>7. t[h] \in ItemRecord /\ t[h].processing = TRUE
    BY <1>6, ZenonT(40) DEF ItemRecord
  <1>8. t \in [DOMAIN t -> ItemRecord]
    BY <1>5, <1>7, Zenon DEF Items
  <1> HIDE DEF t
  <1>9. \A i \in DOMAIN r : r[i] \in DOMAIN t /\ r[i] # h
    <2> SUFFICES ASSUME NEW i \in 1 .. (Len(wl) - 1) PROVE r[i] \in DOMAIN t /\ r[i] # h
      BY <1>3
    <2>1. r[i] = wl[i + 1] /\ i + 1 \in DOMAIN wl /\ 1 \in DOMAIN wl /\ i + 1 # 1
      BY <1>2, <1>3
    <2> QED
      BY <2>1, <1>2, <1>5 DEF Items
  <1>10. \A i, j \in DOMAIN r : r[i] = r[j] => i = j
    <2> SUFFICES ASSUME NEW i \in 1 .. (Len(wl) - 1), NEW j \in 1 .. (Len(wl) - 1), r[i] = r[j]
                 PROVE  i = j
      BY <1>3
    <2>1. wl[i + 1] = wl[j + 1] /\ i + 1 \in DOMAIN wl /\ j + 1 \in DOMAIN wl
      BY <1>2, <1>3
    <2>2. i + 1 = j + 1
      BY <2>1 DEF Items
    <2> QED
      BY <2>2
  <1>11. \A y \in DOMAIN t : t[y].processing <=> y = h
    <2> SUFFICES ASSUME NEW y \in DOMAIN it, y # h PROVE ~t[y].processing
      BY <1>5, <1>7
    <2>1. y # 0 /\ t[y] = it[y]
      BY <1>5 DEF Items, Names
    <2> QED
      BY <2>1 DEF Items
  <1> QED
    BY <1>3, <1>4, <1>5, <1>8, <1>9, <1>10, <1>11 DEF Items, r, h, t

\* The I/O thread lets go of its item.
LEMMA ItemsFinished ==
    ASSUME NEW wl, NEW it, NEW w, Items(wl, it, w), w # 0, NEW value \in Nat
    PROVE  Items(wl, [it EXCEPT ![w].value = value, ![w].processing = FALSE], 0)
  <1> DEFINE t == [it EXCEPT ![w].value = value, ![w].processing = FALSE]
  <1>1. w \in DOMAIN it /\ it[w] \in ItemRecord
    BY DEF Items
  <1>2. DOMAIN t = DOMAIN it /\ \A y \in DOMAIN it : y # w => t[y] = it[y]
    OBVIOUS
  <1>3. t[w] = [[it[w] EXCEPT !.value = value] EXCEPT !.processing = FALSE]
    BY <1>1
  <1>4. t[w] \in ItemRecord /\ t[w].processing = FALSE
    BY <1>1, <1>3, Zenon DEF ItemRecord
  <1>5. t \in [DOMAIN t -> ItemRecord]
    BY <1>2, <1>4 DEF Items
  <1> HIDE DEF t
  <1>6. \A y \in DOMAIN t : ~t[y].processing /\ y # 0
    BY <1>2, <1>4, Zenon DEF Items, Names
  <1>7. \A i \in DOMAIN wl : wl[i] \in DOMAIN t /\ wl[i] # 0
    BY <1>2, <1>6 DEF Items
  <1> QED
    BY <1>2, <1>5, <1>6, <1>7 DEF Items, t

\* Its item goes back to the head of the list.
LEMMA ItemsPutBack ==
    ASSUME NEW wl, NEW it, NEW w, Items(wl, it, w), w # 0, NEW value \in Nat
    PROVE  Items(<<w>> \o wl, [it EXCEPT ![w].value = value, ![w].processing = FALSE], 0)
  <1> DEFINE r == <<w>> \o wl
             t == [it EXCEPT ![w].value = value, ![w].processing = FALSE]
  <1>1. wl \in Seq(Names) /\ w \in Names
    BY DEF Items, Names
  <1>2. Len(wl) \in Nat /\ DOMAIN wl = 1 .. Len(wl)
    BY <1>1
  <1>3. /\ r \in Seq(Names)
        /\ DOMAIN r = 1 .. (Len(wl) + 1) /\ r[1] = w
        /\ \A i \in 2 .. (Len(wl) + 1) : r[i] = wl[i - 1]
    <2>1. <<w>> \in Seq(Names) /\ Len(<<w>>) = 1 /\ <<w>>[1] = w
      BY <1>1
    <2> QED
      BY <1>1, <2>1
  <1>4. Items(wl, t, 0)
    BY ItemsFinished
  <1>5. DOMAIN t = DOMAIN it /\ w \in DOMAIN it
    BY DEF Items
  <1> HIDE DEF r, t
  <1>6. \A i \in 1 .. (Len(wl) + 1) :
          i = 1 \/ (i # 1 /\ i - 1 \in DOMAIN wl /\ r[i] = wl[i - 1])
    BY <1>2, <1>3
  <1>7. \A i \in DOMAIN r : r[i] \in DOMAIN t /\ r[i] # 0
    BY <1>1, <1>3, <1>4, <1>5, <1>6, Zenon DEF Items, Names
  <1>8. ASSUME NEW i \in DOMAIN r, NEW j \in DOMAIN r, r[i] = r[j] PROVE i = j
    <2>1. \A k \in DOMAIN wl : wl[k] # w
      BY DEF Items
    <2>2. CASE i # 1 /\ j # 1
      <3>1. i - 1 \in DOMAIN wl /\ j - 1 \in DOMAIN wl /\ wl[i - 1] = wl[j - 1]
        BY <1>3, <1>6, <1>8, <2>2
      <3>2. i - 1 = j - 1
        BY <3>1, <1>4 DEF Items
      <3> QED
        BY <3>2, <1>3, <1>2
    <2> QED
      BY <2>1, <2>2, <1>3, <1>6, <1>8
  <1> QED
    BY <1>3, <1>4, <1>7, <1>8 DEF Items, r, t

\* Items that are neither in the list nor worked on may be freed.
LEMMA ItemsFreed ==
    ASSUME NEW wl, NEW it, NEW w, Items(wl, it, w), NEW S \in SUBSET DOMAIN it,
           \A i \in DOMAIN wl : wl[i] \in S, w # 0 => w \in S
    PROVE  Items(wl, Restrict(it, S), w)
  <1> DEFINE t == Restrict(it, S)
  <1>1. DOMAIN t = S /\ \A y \in S : t[y] = it[y]
    BY DEF Restrict
  <1>2. t \in [DOMAIN t -> ItemRecord]
    <2>1. \A y \in S : it[y] \in ItemRecord
      BY DEF Items
    <2> QED
      BY <2>1 DEF Restrict
  <1>3. IsFiniteSet(S) /\ S \subseteq Names
    BY FS_Subset DEF Items
  <1> HIDE DEF t
  <1> QED
    BY <1>1, <1>2, <1>3 DEF Items, t

\* Items may leave the list, and values change.
LEMMA ItemsCut ==
    ASSUME NEW wl, NEW it, NEW w, Items(wl, it, w), NEW gone, NEW r, Cut(wl, gone, r),
           NEW V \in [DOMAIN it -> Nat]
    PROVE  Items(r, [x \in DOMAIN it |-> [it[x] EXCEPT !.value = V[x]]], w)
  <1> DEFINE t == [x \in DOMAIN it |-> [it[x] EXCEPT !.value = V[x]]]
  <1>1. wl \in Seq(Names)
    BY DEF Items
  <1>2. /\ r \in Seq(Names)
        /\ \A k \in DOMAIN r : \E i \in DOMAIN wl : wl[i] = r[k]
        /\ \A k, m \in DOMAIN r : k < m =>
             \E i, j \in DOMAIN wl : i < j /\ wl[i] = r[k] /\ wl[j] = r[m]
    BY DEF Cut
  <1>3. DOMAIN t = DOMAIN it /\ \A x \in DOMAIN it : t[x] = [it[x] EXCEPT !.value = V[x]]
    OBVIOUS
  <1>4. \A x \in DOMAIN it : t[x] \in ItemRecord /\ t[x].processing = it[x].processing
    <2> SUFFICES ASSUME NEW x \in DOMAIN it
                 PROVE  t[x] \in ItemRecord /\ t[x].processing = it[x].processing
      OBVIOUS
    <2>1. it[x] \in ItemRecord /\ V[x] \in Nat
      BY DEF Items
    <2> QED
      BY <1>3, <2>1 DEF ItemRecord
  <1>5. t \in [DOMAIN t -> ItemRecord]
    BY <1>4
  <1> HIDE DEF t
  <1>6. ASSUME NEW k \in DOMAIN r, NEW m \in DOMAIN r, r[k] = r[m] PROVE k = m
    <2>1. k \in Nat /\ m \in Nat
      BY <1>2
    <2>2. ~(k < m) /\ ~(m < k)
      <3>1. \A i, j \in DOMAIN wl : wl[i] = wl[j] => i = j
        BY DEF Items
      <3>2. \A i, j \in DOMAIN wl : i \in Nat /\ j \in Nat
        BY <1>1
      <3> QED
        BY <1>2, <1>6, <3>1, <3>2
    <2> QED
      BY <2>1, <2>2
  <1>7. \A k \in DOMAIN r : r[k] \in DOMAIN t /\ r[k] # w
    BY <1>2, <1>3 DEF Items
  <1> QED
    BY <1>2, <1>3, <1>4, <1>5, <1>6, <1>7 DEF Items, t

-----------------------------------------------------------------------------
(* What the operations do to the deliveries of the items *)

Consistent(n, u, lw, wl, it, fw, w, c) ==
    /\ n \in Nat /\ fw \in Nat /\ c \in Nat
    /\ Items(wl, it, w)
    /\ Linked(n, u, lw, wl, it, fw, w, c)
    /\ Ordered(u, lw, wl, it, w)

\* An item stands for finitely many deliveries.
LEMMA HeldFinite ==
    ASSUME NEW n \in Nat, NEW lw, NEW x
    PROVE  IsFiniteSet(Held(n, lw, x)) /\ Cardinality(Held(n, lw, x)) \in Nat
  <1>1. IsFiniteSet(1 .. n)
    BY FS_Interval
  <1>2. Held(n, lw, x) \in SUBSET (1 .. n)
    BY DEF Held
  <1>3. IsFiniteSet(Held(n, lw, x))
    BY <1>1, <1>2, FS_Subset
  <1> QED
    BY <1>3, FS_CardinalityType

\* List r and items t have item x, of which rec is known, behind those of wl and it.
Behind(wl, it, w, x, rec, r, t) ==
    /\ x # w /\ x # 0
    /\ DOMAIN t = DOMAIN it \cup {x}
    /\ t[x] = rec
    /\ \A y \in DOMAIN it : t[y] = it[y]
    /\ \A y \in DOMAIN t : y = w \/ \E i \in DOMAIN r : r[i] = y
    /\ \A a, b : Ahead(r, w, a, b) => a # x /\ (b = x \/ Ahead(wl, w, a, b))

\* A new item is put behind the others, whatever it stands for.
LEMMA Appended ==
    ASSUME NEW n, NEW u, NEW lw, NEW wl, NEW it, NEW fw, NEW w, NEW c,
           Consistent(n, u, lw, wl, it, fw, w, c),
           NEW x \in Names, x \notin DOMAIN it, NEW rec
    PROVE  Behind(wl, it, w, x, rec, Append(wl, x), With(it, x, rec))
  <1>1. wl \in Seq(Names) /\ w \in Nat /\ x # 0
    BY DEF Consistent, Items, Names
  <1>2. x # w /\ \A i \in DOMAIN wl : wl[i] # x
    BY <1>1 DEF Consistent, Items
  <1>3. /\ DOMAIN With(it, x, rec) = DOMAIN it \cup {x}
        /\ With(it, x, rec)[x] = rec
        /\ \A y \in DOMAIN it : With(it, x, rec)[y] = it[y]
    BY DEF With
  <1>4. /\ Len(wl) \in Nat
        /\ DOMAIN wl = 1 .. Len(wl)
        /\ DOMAIN Append(wl, x) = 1 .. (Len(wl) + 1)
        /\ \A i \in 1 .. Len(wl) : Append(wl, x)[i] = wl[i]
        /\ Append(wl, x)[Len(wl) + 1] = x
    BY <1>1
  <1>5. ASSUME NEW y \in DOMAIN it \cup {x}
        PROVE  y = w \/ \E i \in DOMAIN Append(wl, x) : Append(wl, x)[i] = y
    <2>1. CASE y = x
      <3>1. Len(wl) + 1 \in 1 .. (Len(wl) + 1)
        BY <1>4
      <3> QED
        BY <2>1, <3>1, <1>4
    <2>2. CASE y \in DOMAIN it
      <3>1. y = w \/ \E i \in DOMAIN wl : wl[i] = y
        BY <2>2 DEF Consistent, Linked
      <3>2. \A i \in DOMAIN wl : i \in 1 .. (Len(wl) + 1) /\ i \in 1 .. Len(wl)
        BY <1>4
      <3> QED
        BY <3>1, <3>2, <1>4
    <2> QED
      BY <2>1, <2>2
  <1>6. \A a, b : Ahead(Append(wl, x), w, a, b) => a # x /\ (b = x \/ Ahead(wl, w, a, b))
    BY <1>1, <1>2, AheadAppend
  <1> QED
    BY <1>1, <1>2, <1>3, <1>5, <1>6 DEF Behind

\* A drain or a detach is put behind everything that was forwarded before it.
LEMMA EnqueuedConsistent ==
    ASSUME NEW n, NEW u, NEW lw, NEW wl, NEW it, NEW fw, NEW w, NEW c,
           Consistent(n, u, lw, wl, it, fw, w, c),
           NEW x \in Names, x \notin DOMAIN it,
           NEW new \in ItemRecord, new.processing = FALSE, new.kind # "delivery", new.after = fw
    PROVE  Consistent(n, u, lw, Append(wl, x), With(it, x, new), fw, w, c)
  <1> DEFINE r == Append(wl, x)
             t == With(it, x, new)
  <1>1. Behind(wl, it, w, x, new, r, t)
    BY Appended
  <1>2. t[x].kind # "delivery" /\ t[x].after = fw
    BY <1>1 DEF Behind
  <1>3. fw \in Nat /\ n \in Nat /\ c \in Nat
    BY DEF Consistent
  <1>4. Items(r, t, w)
    BY <1>3, ItemsEnqueued, Zenon DEF Consistent
  <1> HIDE DEF r, t
  <1>5. \A d \in u : d \in Nat /\ d <= fw /\ lw[d] \in DOMAIN it /\ lw[d] # x
    BY <1>3 DEF Consistent, Linked
  <1>6. Linked(n, u, lw, r, t, fw, w, c)
    BY <1>1, <1>2, <1>3, <1>5 DEF Consistent, Linked, Behind
  <1>7. Ordered(u, lw, r, t, w)
    <2>1. \A d, e \in u : Ahead(r, w, lw[d], lw[e]) => d < e
      BY <1>1, <1>5 DEF Consistent, Ordered, Behind
    <2>2. ASSUME NEW d \in u, NEW y \in DOMAIN t, t[y].kind = "flow"
          PROVE  /\ Ahead(r, w, lw[d], y) => d <= t[y].after
                 /\ Ahead(r, w, y, lw[d]) => t[y].after < d
      <3>1. CASE y = x
        BY <3>1, <1>1, <1>2, <1>5 DEF Behind
      <3>2. CASE y # x
        BY <2>2, <3>2, <1>1, <1>5 DEF Consistent, Ordered, Behind
      <3> QED
        BY <3>1, <3>2
    <2> QED
      BY <2>1, <2>2 DEF Ordered
  <1> QED
    BY <1>3, <1>4, <1>6, <1>7 DEF Consistent, r, t

\* References m are those of lw, with delivery f referring to item x.
Refers(n, u, lw, x, f, m) ==
    /\ m \in [1 .. n -> Nat]
    /\ m[f] = x /\ \A d \in u : m[d] = lw[d]
    /\ u \cup {f} \subseteq 1 .. f /\ f \notin u
    /\ \A d \in 1 .. n : d \in u \cup {f} <=> m[d] # 0
    /\ Held(n, m, x) = Held(n, lw, x) \cup {f} /\ f \notin Held(n, lw, x)
    /\ \A y \in Names : y # x => Held(n, m, y) = Held(n, lw, y)

\* The next delivery is given an item.
LEMMA NextRefers ==
    ASSUME NEW n, NEW u, NEW lw, NEW wl, NEW it, NEW fw, NEW w, NEW c,
           Consistent(n, u, lw, wl, it, fw, w, c), fw < n, NEW x \in Names
    PROVE  Refers(n, u, lw, x, fw + 1, [lw EXCEPT ![fw + 1] = x])
  <1> DEFINE m == [lw EXCEPT ![fw + 1] = x]
  <1>1. PICK f \in 1 .. n : f = fw + 1
    BY DEF Consistent
  <1>2. lw \in [1 .. n -> Nat] /\ f \notin u /\ lw[f] = 0 /\ f \in Nat
    BY <1>1 DEF Consistent, Linked
  <1>3. m \in [1 .. n -> Nat] /\ m[f] = x /\ \A d \in 1 .. n : d # f => m[d] = lw[d]
    BY <1>1, <1>2 DEF Names
  <1>4. u \subseteq 1 .. n /\ u \cup {f} \subseteq 1 .. f
    <2>1. u \subseteq 1 .. fw /\ fw <= n /\ fw \in Nat /\ n \in Nat
      BY DEF Consistent, Linked
    <2> QED
      BY <1>1, <2>1
  <1> HIDE DEF m
  <1>5. x # 0
    BY DEF Names
  <1>6. \A d \in 1 .. n : d \in u \cup {f} <=> m[d] # 0
    BY <1>2, <1>3, <1>5 DEF Consistent, Linked
  <1>7. Held(n, m, x) = Held(n, lw, x) \cup {f} /\ f \notin Held(n, lw, x)
    BY <1>2, <1>3, <1>5 DEF Held
  <1>8. \A y \in Names : y # x => Held(n, m, y) = Held(n, lw, y)
    BY <1>2, <1>3 DEF Held, Names
  <1>9. \A d \in u : m[d] = lw[d]
    BY <1>2, <1>3, <1>4
  <1> QED
    BY <1>1, <1>2, <1>3, <1>4, <1>6, <1>7, <1>8, <1>9, Zenon DEF m, Refers

\* qdr_forward_deliver_CT with a new item for the delivery.
LEMMA ForwardedConsistent ==
    ASSUME NEW n, NEW u, NEW lw, NEW wl, NEW it, NEW fw, NEW w, NEW c,
           Consistent(n, u, lw, wl, it, fw, w, c), fw < n,
           NEW x \in Names, x \notin DOMAIN it, NEW new \in ItemRecord, new.processing = FALSE,
           new.kind = "delivery", new.value = 1, new.after = fw + 1
    PROVE  Consistent(n, u \cup {fw + 1}, [lw EXCEPT ![fw + 1] = x], Append(wl, x),
                      With(it, x, new), fw + 1, w, c)
  <1> DEFINE r == Append(wl, x)
             t == With(it, x, new)
             m == [lw EXCEPT ![fw + 1] = x]
             v == u \cup {fw + 1}
  <1>1. Behind(wl, it, w, x, new, r, t)
    BY Appended
  <1>2. fw \in Nat /\ n \in Nat /\ c \in Nat /\ fw + 1 \in Nat
    BY DEF Consistent
  <1>3. Items(r, t, w)
    BY <1>2, ItemsEnqueued, Zenon DEF Consistent
  <1>4. /\ m \in [1 .. n -> Nat]
        /\ m[fw + 1] = x /\ \A d \in u : m[d] = lw[d]
        /\ v \subseteq 1 .. (fw + 1) /\ fw + 1 \notin u
        /\ \A d \in 1 .. n : d \in v <=> m[d] # 0
        /\ Held(n, m, x) = Held(n, lw, x) \cup {fw + 1}
        /\ \A y \in Names : y # x => Held(n, m, y) = Held(n, lw, y)
    <2>1. Refers(n, u, lw, x, fw + 1, m)
      BY NextRefers
    <2> QED
      BY <2>1, Zenon DEF Refers
  <1>5. t[x].kind = "delivery" /\ t[x].value = 1 /\ t[x].after = fw + 1
    BY <1>1 DEF Behind
  <1> HIDE DEF r, t, m, v
  <1>6. \A d \in u : d \in Nat /\ d <= fw /\ lw[d] \in DOMAIN it /\ lw[d] # x
    BY <1>2 DEF Consistent, Linked
  <1>7. Cardinality(Held(n, m, x)) = 1
    <2>1. Held(n, lw, x) = {}
      BY <1>6, <1>1 DEF Held, Behind, Consistent, Linked
    <2>2. Held(n, m, x) = {fw + 1}
      BY <1>4, <2>1
    <2> QED
      BY <2>2, FS_Singleton, Zenon
  <1>8. Linked(n, v, m, r, t, fw + 1, w, c)
    <2>1. \A d \in v : m[d] \in DOMAIN t /\ t[m[d]].kind = "delivery"
      <3>1. \A d \in v : d = fw + 1 \/ d \in u
        BY DEF v
      <3>2. \A d \in u : it[lw[d]].kind = "delivery"
        BY DEF Consistent, Linked
      <3> QED
        BY <3>1, <3>2, <1>1, <1>4, <1>5, <1>6 DEF Behind
    <2>2. \A y \in DOMAIN t : t[y].after <= fw + 1
      <3>1. \A y \in DOMAIN it : it[y].after <= fw /\ it[y].after \in Nat
        BY DEF Consistent, Linked, Items, ItemRecord
      <3> QED
        BY <3>1, <1>1, <1>2, <1>5 DEF Behind
    <2>3. ASSUME NEW y \in DOMAIN t, t[y].kind = "delivery"
          PROVE  t[y].value - (IF y = w THEN c ELSE 0) = Cardinality(Held(n, m, y))
      <3>1. CASE y = x
        BY <3>1, <1>1, <1>5, <1>7 DEF Behind
      <3>2. CASE y # x
        <4>1. y \in DOMAIN it /\ y \in Names /\ t[y] = it[y]
          BY <3>2, <1>1 DEF Behind, Consistent, Items
        <4>2. Held(n, m, y) = Held(n, lw, y)
          BY <4>1, <3>2, <1>4
        <4> QED
          BY <2>3, <4>1, <4>2 DEF Consistent, Linked
      <3> QED
        BY <3>1, <3>2
    <2>4. \A y \in DOMAIN t : y = w \/ \E i \in DOMAIN r : r[i] = y
      BY <1>1 DEF Behind
    <2>5. fw + 1 <= n
      BY <1>2
    <2> QED
      BY <2>1, <2>2, <2>3, <2>4, <2>5, <1>4 DEF Linked
  <1>9. Ordered(v, m, r, t, w)
    <2>1. \A d \in v : d = fw + 1 \/ d \in u
      BY DEF v
    <2>2. ASSUME NEW d \in v, NEW e \in v, Ahead(r, w, m[d], m[e]) PROVE d < e
      <3>1. d \in u /\ m[d] = lw[d]
        BY <2>1, <2>2, <1>1, <1>4 DEF Behind
      <3>2. CASE e = fw + 1
        BY <3>1, <3>2, <1>2, <1>6, SMTT(30)
      <3>3. CASE e \in u
        BY <3>1, <3>3, <2>2, <1>1, <1>4, <1>6, SMTT(30) DEF Behind, Consistent, Ordered
      <3> QED
        BY <3>2, <3>3, <2>1
    <2>3. ASSUME NEW d \in v, NEW y \in DOMAIN t, t[y].kind = "flow"
          PROVE  /\ Ahead(r, w, m[d], y) => d <= t[y].after
                 /\ Ahead(r, w, y, m[d]) => t[y].after < d
      <3>1. y \in DOMAIN it /\ t[y] = it[y] /\ y # x /\ it[y].after \in Nat /\ it[y].after <= fw
        BY <2>3, <1>1, <1>5 DEF Behind, Consistent, Linked, Items, ItemRecord
      <3>2. CASE d = fw + 1
        BY <3>1, <3>2, <1>1, <1>2, <1>4, SMTT(30) DEF Behind
      <3>3. CASE d \in u
        BY <2>3, <3>1, <3>3, <1>1, <1>4, <1>6, SMTT(30) DEF Behind, Consistent, Ordered
      <3> QED
        BY <3>2, <3>3, <2>1
    <2> QED
      BY <2>2, <2>3 DEF Ordered
  <1> QED
    BY <1>2, <1>3, <1>8, <1>9 DEF Consistent, r, t, m, v

\* qdr_forward_deliver_CT with the item at the tail.
LEMMA JoinedConsistent ==
    ASSUME NEW n, NEW u, NEW lw, NEW wl, NEW it, NEW fw, NEW w, NEW c,
           Consistent(n, u, lw, wl, it, fw, w, c), fw < n,
           wl # <<>>, NEW x, x = wl[Len(wl)], it[x].kind = "delivery"
    PROVE  Consistent(n, u \cup {fw + 1}, [lw EXCEPT ![fw + 1] = x], wl,
                      [it EXCEPT ![x].value = it[x].value + 1], fw + 1, w, c)
  <1> DEFINE t == [it EXCEPT ![x].value = it[x].value + 1]
             m == [lw EXCEPT ![fw + 1] = x]
             v == u \cup {fw + 1}
  <1>1. fw \in Nat /\ n \in Nat /\ c \in Nat /\ fw + 1 \in Nat /\ fw + 1 <= n
    BY DEF Consistent
  <1>2. Len(wl) \in DOMAIN wl /\ DOMAIN wl = 1 .. Len(wl) /\ Len(wl) \in Nat
    BY DEF Consistent, Items
  <1>3. x \in DOMAIN it /\ x \in Names /\ x # w /\ x # 0 /\ it[x] \in ItemRecord
    BY <1>2, SMTT(30) DEF Consistent, Items, Names
  <1>4. /\ DOMAIN t = DOMAIN it
        /\ \A y \in DOMAIN it : y # x => t[y] = it[y]
        /\ t[x] = [it[x] EXCEPT !.value = it[x].value + 1]
    BY <1>3
  <1>5. /\ t[x] \in ItemRecord /\ t[x].value = it[x].value + 1 /\ t[x].kind = "delivery"
        /\ t[x].after = it[x].after /\ t[x].processing = it[x].processing
        /\ it[x].value \in Nat
    BY <1>3, <1>4 DEF ItemRecord
  <1> HIDE DEF t
  <1>6. Items(wl, t, w)
    <2>1. t \in [DOMAIN t -> ItemRecord]
      BY <1>4, <1>5 DEF t, Consistent, Items
    <2>2. \A y \in DOMAIN t : t[y].processing = it[y].processing
      BY <1>4, <1>5, Zenon
    <2> QED
      BY <2>1, <2>2, <1>4 DEF Consistent, Items
  <1>7. Refers(n, u, lw, x, fw + 1, m)
    BY <1>3, NextRefers
  <1>8. \A b : ~Ahead(wl, w, x, b)
    BY <1>2, <1>3 DEF Ahead, Consistent, Items
  <1> HIDE DEF m, v
  <1>9. \A d \in v : d = fw + 1 \/ d \in u
    BY DEF v
  <1>10. \A d \in u : /\ d \in Nat /\ d <= fw /\ m[d] = lw[d]
                       /\ lw[d] \in DOMAIN it /\ it[lw[d]].kind = "delivery"
    BY <1>1, <1>7 DEF Consistent, Linked, Refers
  <1>11. \A y \in DOMAIN it : /\ t[y].kind = it[y].kind /\ t[y].after = it[y].after
                              /\ it[y].after \in Nat /\ it[y].after <= fw
    BY <1>4, <1>5, ZenonT(40) DEF Consistent, Linked, Items, ItemRecord
  <1>12. Linked(n, v, m, wl, t, fw + 1, w, c)
    <2>1. ASSUME NEW y \in DOMAIN t, t[y].kind = "delivery"
          PROVE  t[y].value - (IF y = w THEN c ELSE 0) = Cardinality(Held(n, m, y))
      <3>1. CASE y = x
        <4>1. it[x].value = Cardinality(Held(n, lw, x))
          BY <1>3, <1>5 DEF Consistent, Linked
        <4>2. Cardinality(Held(n, m, x)) = Cardinality(Held(n, lw, x)) + 1
          BY <1>1, <1>7, HeldFinite, FS_AddElement, ZenonT(40) DEF Refers
        <4> QED
          BY <3>1, <4>1, <4>2, <1>3, <1>5, SMTT(30)
      <3>2. CASE y # x
        <4>1. y \in DOMAIN it /\ y \in Names /\ t[y] = it[y]
          BY <3>2, <1>4 DEF Consistent, Items
        <4>2. Held(n, m, y) = Held(n, lw, y)
          BY <4>1, <3>2, <1>7 DEF Refers
        <4> QED
          BY <2>1, <4>1, <4>2 DEF Consistent, Linked
      <3> QED
        BY <3>1, <3>2
    <2>2. \A d \in v : m[d] \in DOMAIN t /\ t[m[d]].kind = "delivery"
      BY <1>3, <1>4, <1>5, <1>7, <1>9, <1>10, <1>11 DEF Refers
    <2>3. \A y \in DOMAIN t : t[y].after <= fw + 1
      BY <1>1, <1>4, <1>11
    <2>4. /\ m \in [1 .. n -> Nat] /\ v \subseteq 1 .. (fw + 1)
          /\ \A d \in 1 .. n : d \in v <=> m[d] # 0
      BY <1>7 DEF Refers, v
    <2>5. \A y \in DOMAIN t : y = w \/ \E i \in DOMAIN wl : wl[i] = y
      BY <1>4 DEF Consistent, Linked
    <2> QED
      BY <2>1, <2>2, <2>3, <2>4, <2>5, <1>1, Zenon DEF Linked
  <1>13. Ordered(v, m, wl, t, w)
    <2>1. ASSUME NEW d \in v, NEW e \in v, Ahead(wl, w, m[d], m[e]) PROVE d < e
      <3>1. d \in u /\ m[d] = lw[d]
        BY <2>1, <1>7, <1>8, <1>9 DEF Refers
      <3>2. CASE e = fw + 1
        BY <3>1, <3>2, <1>1, <1>10
      <3>3. CASE e \in u
        BY <3>1, <3>3, <2>1, <1>10, SMTT(30) DEF Consistent, Ordered
      <3> QED
        BY <3>2, <3>3, <1>9
    <2>2. ASSUME NEW d \in v, NEW y \in DOMAIN t, t[y].kind = "flow"
          PROVE  /\ Ahead(wl, w, m[d], y) => d <= t[y].after
                 /\ Ahead(wl, w, y, m[d]) => t[y].after < d
      <3>1. CASE d = fw + 1
        BY <3>1, <1>1, <1>4, <1>7, <1>8, <1>11, SMTT(30) DEF Refers
      <3>2. CASE d \in u
        BY <2>2, <3>2, <1>4, <1>10, <1>11 DEF Consistent, Ordered
      <3> QED
        BY <3>1, <3>2, <1>9
    <2> QED
      BY <2>1, <2>2 DEF Ordered
  <1> QED
    BY <1>1, <1>6, <1>12, <1>13, SMTT(30) DEF Consistent, t, m, v

\* The I/O thread takes the head of the list.
LEMMA TakenConsistent ==
    ASSUME NEW n, NEW u, NEW lw, NEW wl, NEW it, NEW fw,
           Consistent(n, u, lw, wl, it, fw, 0, 0), wl # <<>>
    PROVE  Consistent(n, u, lw, Tail(wl), [it EXCEPT ![Head(wl)].processing = TRUE], fw,
                      Head(wl), 0)
  <1> DEFINE t == [it EXCEPT ![Head(wl)].processing = TRUE]
             h == Head(wl)
             r == Tail(wl)
  <1>1. h \in DOMAIN it /\ Items(r, t, h)
    BY ItemsTaken DEF Consistent
  <1>2. wl \in Seq(Names) /\ h \in Names /\ it[h] \in ItemRecord
    BY <1>1 DEF Consistent, Items
  <1>3. \A y \in DOMAIN wl : y \in Nat /\ (wl[y] = h \/ \E i \in DOMAIN r : r[i] = wl[y])
    <2> SUFFICES ASSUME NEW y \in DOMAIN wl, y # 1
                 PROVE  y \in Nat /\ y - 1 \in DOMAIN r /\ r[y - 1] = wl[y]
      BY <1>2
    <2>1. /\ Len(wl) \in Nat /\ DOMAIN wl = 1 .. Len(wl)
          /\ DOMAIN r = 1 .. (Len(wl) - 1)
          /\ \A i \in 1 .. (Len(wl) - 1) : r[i] = wl[i + 1]
      BY <1>2
    <2> HIDE DEF r
    <2>2. y \in Nat /\ y - 1 \in 1 .. (Len(wl) - 1) /\ (y - 1) + 1 = y
      BY <2>1
    <2> QED
      BY <2>1, <2>2
  <1>4. \A a, b : Ahead(r, h, a, b) => Ahead(wl, 0, a, b)
    BY <1>2, AheadTail
  <1>5. DOMAIN t = DOMAIN it /\ \A y \in DOMAIN it : y # h => t[y] = it[y]
    OBVIOUS
  <1>6. t[h] = [it[h] EXCEPT !.processing = TRUE]
    BY <1>1
  <1>7. \A y \in DOMAIN it : /\ t[y].kind = it[y].kind /\ t[y].after = it[y].after
                             /\ t[y].value = it[y].value /\ it[y].value \in Nat
    BY <1>2, <1>5, <1>6 DEF ItemRecord, Consistent, Items
  <1> HIDE DEF t, h, r
  <1>8. Linked(n, u, lw, r, t, fw, h, 0)
    <2>1. \A y \in DOMAIN t : y = h \/ \E i \in DOMAIN r : r[i] = y
      <3>1. \A y \in DOMAIN it : y = 0 \/ \E i \in DOMAIN wl : wl[i] = y
        BY DEF Consistent, Linked
      <3>2. \A y \in DOMAIN it : y # 0
        BY DEF Consistent, Items, Names
      <3> QED
        BY <1>3, <1>5, <3>1, <3>2
    <2>2. \A y \in DOMAIN t : t[y].kind = "delivery" =>
            t[y].value - (IF y = h THEN 0 ELSE 0) = Cardinality(Held(n, lw, y))
      BY <1>5, <1>7 DEF Consistent, Linked
    <2> QED
      BY <1>5, <1>7, <2>1, <2>2 DEF Consistent, Linked
  <1>9. Ordered(u, lw, r, t, h)
    BY <1>4, <1>5, <1>7 DEF Consistent, Ordered
  <1> QED
    BY <1>1, <1>8, <1>9 DEF Consistent, t, h, r

\* What is left of an item goes back to the head of the list.
LEMMA PutBackConsistent ==
    ASSUME NEW n, NEW u, NEW lw, NEW wl, NEW it, NEW fw, NEW w, NEW c,
           Consistent(n, u, lw, wl, it, fw, w, c), w # 0,
           NEW value \in Nat, value = it[w].value - c
    PROVE  Consistent(n, u, lw, <<w>> \o wl,
                      [it EXCEPT ![w].value = value, ![w].processing = FALSE], fw, 0, 0)
  <1> DEFINE t == [it EXCEPT ![w].value = value, ![w].processing = FALSE]
             r == <<w>> \o wl
  <1>1. Items(r, t, 0)
    BY ItemsPutBack, Zenon DEF Consistent
  <1>2. wl \in Seq(Names) /\ w \in Names /\ w \in DOMAIN it /\ it[w] \in ItemRecord
    BY DEF Consistent, Items, Names
  <1>3. \A a, b : Ahead(r, 0, a, b) => Ahead(wl, w, a, b)
    BY <1>2, AheadPutBack
  <1>4. (\E i \in DOMAIN r : r[i] = w) /\ \A j \in DOMAIN wl : \E i \in DOMAIN r : r[i] = wl[j]
    <2>1. <<w>> \in Seq(Names) /\ Len(<<w>>) = 1 /\ <<w>>[1] = w
      BY <1>2
    <2>2. /\ Len(wl) \in Nat /\ DOMAIN wl = 1 .. Len(wl)
          /\ DOMAIN r = 1 .. (Len(wl) + 1) /\ r[1] = w
          /\ \A i \in 2 .. (Len(wl) + 1) : r[i] = wl[i - 1]
      BY <1>2, <2>1
    <2> HIDE DEF r
    <2>3. \A j \in DOMAIN wl : j + 1 \in DOMAIN r /\ r[j + 1] = wl[j]
      BY <2>2
    <2> QED
      BY <2>2, <2>3
  <1>5. DOMAIN t = DOMAIN it /\ \A y \in DOMAIN it : y # w => t[y] = it[y]
    OBVIOUS
  <1>6. t[w] = [[it[w] EXCEPT !.value = value] EXCEPT !.processing = FALSE]
    BY <1>2
  <1>7. \A y \in DOMAIN it : /\ t[y].kind = it[y].kind /\ t[y].after = it[y].after
                             /\ t[y].value = IF y = w THEN value ELSE it[y].value
                             /\ it[y].value \in Nat
    BY <1>2, <1>5, <1>6, SMTT(30) DEF ItemRecord, Consistent, Items
  <1> HIDE DEF t, r
  <1>8. Linked(n, u, lw, r, t, fw, 0, 0)
    <2>1. \A y \in DOMAIN t : y = 0 \/ \E i \in DOMAIN r : r[i] = y
      BY <1>4, <1>5 DEF Consistent, Linked
    <2>2. ASSUME NEW y \in DOMAIN t, t[y].kind = "delivery"
          PROVE  t[y].value - (IF y = 0 THEN 0 ELSE 0) = Cardinality(Held(n, lw, y))
      <3>1. it[y].value - (IF y = w THEN c ELSE 0) = Cardinality(Held(n, lw, y))
        BY <2>2, <1>5, <1>7 DEF Consistent, Linked
      <3>2. c \in Nat
        BY DEF Consistent
      <3> QED
        BY <1>5, <1>7, <3>1, <3>2
    <2> QED
      BY <1>5, <1>7, <2>1, <2>2, Zenon DEF Consistent, Linked
  <1>9. Ordered(u, lw, r, t, 0)
    BY <1>3, <1>5, <1>7 DEF Consistent, Ordered
  <1> QED
    BY <1>1, <1>8, <1>9 DEF Consistent, t, r

\* The items that something refers to.
Used(n, lw, wl, it) ==
    {x \in DOMAIN it : x \in Range(wl) \/ it[x].processing \/ \E d \in 1 .. n : lw[d] = x}

\* An item without deliveries that the I/O thread has finished is freed.
LEMMA FinishedConsistent ==
    ASSUME NEW n, NEW u, NEW lw, NEW wl, NEW it, NEW fw, NEW w, NEW c,
           Consistent(n, u, lw, wl, it, fw, w, c), w # 0,
           NEW value \in Nat, value = it[w].value - c,
           it[w].kind = "delivery" => value = 0,
           NEW t, t = [it EXCEPT ![w].value = value, ![w].processing = FALSE]
    PROVE  Consistent(n, u, lw, wl, Restrict(t, Used(n, lw, wl, t)), fw, 0, 0)
  <1> DEFINE q == Restrict(t, Used(n, lw, wl, t))
  <1>1. Items(wl, t, 0)
    BY ItemsFinished, Zenon DEF Consistent
  <1>2. w \in Names /\ w \in DOMAIN it /\ it[w] \in ItemRecord /\ n \in Nat /\ c \in Nat
    BY DEF Consistent, Items, Names
  <1>3. DOMAIN t = DOMAIN it /\ \A y \in DOMAIN it : y # w => t[y] = it[y]
    OBVIOUS
  <1>4. Held(n, lw, w) = {}
    <2>1. CASE it[w].kind = "delivery"
      <3>1. Cardinality(Held(n, lw, w)) = 0
        BY <1>2, <2>1 DEF Consistent, Linked
      <3> QED
        BY <3>1, <1>2, HeldFinite, FS_EmptySet
    <2>2. CASE it[w].kind # "delivery"
      BY <1>2, <2>2 DEF Held, Consistent, Linked, Names
    <2> QED
      BY <2>1, <2>2
  <1>5. Used(n, lw, wl, t) = DOMAIN it \ {w}
    <2>1. ASSUME NEW x \in Used(n, lw, wl, t) PROVE x \in DOMAIN it /\ x # w
      <3>1. x \in DOMAIN t /\ (x \in Range(wl) \/ t[x].processing \/ \E d \in 1 .. n : lw[d] = x)
        BY DEF Used
      <3>2. ~t[x].processing
        BY <1>1, <3>1 DEF Items, Names
      <3>3. w \notin Range(wl)
        BY DEF Consistent, Items, Range
      <3>4. ~\E d \in 1 .. n : lw[d] = w
        BY <1>4 DEF Held
      <3> QED
        BY <1>3, <3>1, <3>2, <3>3, <3>4
    <2>2. ASSUME NEW x \in DOMAIN it, x # w PROVE x \in Used(n, lw, wl, t)
      <3>1. \E i \in DOMAIN wl : wl[i] = x
        BY <2>2 DEF Consistent, Linked
      <3>2. x \in Range(wl)
        BY <3>1 DEF Range
      <3> QED
        BY <1>3, <3>2 DEF Used
    <2> QED
      BY <2>1, <2>2, Zenon
  <1>6. DOMAIN q = DOMAIN it \ {w} /\ \A y \in DOMAIN q : q[y] = it[y]
    BY <1>3, <1>5, Zenon DEF Restrict
  <1>7. Items(wl, q, 0)
    <2>1. Used(n, lw, wl, t) \in SUBSET DOMAIN t /\ \A i \in DOMAIN wl : wl[i] \in Used(n, lw, wl, t)
      BY <1>3, <1>5, Zenon DEF Consistent, Items
    <2> QED
      BY <1>1, <2>1, ItemsFreed, Zenon
  <1> HIDE DEF q
  <1>8. \A y \in DOMAIN q : y \in DOMAIN it /\ y # w /\ q[y] = it[y] /\ it[y].value \in Nat
    BY <1>6 DEF Consistent, Items, ItemRecord
  <1>9. Linked(n, u, lw, wl, q, fw, 0, 0)
    <2>1. \A y \in DOMAIN q : \E i \in DOMAIN wl : wl[i] = y
      BY <1>8 DEF Consistent, Linked
    <2>2. \A d \in u : lw[d] \in DOMAIN q /\ q[lw[d]].kind = "delivery"
      <3>1. \A d \in u : lw[d] # w
        BY <1>4 DEF Held, Consistent, Linked
      <3> QED
        BY <3>1, <1>6 DEF Consistent, Linked
    <2>3. \A y \in DOMAIN q : q[y].kind = "delivery" =>
            q[y].value - (IF y = 0 THEN 0 ELSE 0) = Cardinality(Held(n, lw, y))
      <3>1. \A y \in DOMAIN it : it[y].kind = "delivery" /\ y # w =>
              it[y].value - 0 = Cardinality(Held(n, lw, y))
        BY DEF Consistent, Linked
      <3> QED
        BY <1>8, <3>1
    <2> QED
      BY <1>8, <2>1, <2>2, <2>3 DEF Consistent, Linked
  <1>10. Ordered(u, lw, wl, q, 0)
    <2>1. \A a, b : Ahead(wl, 0, a, b) => Ahead(wl, w, a, b)
      BY DEF Ahead
    <2> QED
      BY <1>8, <2>1 DEF Consistent, Ordered
  <1> QED
    BY <1>7, <1>9, <1>10 DEF Consistent, q

\* The oldest delivery belongs to the item that the I/O thread works on, if that item
\* has any left.
LEMMA HeadIsHeld ==
    ASSUME NEW n, NEW u, NEW lw, NEW wl, NEW it, NEW fw, NEW w, NEW c,
           Consistent(n, u, lw, wl, it, fw, w, c), w # 0,
           it[w].kind = "delivery", c < it[w].value
    PROVE  /\ u # {} /\ Min(u) \in u /\ Min(u) \in 1 .. n /\ lw[Min(u)] = w
           /\ \A d \in u : Min(u) <= d
  <1>1. n \in Nat /\ fw \in Nat /\ c \in Nat /\ w \in DOMAIN it /\ it[w].value \in Nat
    BY DEF Consistent, Items, ItemRecord
  <1>2. Cardinality(Held(n, lw, w)) = it[w].value - c
    BY <1>1 DEF Consistent, Linked
  <1>3. Held(n, lw, w) # {}
    BY <1>1, <1>2, FS_EmptySet
  <1>4. PICK e \in 1 .. n : lw[e] = w
    BY <1>3 DEF Held
  <1>5. e \in u
    BY <1>4 DEF Consistent, Linked
  <1>6. u \in SUBSET Nat /\ u \in SUBSET (1 .. n)
    BY <1>1 DEF Consistent, Linked
  <1>7. Min(u) \in u /\ \A d \in u : Min(u) <= d
    BY <1>5, <1>6, LowestOf
  <1>8. PICK h \in u : h = Min(u)
    BY <1>7
  <1>9. lw[h] = w
    <2> SUFFICES ASSUME lw[h] # w PROVE FALSE
      OBVIOUS
    <2>1. \E i \in DOMAIN wl : wl[i] = lw[h]
      BY DEF Consistent, Linked
    <2>2. Ahead(wl, w, lw[e], lw[h])
      BY <2>1, <1>4 DEF Ahead
    <2>3. e < h
      BY <2>2, <1>5, Zenon DEF Consistent, Ordered
    <2>4. h <= e /\ h \in Nat /\ e \in Nat
      BY <1>5, <1>6, <1>7, <1>8
    <2> QED
      BY <2>3, <2>4
  <1> QED
    BY <1>5, <1>6, <1>7, <1>8, <1>9

\* The oldest delivery has been sent: it leaves the list and its item.
LEMMA SentConsistent ==
    ASSUME NEW n, NEW u, NEW lw, NEW wl, NEW it, NEW fw, NEW w, NEW c,
           Consistent(n, u, lw, wl, it, fw, w, c), w # 0,
           it[w].kind = "delivery", c < it[w].value,
           NEW m, m = [lw EXCEPT ![Min(u)] = 0]
    PROVE  Consistent(n, u \ {Min(u)}, m, wl, Restrict(it, Used(n, m, wl, it)), fw, w, c + 1)
  <1>1. n \in Nat /\ fw \in Nat /\ c \in Nat /\ c + 1 \in Nat /\ w \in DOMAIN it /\ it[w].value \in Nat
    BY DEF Consistent, Items, ItemRecord
  <1>2. PICK h \in 1 .. n : h = Min(u) /\ h \in u /\ lw[h] = w
    BY HeadIsHeld
  <1> DEFINE v == u \ {h}
  <1>3. m \in [1 .. n -> Nat] /\ m[h] = 0 /\ \A d \in 1 .. n : d # h => m[d] = lw[d]
    BY <1>2 DEF Consistent, Linked
  <1>4. Used(n, m, wl, it) = DOMAIN it
    <2>1. \A x \in DOMAIN it : x \in Range(wl) \/ it[x].processing
      BY DEF Consistent, Linked, Items, Range
    <2> QED
      BY <2>1, Zenon DEF Used
  <1>5. Restrict(it, Used(n, m, wl, it)) = it
    BY <1>4, Zenon DEF Restrict, Consistent, Items
  <1>6. Held(n, m, w) = Held(n, lw, w) \ {h} /\ h \in Held(n, lw, w)
    BY <1>2, <1>3 DEF Held
  <1>7. \A y \in DOMAIN it : y # w => Held(n, m, y) = Held(n, lw, y)
    <2>1. \A y \in DOMAIN it : y # 0
      BY DEF Consistent, Items, Names
    <2> QED
      BY <2>1, <1>2, <1>3 DEF Held
  <1>8. Linked(n, v, m, wl, it, fw, w, c + 1)
    <2>1. u \subseteq 1 .. n
      BY <1>1 DEF Consistent, Linked
    <2>2. \A d \in v : d # h /\ d \in u /\ m[d] = lw[d]
      BY <1>3, <2>1
    <2>3. \A d \in 1 .. n : d \in v <=> m[d] # 0
      <3>1. \A d \in 1 .. n : d \in u <=> lw[d] # 0
        BY DEF Consistent, Linked
      <3> QED
        BY <3>1, <1>3
    <2>4. ASSUME NEW y \in DOMAIN it, it[y].kind = "delivery"
          PROVE  it[y].value - (IF y = w THEN c + 1 ELSE 0) = Cardinality(Held(n, m, y))
      <3>1. it[y].value - (IF y = w THEN c ELSE 0) = Cardinality(Held(n, lw, y))
        BY <2>4 DEF Consistent, Linked
      <3>2. CASE y = w
        <4>1. Cardinality(Held(n, m, w)) = Cardinality(Held(n, lw, w)) - 1
          <5>1. IsFiniteSet(Held(n, lw, w))
            BY <1>1, HeldFinite
          <5>2. Cardinality(Held(n, lw, w) \ {h}) = Cardinality(Held(n, lw, w)) - 1
            BY <1>6, <5>1, FS_RemoveElement, Zenon
          <5> QED
            BY <1>6, <5>2, Zenon
        <4> QED
          BY <1>1, <3>1, <3>2, <4>1
      <3>3. CASE y # w
        BY <3>1, <3>3, <1>7, ZenonT(40)
      <3> QED
        BY <3>2, <3>3
    <2> QED
      BY <1>3, <2>2, <2>3, <2>4, Zenon DEF Consistent, Linked
  <1>9. Ordered(v, m, wl, it, w)
    <2>1. \A d \in v : d \in u /\ m[d] = lw[d]
      BY <1>1, <1>3 DEF Consistent, Linked
    <2> QED
      BY <2>1 DEF Consistent, Ordered
  <1>10. Consistent(n, v, m, wl, it, fw, w, c + 1)
    BY <1>1, <1>8, <1>9 DEF Consistent
  <1> QED
    BY <1>2, <1>5, <1>10

\* The values of the items without deliveries D, the items that lose their last, and the
\* references that are left (qdr_forward_drop_presettled_CT_LH).
LeftOf(lw, it, D, x) == it[x].value - Cardinality({d \in D : lw[d] = x})
Dead(lw, it, D) == {x \in DOMAIN it : LeftOf(lw, it, D, x) = 0 /\ \E d \in D : lw[d] = x}
LinksLeft(n, lw, D) == [d \in 1 .. n |-> IF d \in D THEN 0 ELSE lw[d]]
ItemsLeft(lw, it, D) ==
    [x \in DOMAIN it |-> [it[x] EXCEPT !.value = LeftOf(lw, it, D, x)]]

\* What is left of an item is what it stands for, and a dead item stands for nothing.
LEMMA DropCounts ==
    ASSUME NEW n, NEW u, NEW lw, NEW wl, NEW it, NEW fw, NEW w, NEW c,
           Consistent(n, u, lw, wl, it, fw, w, c),
           NEW D \in SUBSET u, \A d \in D : lw[d] # w,
           NEW x \in DOMAIN it
    PROVE  /\ LeftOf(lw, it, D, x) \in Nat
           /\ x = w => LeftOf(lw, it, D, x) = it[x].value
           /\ it[x].kind = "delivery" =>
                LeftOf(lw, it, D, x) - (IF x = w THEN c ELSE 0)
                   = Cardinality(Held(n, LinksLeft(n, lw, D), x))
           /\ x \in Dead(lw, it, D) => x # w /\ Held(n, LinksLeft(n, lw, D), x) = {}
  <1> DEFINE m == LinksLeft(n, lw, D)
             H == Held(n, lw, x)
             E == {d \in D : lw[d] = x}
  <1>1. n \in Nat /\ fw \in Nat /\ c \in Nat /\ x \in Names /\ it[x].value \in Nat
    BY DEF Consistent, Items, ItemRecord
  <1>2. u \subseteq 1 .. n
    BY <1>1 DEF Consistent, Linked
  <1>3. \A d \in 1 .. n : m[d] = IF d \in D THEN 0 ELSE lw[d]
    BY DEF LinksLeft
  <1> HIDE DEF m
  <1>4. Held(n, m, x) = H \ D /\ H \cap D = E
    BY <1>1, <1>2, <1>3, Zenon DEF Held, Names
  <1>5. IsFiniteSet(H) /\ Cardinality(H) \in Nat
    BY <1>1, HeldFinite
  <1>6. Cardinality(Held(n, m, x)) = Cardinality(H) - Cardinality(E)
    BY <1>4, <1>5, FS_Difference, Zenon
  <1>7. IsFiniteSet(E) /\ Cardinality(E) \in Nat
    BY <1>4, <1>5, FS_Intersection, FS_CardinalityType, ZenonT(40)
  <1>8. Cardinality(Held(n, m, x)) \in Nat
    BY <1>1, HeldFinite
  <1>9. CASE E = {}
    <2>1. Cardinality(E) = 0 /\ LeftOf(lw, it, D, x) = it[x].value
      BY <1>1, <1>9, FS_EmptySet, SMTT(30) DEF LeftOf
    <2>2. x \notin Dead(lw, it, D)
      BY <1>9 DEF Dead
    <2>3. it[x].kind = "delivery" =>
            it[x].value - (IF x = w THEN c ELSE 0) = Cardinality(Held(n, m, x))
      BY <1>5, <1>6, <2>1, SMTT(30) DEF Consistent, Linked
    <2> QED
      BY <2>1, <2>2, <2>3, <1>1 DEF m
  <1>10. CASE E # {}
    <2>1. x # w
      BY <1>10
    <2>2. it[x].kind = "delivery"
      <3>1. PICK e \in u : lw[e] = x
        BY <1>10
      <3> QED
        BY <3>1 DEF Consistent, Linked
    <2>3. it[x].value = Cardinality(H)
      BY <1>1, <2>1, <2>2 DEF Consistent, Linked
    <2>4. LeftOf(lw, it, D, x) = Cardinality(Held(n, m, x))
      BY <1>6, <2>3, SMTT(30) DEF LeftOf
    <2>5. LeftOf(lw, it, D, x) = 0 => Held(n, m, x) = {}
      BY <2>4, <1>1, HeldFinite, FS_EmptySet, ZenonT(40)
    <2> QED
      BY <1>8, <2>1, <2>4, <2>5, SMTT(30) DEF m, Dead
  <1> QED
    BY <1>9, <1>10, Zenon

\* What is left when the deliveries of D are dropped: the list r, the links m and the items
\* t that are still used.
Dropped(n, u, lw, wl, it, fw, w, c, D, r, m, t) ==
    /\ Consistent(n, u \ D, m, r, Restrict(t, Used(n, m, r, t)), fw, w, c)
    /\ w # 0 => /\ w \in Used(n, m, r, t) /\ t[w].value = it[w].value
                /\ t[w].kind = it[w].kind

\* qdr_forward_drop_presettled_CT_LH
LEMMA DroppedConsistent ==
    ASSUME NEW n, NEW u, NEW lw, NEW wl, NEW it, NEW fw, NEW w, NEW c,
           Consistent(n, u, lw, wl, it, fw, w, c),
           NEW D \in SUBSET u, \A d \in D : lw[d] # w,
           NEW r, Cut(wl, Dead(lw, it, D), r),
           NEW m, m = LinksLeft(n, lw, D), NEW t, t = ItemsLeft(lw, it, D)
    PROVE  Dropped(n, u, lw, wl, it, fw, w, c, D, r, m, t)
  <1> SUFFICES /\ Consistent(n, u \ D, m, r, Restrict(t, Used(n, m, r, t)), fw, w, c)
               /\ w # 0 => /\ w \in Used(n, m, r, t) /\ t[w].value = it[w].value
                           /\ t[w].kind = it[w].kind
    BY Zenon DEF Dropped
  <1> DEFINE dead == Dead(lw, it, D)
             S == Used(n, m, r, t)
             q == Restrict(t, S)
             v == u \ D
  <1>1. n \in Nat /\ fw \in Nat /\ c \in Nat /\ wl \in Seq(Names) /\ w \in Nat
    BY DEF Consistent, Items
  <1>2. DOMAIN t = DOMAIN it /\ \A x \in DOMAIN it :
          /\ it[x] \in ItemRecord /\ LeftOf(lw, it, D, x) \in Nat
          /\ t[x] = [it[x] EXCEPT !.value = LeftOf(lw, it, D, x)]
    <2>1. \A x \in DOMAIN it : it[x] \in ItemRecord
      BY SMTT(30) DEF Consistent, Items
    <2>2. \A x \in DOMAIN it : LeftOf(lw, it, D, x) \in Nat
      BY DropCounts, SMTT(30)
    <2>3. DOMAIN t = DOMAIN it /\ \A x \in DOMAIN it :
            t[x] = [it[x] EXCEPT !.value = LeftOf(lw, it, D, x)]
      BY DEF ItemsLeft
    <2> QED
      BY <2>1, <2>2, <2>3
  <1>3. \A x \in DOMAIN it :
          /\ t[x].kind = it[x].kind /\ t[x].after = it[x].after
          /\ t[x].processing = it[x].processing /\ t[x].value = LeftOf(lw, it, D, x)
    BY <1>2 DEF ItemRecord
  <1>4. Items(r, t, w)
    <2> DEFINE V == [x \in DOMAIN it |-> LeftOf(lw, it, D, x)]
    <2>1. V \in [DOMAIN it -> Nat]
      BY <1>2
    <2>2. Items(r, [x \in DOMAIN it |-> [it[x] EXCEPT !.value = V[x]]], w)
      <3>1. Items(wl, it, w)
        BY DEF Consistent
      <3> HIDE DEF V
      <3> QED
        BY <2>1, <3>1, ItemsCut
    <2>3. t = [x \in DOMAIN it |-> [it[x] EXCEPT !.value = V[x]]]
      BY SMTT(30) DEF ItemsLeft
    <2> QED
      BY <2>2, <2>3
  <1>5. /\ \A k \in DOMAIN r : \E i \in DOMAIN wl : wl[i] = r[k] /\ wl[i] \notin dead
        /\ \A i \in DOMAIN wl : wl[i] \notin dead => \E k \in DOMAIN r : r[k] = wl[i]
        /\ \A k, l \in DOMAIN r : k < l =>
             \E i, j \in DOMAIN wl : i < j /\ wl[i] = r[k] /\ wl[j] = r[l]
    BY SMTT(30) DEF Cut
  <1>6. \A x \in DOMAIN it :
          /\ x = w => t[x].value = it[x].value
          /\ it[x].kind = "delivery" =>
               t[x].value - (IF x = w THEN c ELSE 0) = Cardinality(Held(n, m, x))
          /\ x \in dead => x # w /\ Held(n, m, x) = {}
    BY <1>3, DropCounts, SMTT(30)
  <1> HIDE DEF dead
  <1>7. S = DOMAIN it \ dead
    <2>1. ASSUME NEW x \in DOMAIN it, x \in dead PROVE x \notin S
      <3>1. x \notin Range(r)
        BY <2>1, <1>5 DEF Range
      <3>2. ~t[x].processing
        BY <2>1, <1>3, <1>6, SMTT(30) DEF Consistent, Items
      <3>3. ~\E d \in 1 .. n : m[d] = x
        BY <2>1, <1>6, ZenonT(40) DEF Held
      <3> QED
        BY <3>1, <3>2, <3>3, Zenon DEF Used
    <2>2. ASSUME NEW x \in DOMAIN it, x \notin dead PROVE x \in S
      <3>1. CASE x = w
        BY <3>1, <1>2, <1>3 DEF Used, Consistent, Items
      <3>2. CASE x # w
        <4>1. \E i \in DOMAIN wl : wl[i] = x
          BY <3>2 DEF Consistent, Linked
        <4>2. x \in Range(r)
          BY <4>1, <2>2, <1>5, SMTT(30) DEF Range
        <4> QED
          BY <4>2, <1>2 DEF Used
      <3> QED
        BY <3>1, <3>2, Zenon
    <2>3. S \subseteq DOMAIN it
      BY <1>2, SMTT(30) DEF Used
    <2> QED
      BY <2>1, <2>2, <2>3, SMTT(30)
  <1>8. w # 0 => w \in DOMAIN it /\ w \in S
    BY <1>6, <1>7 DEF Consistent, Items
  <1> HIDE DEF S
  <1>9. Items(r, q, w)
    <2>1. \A k \in DOMAIN r : r[k] \in S
      BY <1>2, <1>4, <1>5, <1>7 DEF Items
    <2>2. S \in SUBSET DOMAIN t
      BY <1>2, <1>7, SMTT(30)
    <2> QED
      BY <1>4, <1>8, <2>1, <2>2, ItemsFreed
  <1>10. DOMAIN q = S /\ \A x \in S : x \in DOMAIN it /\ x \notin dead /\ q[x] = t[x]
    BY <1>7, SMTT(30) DEF Restrict
  <1> HIDE DEF q
  <1>11. u \subseteq 1 .. n
    BY <1>1 DEF Consistent, Linked
  <1>12. m \in [1 .. n -> Nat] /\ \A d \in 1 .. n : m[d] = IF d \in D THEN 0 ELSE lw[d]
    BY DEF LinksLeft, Consistent, Linked
  <1>13. \A d \in v : d \in u /\ d \in 1 .. n /\ m[d] = lw[d]
    BY <1>11, <1>12, SMTT(30)
  <1>14. Linked(n, v, m, r, q, fw, w, c)
    <2>1. \A d \in 1 .. n : d \in v <=> m[d] # 0
      <3>1. \A d \in 1 .. n : d \in u <=> lw[d] # 0
        BY SMTT(30) DEF Consistent, Linked
      <3> QED
        BY <3>1, <1>12, SMTT(30)
    <2>2. ASSUME NEW d \in v PROVE m[d] \in DOMAIN q /\ q[m[d]].kind = "delivery"
      <3>1. lw[d] \in DOMAIN it /\ it[lw[d]].kind = "delivery"
        BY <1>13, Zenon DEF Consistent, Linked
      <3>2. d \in Held(n, m, lw[d])
        BY <1>13, Zenon DEF Held
      <3>3. lw[d] \notin dead
        BY <3>1, <3>2, <1>6, Zenon
      <3> QED
        BY <3>1, <3>3, <1>3, <1>7, <1>10, <1>13, SMTT(30)
    <2>3. \A x \in DOMAIN q : x = w \/ \E i \in DOMAIN r : r[i] = x
      <3>1. \A x \in DOMAIN it : x = w \/ \E i \in DOMAIN wl : wl[i] = x
        BY Zenon DEF Consistent, Linked
      <3> QED
        BY <3>1, <1>5, <1>10, SMTT(30)
    <2>4. \A x \in DOMAIN q : q[x].after <= fw
      BY <1>3, <1>10, SMTT(30) DEF Consistent, Linked
    <2>5. \A x \in DOMAIN q : q[x].kind = "delivery" =>
            q[x].value - (IF x = w THEN c ELSE 0) = Cardinality(Held(n, m, x))
      BY <1>3, <1>6, <1>10, SMTT(30)
    <2>6. fw <= n /\ v \subseteq 1 .. fw
      BY SMTT(30) DEF Consistent, Linked
    <2> QED
      BY <1>12, <2>1, <2>2, <2>3, <2>4, <2>5, <2>6, Zenon DEF Linked
  <1>15. Ordered(v, m, r, q, w)
    <2>1. \A a, b : Ahead(r, w, a, b) => Ahead(wl, w, a, b)
      BY <1>5, SMTT(30) DEF Ahead
    <2>2. \A x \in DOMAIN q : x \in DOMAIN it /\ q[x].kind = it[x].kind /\ q[x].after = it[x].after
      BY <1>3, <1>10, Zenon
    <2> QED
      BY <1>13, <2>1, <2>2, Zenon DEF Consistent, Ordered
  <1> QED
    BY <1>1, <1>3, <1>6, <1>8, <1>9, <1>14, <1>15, Zenon DEF Consistent, S, q

=============================================================================
