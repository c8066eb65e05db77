------------------------- MODULE RouteTables_proofs -------------------------
(***************************************************************************)
(* The core's tables of remote routers stay exact (RouteTables), for every *)
(* number of routers and of addresses and every range of costs.            *)
(***************************************************************************)
EXTENDS RouteTables, FiniteSetTheorems, SequenceTheorems, WellFoundedInduction, TLAPS

-----------------------------------------------------------------------------
(* Lowest and highest members of sets of numbers *)

\* A set of natural numbers has a least member, which Min is.
LEMMA LowestOf ==
    ASSUME NEW S \in SUBSET Nat, S # {}
    PROVE  Min(S) \in S /\ \A y \in S : Min(S) <= y
  <1>1. PICK x \in S : \A y \in S : ~(<<y, x>> \in OpToRel(<, Nat))
    BY NatLessThanWellFounded, WFMin, Zenon
  <1>2. ASSUME NEW y \in S PROVE x <= y
    <2>1. y < x => <<y, x>> \in OpToRel(<, Nat)
      BY Zenon DEF OpToRel
    <2>2. ~(y < x)
      BY <1>1, <2>1, Zenon
    <2> QED
      BY <2>2
  <1> QED
    BY <1>2, Zenon DEF Min

\* A bounded set of natural numbers has a greatest member, which Max is.
LEMMA HighestOf ==
    ASSUME NEW n \in Nat, NEW S \in SUBSET (0 .. n), S # {}
    PROVE  Max(S) \in S /\ \A y \in S : y <= Max(S)
  <1> DEFINE T == {n - x : x \in S}
  <1>1. T \subseteq Nat /\ T # {}
    <2>1. \A x \in S : n - x \in Nat
      OBVIOUS
    <2> QED
      BY <2>1, Zenon
  <1>2. Min(T) \in T /\ \A y \in T : Min(T) <= y
    BY <1>1, LowestOf, Zenon
  <1>3. PICK x \in S : Min(T) = n - x
    BY <1>2, Zenon
  <1>4. \A y \in S : x >= y
    <2> SUFFICES ASSUME NEW y \in S PROVE x >= y
      OBVIOUS
    <2>1. n - y \in T
      OBVIOUS
    <2>2. n - x <= n - y
      BY <1>2, <1>3, <2>1
    <2>3. x \in 0 .. n /\ y \in 0 .. n
      OBVIOUS
    <2> QED
      BY <2>2, <2>3
  <1>5. \E z \in S : \A y \in S : z >= y
    BY <1>4
  <1>6. Max(S) \in S /\ \A y \in S : Max(S) >= y
    BY <1>5, Zenon DEF Max
  <1> QED
    BY <1>6

-----------------------------------------------------------------------------
(* Removing a member of a list and putting one in *)

\* A list without one of its members: which are left, and in which order.
LEMMA Removed ==
    ASSUME NEW S, NEW s \in Seq(S), NEW p \in 1 .. Len(s)
    PROVE  /\ DEQ_REMOVE(s, p) \in Seq(S) /\ Len(s) \in Nat
           /\ Len(DEQ_REMOVE(s, p)) = Len(s) - 1
           /\ \A i \in 1 .. Len(s) - 1 :
                DEQ_REMOVE(s, p)[i] = IF i < p THEN s[i] ELSE s[i + 1]
  <1> DEFINE r == [i \in 1 .. Len(s) - 1 |-> IF i < p THEN s[i] ELSE s[i + 1]]
  <1>1. Len(s) \in Nat /\ p \in Nat /\ p >= 1 /\ p <= Len(s) /\ \A i \in 1 .. Len(s) : s[i] \in S
    OBVIOUS
  <1>2. \A i \in 1 .. Len(s) - 1 : r[i] \in S
    BY <1>1
  <1>3. DEQ_REMOVE(s, p) = r
    BY Zenon DEF DEQ_REMOVE
  <1> QED
    BY <1>1, <1>2, <1>3

\* A list with a member put in: which it holds then, and in which order.
LEMMA Inserted ==
    ASSUME NEW S, NEW s \in Seq(S), NEW e \in S, NEW p \in 1 .. Len(s) + 1
    PROVE  /\ PutAt(s, p, e) \in Seq(S) /\ Len(s) \in Nat
           /\ Len(PutAt(s, p, e)) = Len(s) + 1
           /\ \A i \in 1 .. Len(s) + 1 :
                PutAt(s, p, e)[i] = IF i < p THEN s[i] ELSE IF i = p THEN e ELSE s[i - 1]
  <1> DEFINE r == [i \in 1 .. Len(s) + 1 |-> IF i < p THEN s[i] ELSE IF i = p THEN e ELSE s[i - 1]]
  <1>1. Len(s) \in Nat /\ p \in Nat /\ p >= 1 /\ p <= Len(s) + 1 /\ \A i \in 1 .. Len(s) : s[i] \in S
    OBVIOUS
  <1>2. \A i \in 1 .. Len(s) + 1 : r[i] \in S
    BY <1>1
  <1>3. PutAt(s, p, e) = r
    BY Zenon DEF PutAt
  <1> QED
    BY <1>1, <1>2, <1>3

-----------------------------------------------------------------------------
(* The inductive invariant *)

Node == [id : Router, next : Bit \cup {None, Freed}, conn : Conn \cup {None},
         cost : 0..MaxCost, origins : SUBSET (Bit \cup {0}), refs : Nat]
Address == [rnodes : SUBSET Bit, closest : SUBSET Bit, next : Bit \cup {None}, stale : BOOLEAN]

Sorted(r, list) == \A i, j \in DOMAIN list : i < j => r[list[i]].cost <= r[list[j]].cost

\* The first router of the list that has the address is in the address's cache.  What a
\* change of cost leaves in its place in the list it leaves true, whatever it does
\* to the costs.
FirstCached ==
    \A a \in Addr : ~addrs[a].stale => \A i \in DOMAIN routers :
       routers[i] \in addrs[a].rnodes
       /\ (\A j \in DOMAIN routers : j < i => routers[j] \notin addrs[a].rnodes)
       => routers[i] \in addrs[a].closest

CacheWithin ==
    \A a \in Addr : ~addrs[a].stale =>
        /\ addrs[a].closest \subseteq addrs[a].rnodes
        /\ IF addrs[a].rnodes = {} THEN addrs[a].next = None
           ELSE addrs[a].next \in addrs[a].closest

RTInv == TypeOK /\ RoutersSorted /\ MappingsCounted /\ FirstCached /\ CacheWithin

\* What the invariant says of a node, of an address and of the list.
LEMMA Facts ==
    ASSUME RTInv
    PROVE  /\ DOMAIN rn \subseteq Bit /\ rn \in [DOMAIN rn -> Node]
           /\ \A b \in DOMAIN rn : rn[b] \in Node /\ rn[b].cost \in Nat /\ rn[b].refs \in Nat
           /\ addrs \in [Addr -> Address] /\ \A a \in Addr : addrs[a] \in Address
           /\ routers \in Seq(Bit) /\ Len(routers) \in Nat
           /\ DOMAIN routers = 1 .. Len(routers)
           /\ \A i \in DOMAIN routers : routers[i] \in DOMAIN rn
           /\ \A b \in DOMAIN rn : \E i \in DOMAIN routers : routers[i] = b
           /\ \A i, j \in DOMAIN routers : routers[i] = routers[j] => i = j
           /\ Sorted(rn, routers)
  <1>1. routers \in Seq(Bit) /\ Len(routers) \in Nat /\ DOMAIN routers = 1 .. Len(routers)
    BY DEF RTInv, TypeOK
  <1>2. rn \in [DOMAIN rn -> Node] /\ addrs \in [Addr -> Address] /\ DOMAIN rn \subseteq Bit
    BY DEF RTInv, TypeOK, Node, Address
  <1>3. \A b \in DOMAIN rn : rn[b] \in Node /\ rn[b].cost \in Nat /\ rn[b].refs \in Nat
    BY <1>2, MaxCostAssumption DEF Node
  <1>4. /\ \A i \in DOMAIN routers : routers[i] \in DOMAIN rn
        /\ \A b \in DOMAIN rn : \E i \in DOMAIN routers : routers[i] = b
    BY DEF RTInv, RoutersSorted, Range
  <1>5. \A i, j \in DOMAIN routers : routers[i] = routers[j] => i = j
    BY DEF RTInv, RoutersSorted, IsInjective
  <1>6. Sorted(rn, routers)
    BY DEF RTInv, RoutersSorted, Sorted
  <1> QED
    BY <1>1, <1>2, <1>3, <1>4, <1>5, <1>6, SMTT(30)

\* The first router of the sorted list that has the address is among the nearest.
LEMMA FirstIsNearest == RTInv => CacheUsable
  <1> SUFFICES ASSUME RTInv, NEW a \in Addr, ~addrs[a].stale, addrs[a].rnodes # {}
               PROVE  addrs[a].closest \cap Nearest(a) # {}
    BY DEF RTInv, CacheWithin, CacheUsable
  <1> DEFINE has == {i \in DOMAIN routers : routers[i] \in addrs[a].rnodes}
  <1>1. has \subseteq Nat /\ has # {}
    BY Facts DEF RTInv, MappingsCounted, Exists
  <1>2. Min(has) \in has /\ \A j \in has : Min(has) <= j
    BY <1>1, LowestOf, SMTT(30)
  <1>3. PICK i \in has : \A j \in has : i <= j
    BY <1>2
  <1>4. i \in DOMAIN routers /\ routers[i] \in addrs[a].rnodes
    OBVIOUS
  <1>5. ASSUME NEW j \in DOMAIN routers, j < i PROVE routers[j] \notin addrs[a].rnodes
    BY <1>3, <1>4, <1>5, Facts, SMTT(30)
  <1>6. routers[i] \in addrs[a].closest
    BY <1>4, <1>5 DEF RTInv, FirstCached
  <1>7. ASSUME NEW c \in addrs[a].rnodes PROVE rn[routers[i]].cost <= rn[c].cost
    <2>1. PICK j \in DOMAIN routers : routers[j] = c
      BY Facts DEF RTInv, MappingsCounted, Exists
    <2>2. i <= j /\ i \in Nat /\ j \in Nat
      BY <1>3, <1>4, <2>1, Facts, SMTT(30)
    <2>3. CASE i = j
      BY <1>4, <2>1, <2>3, Facts, SMTT(30)
    <2>4. CASE i < j
      BY <1>4, <2>1, <2>4, Facts, SMTT(30) DEF Sorted
    <2> QED
      BY <2>2, <2>3, <2>4, SMTT(30)
  <1>8. routers[i] \in Nearest(a)
    BY <1>4, <1>7 DEF Nearest
  <1> QED
    BY <1>6, <1>8, SMTT(30)

-----------------------------------------------------------------------------
(* The list *)

\* The list without one of its nodes.
LEMMA ListWithout ==
    ASSUME RTInv, NEW b \in DOMAIN rn,
           NEW rest, rest = DEQ_REMOVE(routers, Position(routers, b))
    PROVE  /\ rest \in Seq(Bit) /\ Len(rest) \in Nat /\ DOMAIN rest = 1 .. Len(rest)
           /\ \A i \in DOMAIN rest : rest[i] \in DOMAIN rn \ {b}
           /\ \A c \in DOMAIN rn \ {b} : \E i \in DOMAIN rest : rest[i] = c
           /\ \A i, j \in DOMAIN rest : rest[i] = rest[j] => i = j
           /\ Sorted(rn, rest)
  <1> DEFINE p == Position(routers, b)
  <1>1. p \in DOMAIN routers /\ routers[p] = b
    BY Facts DEF Position
  <1> HIDE DEF p
  <1>2. /\ rest \in Seq(Bit) /\ Len(rest) = Len(routers) - 1
        /\ \A i \in 1 .. Len(routers) - 1 : rest[i] = IF i < p THEN routers[i] ELSE routers[i + 1]
    <2>1. routers \in Seq(Bit) /\ p \in 1 .. Len(routers)
      BY <1>1, Facts
    <2>2. rest = DEQ_REMOVE(routers, p)
      BY DEF p
    <2> QED
      BY <2>1, <2>2, Removed, Zenon
  <1>3. Len(rest) \in Nat /\ DOMAIN rest = 1 .. Len(rest)
    BY <1>2
  <1> DEFINE from(i) == IF i < p THEN i ELSE i + 1
  <1>4. ASSUME NEW i \in DOMAIN rest
        PROVE  from(i) \in DOMAIN routers /\ rest[i] = routers[from(i)] /\ from(i) # p
    BY <1>1, <1>2, <1>3, Facts, SMTT(30)
  <1>5. ASSUME NEW i \in DOMAIN rest, NEW j \in DOMAIN rest
        PROVE  (i < j => from(i) < from(j)) /\ (from(i) = from(j) => i = j)
    BY <1>1, <1>3, Facts
  <1>6. ASSUME NEW k \in DOMAIN routers, k # p
        PROVE  \E i \in DOMAIN rest : rest[i] = routers[k]
    <2>1. CASE k < p
      <3>1. k \in DOMAIN rest /\ rest[k] = routers[k]
        BY <1>1, <1>2, <1>3, <2>1, Facts, SMTT(30)
      <3> QED
        BY <3>1
    <2>2. CASE k > p
      <3>1. k - 1 \in DOMAIN rest /\ ~(k - 1 < p) /\ (k - 1) + 1 = k
        BY <1>1, <1>2, <1>3, <2>2, Facts, SMTT(30)
      <3>2. rest[k - 1] = routers[k]
        BY <1>2, <1>3, <3>1
      <3> QED
        BY <3>1, <3>2
    <2> QED
      BY <1>1, <1>6, <2>1, <2>2, Facts, SMTT(30)
  <1> HIDE DEF from
  <1>7. \A i \in DOMAIN rest : rest[i] \in DOMAIN rn \ {b}
    BY <1>1, <1>4, Facts
  <1>8. \A c \in DOMAIN rn \ {b} : \E i \in DOMAIN rest : rest[i] = c
    BY <1>1, <1>6, Facts
  <1>9. \A i, j \in DOMAIN rest : rest[i] = rest[j] => i = j
    BY <1>4, <1>5, Facts
  <1>10. Sorted(rn, rest)
    BY <1>4, <1>5, Facts DEF Sorted
  <1> QED
    BY <1>2, <1>3, <1>7, <1>8, <1>9, <1>10, SMTT(30)

\* Behind its m-th member a sorted list has the place of node b.
Place(r, b, rest, m) ==
    /\ r[b].cost \in Nat
    /\ \A i \in DOMAIN rest : rest[i] # b /\ r[rest[i]].cost \in Nat
    /\ \A i, j \in DOMAIN rest : rest[i] = rest[j] => i = j
    /\ Sorted(r, rest)
    /\ m \in 0 .. Len(rest)
    /\ m # 0 => r[rest[m]].cost <= r[b].cost
    /\ \A i \in DOMAIN rest : i > m => r[b].cost <= r[rest[i]].cost

\* Behind the last node that costs no more is where a node belongs.
LEMMA InsertedSorted ==
    ASSUME NEW r, NEW b \in Bit, NEW rest \in Seq(Bit), NEW m, Place(r, b, rest, m),
           NEW list, list = PutAt(rest, 1 + m, b)
    PROVE  /\ list \in Seq(Bit) /\ Range(list) = Range(rest) \cup {b}
           /\ IsInjective(list) /\ Sorted(r, list)
  <1> USE DEF Place
  <1>1. Len(rest) \in Nat /\ DOMAIN rest = 1 .. Len(rest)
    OBVIOUS
  <1>4. m \in 0 .. Len(rest) /\ (m # 0 => m \in DOMAIN rest /\ r[rest[m]].cost <= r[b].cost)
    BY <1>1
  <1>5. \A i \in DOMAIN rest : i > m => r[b].cost <= r[rest[i]].cost
    OBVIOUS
  <1>6. list = PutAt(rest, 1 + m, b)
    OBVIOUS
  <1>7. ASSUME NEW i \in DOMAIN rest, i <= m PROVE r[rest[i]].cost <= r[b].cost
    <2>1. m # 0 /\ m \in DOMAIN rest
      BY <1>1, <1>4, <1>7
    <2>2. r[rest[i]].cost <= r[rest[m]].cost
      BY <1>1, <1>4, <1>7, <2>1, SMTT(30) DEF Sorted
    <2> QED
      BY <1>4, <2>1, <2>2
  <1>8. 1 + m \in 1 .. Len(rest) + 1
    BY <1>1, <1>4, SMTT(30)
  <1>9. /\ list \in Seq(Bit) /\ Len(list) = Len(rest) + 1
        /\ \A i \in 1 .. Len(rest) + 1 :
             list[i] = IF i < 1 + m THEN rest[i] ELSE IF i = 1 + m THEN b ELSE rest[i - 1]
    <2>1. PICK q \in 1 .. Len(rest) + 1 : q = 1 + m
      BY <1>8
    <2>2. list = PutAt(rest, q, b)
      BY <1>6, <2>1
    <2>3. /\ list \in Seq(Bit) /\ Len(list) = Len(rest) + 1
          /\ \A i \in 1 .. Len(rest) + 1 :
               list[i] = IF i < q THEN rest[i] ELSE IF i = q THEN b ELSE rest[i - 1]
      <3>1. /\ PutAt(rest, q, b) \in Seq(Bit) /\ Len(PutAt(rest, q, b)) = Len(rest) + 1
            /\ \A i \in 1 .. Len(rest) + 1 :
                 PutAt(rest, q, b)[i]
                   = IF i < q THEN rest[i] ELSE IF i = q THEN b ELSE rest[i - 1]
        BY Inserted
      <3> QED
        BY <2>2, <3>1, Zenon
    <2>4. ASSUME NEW i \in 1 .. Len(rest) + 1
          PROVE  list[i] = IF i < 1 + m THEN rest[i] ELSE IF i = 1 + m THEN b ELSE rest[i - 1]
      <3>1. m \in Nat
        BY <1>4
      <3>2. CASE i < q
        BY <2>1, <2>3, <3>1, <3>2, SMTT(30)
      <3>3. CASE i = q
        BY <2>1, <2>3, <3>1, <3>3, SMTT(30)
      <3>4. CASE i > q
        BY <2>1, <2>3, <3>1, <3>4, SMTT(30)
      <3> QED
        BY <2>1, <3>2, <3>3, <3>4, SMTT(30)
    <2> QED
      BY <2>3, <2>4, SMTT(30)
  <1>10. DOMAIN list = 1 .. Len(rest) + 1
    BY <1>1, <1>9, SMTT(30)
  <1> DEFINE from(i) == IF i < 1 + m THEN i ELSE i - 1
  <1>11. ASSUME NEW i \in DOMAIN list, i # 1 + m
         PROVE  from(i) \in DOMAIN rest /\ list[i] = rest[from(i)]
    BY <1>1, <1>4, <1>9, <1>10, <1>11, SMTT(30)
  <1>12. list[1 + m] = b /\ 1 + m \in DOMAIN list
    BY <1>4, <1>8, <1>9, <1>10, SMTT(30)
  <1>13. ASSUME NEW k \in DOMAIN rest PROVE \E i \in DOMAIN list : list[i] = rest[k]
    <2>1. CASE k <= m
      <3>1. k \in DOMAIN list /\ list[k] = rest[k]
        BY <1>1, <1>4, <1>9, <1>10, <2>1, SMTT(30)
      <3> QED
        BY <3>1
    <2>2. CASE k > m
      <3>1. k + 1 \in DOMAIN list /\ ~(k + 1 < 1 + m) /\ k + 1 # 1 + m /\ (k + 1) - 1 = k
        BY <1>1, <1>4, <1>10, <2>2, SMTT(30)
      <3>2. list[k + 1] = rest[k]
        BY <1>9, <1>10, <3>1, Zenon
      <3> QED
        BY <3>1, <3>2
    <2>3. k \in Nat /\ m \in Nat
      BY <1>1, <1>4
    <2>4. k <= m \/ k > m
      BY <2>3
    <2> QED
      BY <2>1, <2>2, <2>4, SMTT(30)
  <1>14. Range(list) = Range(rest) \cup {b}
    <2> HIDE DEF from
    <2>1. ASSUME NEW i \in DOMAIN list PROVE list[i] \in Range(rest) \cup {b}
      BY <1>11, <1>12 DEF Range
    <2>2. ASSUME NEW k \in DOMAIN rest PROVE rest[k] \in Range(list)
      BY <1>13 DEF Range
    <2>3. b \in Range(list)
      BY <1>12 DEF Range
    <2>4. Range(list) \subseteq Range(rest) \cup {b}
      BY <2>1 DEF Range
    <2>5. Range(rest) \subseteq Range(list)
      BY <2>2, Zenon DEF Range
    <2> QED
      BY <2>3, <2>4, <2>5
  <1>15. ASSUME NEW i \in DOMAIN list, NEW j \in DOMAIN list, i # 1 + m, j # 1 + m
         PROVE  (i < j => from(i) < from(j)) /\ (from(i) = from(j) => i = j)
    BY <1>4, <1>10, <1>15, SMTT(30)
  <1>16. IsInjective(list)
    <2> SUFFICES ASSUME NEW i \in DOMAIN list, NEW j \in DOMAIN list, list[i] = list[j]
                 PROVE  i = j
      BY DEF IsInjective
    <2> HIDE DEF from
    <2> QED
      BY <1>11, <1>12, <1>15, SMTT(30)
  <1>17. Sorted(r, list)
    <2> SUFFICES ASSUME NEW i \in DOMAIN list, NEW j \in DOMAIN list, i < j
                 PROVE  r[list[i]].cost <= r[list[j]].cost
      BY DEF Sorted
    <2>1. CASE i = 1 + m
      <3>1. j # 1 + m /\ from(j) > m
        BY <1>4, <1>10, <2>1, SMTT(30)
      <3> HIDE DEF from
      <3> QED
        BY <1>5, <1>11, <1>12, <2>1, <3>1, SMTT(30)
    <2>2. CASE j = 1 + m
      <3>1. i # 1 + m /\ from(i) <= m
        BY <1>4, <1>10, <2>2, SMTT(30)
      <3> HIDE DEF from
      <3> QED
        BY <1>7, <1>11, <1>12, <2>2, <3>1, SMTT(30)
    <2>3. CASE i # 1 + m /\ j # 1 + m
      <3> HIDE DEF from
      <3> QED
        BY <1>11, <1>15, <2>3, SMTT(30) DEF Sorted
    <2> QED
      BY <2>1, <2>2, <2>3, SMTT(30)
  <1> QED
    BY <1>9, <1>14, <1>16, <1>17, SMTT(30)

-----------------------------------------------------------------------------
(* The actions *)

\* A new node goes to the head of the list, with no cost.
LEMMA AddOK ==
    ASSUME RTInv, NEW b \in Bit, NEW id \in Router, qdr_add_router_CT(b, id), ~Exists(b)
    PROVE  RTInv'
  <1>1. /\ rn' = [c \in DOMAIN rn \cup {b} |-> IF c = b THEN NewNode(id) ELSE rn[c]]
        /\ routers' = <<b>> \o routers /\ UNCHANGED <<control, addrs>> /\ b \notin DOMAIN rn
    BY DEF qdr_add_router_CT, Exists
  <1>2. /\ <<b>> \in Seq(Bit) /\ Len(<<b>>) = 1 /\ <<b>>[1] = b
    OBVIOUS
  <1>3. /\ routers' \in Seq(Bit) /\ Len(routers') = 1 + Len(routers)
        /\ routers'[1] = b
        /\ \A i \in DOMAIN routers : routers'[i + 1] = routers[i]
    <2> DEFINE one == <<b>>
    <2>1. one \in Seq(Bit) /\ Len(one) = 1 /\ one[1] = b /\ routers' = one \o routers
      BY <1>1, <1>2, SMTT(30)
    <2> HIDE DEF one
    <2>2. routers \in Seq(Bit) /\ Len(routers) \in Nat /\ DOMAIN routers = 1 .. Len(routers)
      BY Facts
    <2>3. /\ one \o routers \in Seq(Bit) /\ Len(one \o routers) = Len(one) + Len(routers)
          /\ \A i \in 1 .. Len(one) + Len(routers) :
               (one \o routers)[i] = IF i <= Len(one) THEN one[i] ELSE routers[i - Len(one)]
      BY <2>1, <2>2, ConcatProperties, Zenon
    <2>4. routers'[1] = b
      BY <2>1, <2>2, <2>3
    <2>5. ASSUME NEW i \in DOMAIN routers PROVE routers'[i + 1] = routers[i]
      <3>1. i + 1 \in 1 .. Len(one) + Len(routers) /\ ~(i + 1 <= Len(one)) /\ (i + 1) - Len(one) = i
        BY <2>1, <2>2
      <3> QED
        BY <2>1, <2>3, <3>1
    <2> QED
      BY <2>1, <2>3, <2>4, <2>5, SMTT(30)
  <1>4. /\ DOMAIN routers' = 1 .. Len(routers) + 1
        /\ \A i \in DOMAIN routers' :
             i # 1 => i - 1 \in DOMAIN routers /\ routers'[i] = routers[i - 1]
        /\ 1 \in DOMAIN routers' /\ \A i \in DOMAIN routers : i + 1 \in DOMAIN routers'
    <2>1. Len(routers) \in Nat /\ DOMAIN routers = 1 .. Len(routers)
      BY Facts
    <2>2. DOMAIN routers' = 1 .. Len(routers) + 1
      BY <1>3, <2>1, SMTT(30)
    <2>3. ASSUME NEW i \in DOMAIN routers', i # 1
          PROVE  i - 1 \in DOMAIN routers /\ routers'[i] = routers[i - 1]
      <3>1. i - 1 \in DOMAIN routers /\ (i - 1) + 1 = i
        BY <2>1, <2>2, <2>3, SMTT(30)
      <3> QED
        BY <1>3, <3>1, SMTT(30)
    <2>4. 1 \in DOMAIN routers' /\ \A i \in DOMAIN routers : i + 1 \in DOMAIN routers'
      BY <2>1, <2>2, SMTT(30)
    <2> QED
      BY <2>2, <2>3, <2>4, SMTT(30)
  <1>5. NewNode(id) \in Node /\ NewNode(id).cost = 0 /\ NewNode(id).refs = 3
    BY MaxCostAssumption DEF NewNode, Node
  <1>6. /\ DOMAIN rn' = DOMAIN rn \cup {b} /\ rn' \in [DOMAIN rn' -> Node]
        /\ rn'[b] = NewNode(id) /\ \A c \in DOMAIN rn : rn'[c] = rn[c]
    <2>1. rn \in [DOMAIN rn -> Node]
      BY Facts
    <2> DEFINE n == NewNode(id)
    <2>2. n \in Node /\ rn' = [c \in DOMAIN rn \cup {b} |-> IF c = b THEN n ELSE rn[c]]
      BY <1>1, <1>5, SMTT(30)
    <2> HIDE DEF n
    <2>3. DOMAIN rn' = DOMAIN rn \cup {b} /\ rn'[b] = n /\ \A c \in DOMAIN rn : rn'[c] = rn[c]
      BY <1>1, <2>2, SMTT(30)
    <2>4. \A c \in DOMAIN rn' : rn'[c] \in Node
      BY <2>1, <2>2, <2>3, SMTT(30)
    <2> QED
      BY <2>2, <2>3, <2>4, SMTT(30) DEF n
  <1>7. TypeOK'
    BY <1>1, <1>3, <1>6, Facts, SMTT(30) DEF RTInv, TypeOK, Node
  <1>8. RoutersSorted'
    <2>1. IsInjective(routers')
      <3> SUFFICES ASSUME NEW i \in DOMAIN routers', NEW j \in DOMAIN routers',
                          routers'[i] = routers'[j]
                   PROVE  i = j
        BY DEF IsInjective
      <3>1. ASSUME NEW k \in DOMAIN routers', k # 1 PROVE routers'[k] # b
        BY <1>1, <1>4, <3>1, Facts, SMTT(30)
      <3>2. CASE i = 1 \/ j = 1
        BY <1>3, <3>1, <3>2, SMTT(30)
      <3>3. CASE i # 1 /\ j # 1
        <4>1. i - 1 \in DOMAIN routers /\ j - 1 \in DOMAIN routers
              /\ routers[i - 1] = routers[j - 1]
          BY <1>4, <3>3, SMTT(30)
        <4>2. i - 1 = j - 1 /\ i \in Nat /\ j \in Nat
          BY <1>4, <4>1, Facts, SMTT(30)
        <4> QED
          BY <4>2
      <3> QED
        BY <3>2, <3>3
    <2>2. Range(routers') = DOMAIN rn'
      <3>1. ASSUME NEW i \in DOMAIN routers' PROVE routers'[i] \in DOMAIN rn'
        BY <1>3, <1>4, <1>6, Facts, SMTT(30)
      <3>2. ASSUME NEW c \in DOMAIN rn' PROVE \E i \in DOMAIN routers' : routers'[i] = c
        BY <1>3, <1>4, <1>6, Facts, SMTT(30)
      <3> QED
        BY <3>1, <3>2, Zenon DEF Range
    <2>3. ASSUME NEW i \in DOMAIN routers', NEW j \in DOMAIN routers', i < j
          PROVE  rn'[routers'[i]].cost <= rn'[routers'[j]].cost
      <3>1. j # 1 /\ j - 1 \in DOMAIN routers /\ routers'[j] = routers[j - 1]
        BY <1>4, <2>3, Facts, SMTT(30)
      <3>2. routers[j - 1] \in DOMAIN rn /\ rn[routers[j - 1]].cost \in Nat
            /\ rn'[routers'[j]] = rn[routers[j - 1]]
        BY <1>6, <3>1, Facts, SMTT(30)
      <3>3. CASE i = 1
        BY <1>3, <1>5, <1>6, <3>2, <3>3, SMTT(30)
      <3>4. CASE i # 1
        <4>1. i - 1 \in DOMAIN routers /\ routers'[i] = routers[i - 1] /\ i - 1 < j - 1
          BY <1>4, <2>3, <3>4, Facts, SMTT(30)
        <4>2. rn'[routers'[i]] = rn[routers[i - 1]]
          BY <1>6, <4>1, Facts, SMTT(30)
        <4> QED
          BY <3>1, <3>2, <4>1, <4>2, Facts, SMTT(30) DEF Sorted
      <3> QED
        BY <3>3, <3>4, SMTT(30)
    <2> QED
      BY <2>1, <2>2, <2>3, SMTT(30) DEF RoutersSorted
  <1>9. MappingsCounted'
    <2>1. \A c \in Bit : Mapped(c)' = Mapped(c)
      BY <1>1 DEF Mapped
    <2>2. Mapped(b) = {}
      BY <1>1 DEF Mapped, RTInv, MappingsCounted, Exists
    <2>3. rn'[b].refs = 3 + Cardinality(Mapped(b)')
      BY <1>5, <1>6, <2>1, <2>2, FS_EmptySet, SMTT(30)
    <2>4. \A c \in DOMAIN rn : rn'[c].refs = 3 + Cardinality(Mapped(c)')
      BY <1>6, <2>1, Facts, SMTT(30) DEF RTInv, MappingsCounted
    <2> QED
      BY <1>1, <1>6, <2>3, <2>4, SMTT(30) DEF RTInv, MappingsCounted, Exists
  <1>10. FirstCached'
    <2> SUFFICES ASSUME NEW a \in Addr, ~addrs[a].stale, NEW i \in DOMAIN routers',
                        routers'[i] \in addrs[a].rnodes,
                        \A j \in DOMAIN routers' : j < i => routers'[j] \notin addrs[a].rnodes
                 PROVE  routers'[i] \in addrs[a].closest
      BY <1>1, Zenon DEF FirstCached
    <2>1. i # 1
      BY <1>1, <1>3 DEF RTInv, MappingsCounted, Exists
    <2>2. i - 1 \in DOMAIN routers /\ routers'[i] = routers[i - 1]
      BY <1>4, <2>1
    <2>3. ASSUME NEW j \in DOMAIN routers, j < i - 1 PROVE routers[j] \notin addrs[a].rnodes
      <3>1. i \in Nat /\ j \in Nat /\ j + 1 \in DOMAIN routers' /\ routers'[j + 1] = routers[j]
        BY <1>3, <1>4, Facts, SMTT(30)
      <3>2. j + 1 < i
        BY <2>3, <3>1, SMTT(30)
      <3> QED
        BY <3>1, <3>2
    <2> QED
      BY <2>2, <2>3 DEF RTInv, FirstCached
  <1>11. CacheWithin'
    BY <1>1 DEF RTInv, CacheWithin
  <1> QED
    BY <1>7, <1>8, <1>9, <1>10, <1>11, SMTT(30) DEF RTInv

\* A deleted node is taken from the list and from every address.
LEMMA DelOK ==
    ASSUME RTInv, NEW b \in Bit, qdr_del_router_CT(b), Exists(b)
    PROVE  RTInv'
  <1>1. /\ rn' = WithoutNode(b) /\ routers' = DEQ_REMOVE(routers, Position(routers, b))
        /\ addrs' = AllStale([a \in Addr |-> [addrs[a] EXCEPT !.rnodes = @ \ {b}]])
        /\ UNCHANGED control /\ b \in DOMAIN rn
    BY DEF qdr_del_router_CT, Exists
  <1>2. ASSUME NEW a \in Addr
        PROVE  /\ addrs'[a] = [addrs[a] EXCEPT !.rnodes = addrs[a].rnodes \ {b}, !.stale = TRUE]
               /\ addrs'[a] \in Address /\ addrs'[a].stale = TRUE
               /\ addrs'[a].rnodes = addrs[a].rnodes \ {b}
    <2>1. addrs[a] \in Address
      BY Facts, SMTT(30)
    <2>2. addrs'[a] = [[addrs[a] EXCEPT !.rnodes = addrs[a].rnodes \ {b}] EXCEPT !.stale = TRUE]
      BY <1>1, ZenonT(40) DEF AllStale
    <2> QED
      BY <2>1, <2>2, ZenonT(40) DEF Address
  <1>3. addrs' \in [Addr -> Address]
    BY <1>1, <1>2, Zenon DEF AllStale
  <1>4. /\ DOMAIN rn' = DOMAIN rn \ {b}
        /\ \A c \in DOMAIN rn \ {b} : rn'[c] \in Node /\ rn'[c].cost = rn[c].cost
                                      /\ rn'[c].refs = rn[c].refs
    <2>1. DOMAIN rn' = DOMAIN rn \ {b}
      BY <1>1 DEF WithoutNode
    <2>2. ASSUME NEW c \in DOMAIN rn \ {b}
          PROVE  rn'[c] \in Node /\ rn'[c].cost = rn[c].cost /\ rn'[c].refs = rn[c].refs
      <3>1. rn[c] \in Node
        BY Facts
      <3>2. rn'[c] = rn[c] \/ rn'[c] = [rn[c] EXCEPT !.next = Freed]
        BY <1>1 DEF WithoutNode
      <3> QED
        BY <3>1, <3>2 DEF Node
    <2> QED
      BY <2>1, <2>2
  <1>5. rn' \in [DOMAIN rn' -> Node]
    BY <1>1, <1>4 DEF WithoutNode
  <1>6. /\ routers' \in Seq(Bit) /\ DOMAIN routers' = 1 .. Len(routers')
        /\ \A i \in DOMAIN routers' : routers'[i] \in DOMAIN rn \ {b}
        /\ \A c \in DOMAIN rn \ {b} : \E i \in DOMAIN routers' : routers'[i] = c
        /\ \A i, j \in DOMAIN routers' : routers'[i] = routers'[j] => i = j
        /\ Sorted(rn, routers')
    BY <1>1, ListWithout, SMTT(30)
  <1>7. TypeOK'
    BY <1>1, <1>3, <1>4, <1>5, <1>6, Facts, Zenon DEF RTInv, TypeOK, Node, Address
  <1>8. RoutersSorted'
    <2>1. Range(routers') = DOMAIN rn'
      <3>1. ASSUME NEW i \in DOMAIN routers' PROVE routers'[i] \in DOMAIN rn'
        BY <1>4, <1>6
      <3>2. ASSUME NEW c \in DOMAIN rn' PROVE \E i \in DOMAIN routers' : routers'[i] = c
        BY <1>4, <1>6
      <3> QED
        BY <3>1, <3>2, Zenon DEF Range
    <2> QED
      BY <1>4, <1>6, <2>1 DEF RoutersSorted, IsInjective, Sorted
  <1>9. MappingsCounted'
    <2>1. ASSUME NEW c \in DOMAIN rn \ {b} PROVE Mapped(c)' = Mapped(c)
      BY <1>2, Zenon DEF Mapped
    <2>2. \A c \in DOMAIN rn' : rn'[c].refs = 3 + Cardinality(Mapped(c)')
      BY <1>4, <2>1, SMTT(30) DEF RTInv, MappingsCounted
    <2>3. \A a \in Addr : \A c \in addrs'[a].rnodes : c \in DOMAIN rn'
      BY <1>2, <1>4, ZenonT(40) DEF RTInv, MappingsCounted, Exists
    <2> QED
      BY <2>2, <2>3, SMTT(30) DEF MappingsCounted, Exists
  <1>10. FirstCached' /\ CacheWithin'
    BY <1>2, Zenon DEF FirstCached, CacheWithin
  <1> QED
    BY <1>7, <1>8, <1>9, <1>10, SMTT(30) DEF RTInv

\* Between neighbours that cost no more and no less the node stays, and no cache is stale;
\* otherwise it moves, and every cache is.
LEMMA CostOK ==
    ASSUME RTInv, NEW b \in Bit, NEW c \in 0 .. MaxCost, qdr_set_cost_CT(b, c), c >= 1
    PROVE  RTInv'
  <1>1. /\ b \in DOMAIN rn /\ rn' = [rn EXCEPT ![b].cost = c] /\ UNCHANGED control
        /\ IF NeedsReinsertion(rn', routers, b)
           THEN routers' = Reinserted(rn', routers, b) /\ addrs' = AllStale(addrs)
           ELSE UNCHANGED <<routers, addrs>>
    BY MaxCostAssumption DEF qdr_set_cost_CT, Exists
  <1>2. /\ rn' \in [DOMAIN rn -> Node] /\ DOMAIN rn' = DOMAIN rn
        /\ rn'[b].cost = c /\ rn'[b].refs = rn[b].refs
        /\ \A d \in DOMAIN rn \ {b} : rn'[d] = rn[d]
    <2>1. rn \in [DOMAIN rn -> Node] /\ rn[b] \in Node
      BY <1>1, Facts
    <2>2. rn' = [rn EXCEPT ![b] = [rn[b] EXCEPT !.cost = c]]
      BY <1>1
    <2>3. [rn[b] EXCEPT !.cost = c] \in Node /\ [rn[b] EXCEPT !.cost = c].cost = c
          /\ [rn[b] EXCEPT !.cost = c].refs = rn[b].refs
      BY <2>1 DEF Node
    <2> DEFINE n == [rn[b] EXCEPT !.cost = c]
    <2>4. rn' = [rn EXCEPT ![b] = n] /\ n \in Node /\ n.cost = c /\ n.refs = rn[b].refs
      BY <2>2, <2>3
    <2> HIDE DEF n
    <2> QED
      BY <1>1, <2>1, <2>4
  <1>3. \A d \in DOMAIN rn : rn'[d].cost \in Nat /\ rn'[d].refs = rn[d].refs
    BY <1>2, Facts, MaxCostAssumption, SMTT(30)
  <1>4. ASSUME routers' \in Seq(Bit), addrs' \in [Addr -> Address] PROVE TypeOK'
    BY <1>1, <1>2, <1>4, Facts, Zenon DEF RTInv, TypeOK, Node, Address
  <1>5. ASSUME \A a \in Addr : addrs'[a].rnodes = addrs[a].rnodes PROVE MappingsCounted'
    <2>1. \A d \in DOMAIN rn : Mapped(d)' = Mapped(d)
      BY <1>5 DEF Mapped
    <2> QED
      BY <1>2, <1>3, <1>5, <2>1 DEF RTInv, MappingsCounted, Exists
  <1>6. CASE NeedsReinsertion(rn', routers, b)
    <2>1. PICK rest : rest = DEQ_REMOVE(routers, Position(routers, b))
      OBVIOUS
    <2>2. /\ rest \in Seq(Bit) /\ Len(rest) \in Nat /\ DOMAIN rest = 1 .. Len(rest)
          /\ \A i \in DOMAIN rest : rest[i] \in DOMAIN rn \ {b}
          /\ \A d \in DOMAIN rn \ {b} : \E i \in DOMAIN rest : rest[i] = d
          /\ \A i, j \in DOMAIN rest : rest[i] = rest[j] => i = j
          /\ Sorted(rn, rest)
      BY <1>1, <2>1, ListWithout
    <2>3. routers' = PutAt(rest, 1 + Max({0} \cup {i \in DOMAIN rest :
                                                       rn'[rest[i]].cost <= rn'[b].cost}), b)
          /\ addrs' = AllStale(addrs)
      BY <1>1, <1>6, <2>1 DEF Reinserted
    <2>4. Sorted(rn', rest)
      BY <1>2, <2>2 DEF Sorted
    <2>5. rn'[b].cost \in Nat /\ \A i \in DOMAIN rest : rest[i] # b /\ rn'[rest[i]].cost \in Nat
      BY <1>1, <1>3, <2>2, Zenon
    <2>6. /\ routers' \in Seq(Bit) /\ Range(routers') = Range(rest) \cup {b}
          /\ IsInjective(routers') /\ Sorted(rn', routers')
      <3> DEFINE notDearer == {i \in DOMAIN rest : rn'[rest[i]].cost <= rn'[b].cost}
      <3>1. {0} \cup notDearer \in SUBSET (0 .. Len(rest)) /\ {0} \cup notDearer # {}
        BY <2>2
      <3>2. PICK m : m = Max({0} \cup notDearer)
        BY SMTT(30)
      <3>3. m \in {0} \cup notDearer /\ \A y \in {0} \cup notDearer : y <= m
        BY <2>2, <3>1, <3>2, HighestOf, ZenonT(40)
      <3>4. m \in 0 .. Len(rest) /\ (m # 0 => rn'[rest[m]].cost <= rn'[b].cost)
        BY <3>1, <3>3
      <3>5. ASSUME NEW i \in DOMAIN rest, i > m PROVE rn'[b].cost <= rn'[rest[i]].cost
        <4>1. i \notin notDearer
          <5> HIDE DEF notDearer
          <5> QED
            BY <2>2, <3>3, <3>4, <3>5
        <4> QED
          BY <2>5, <4>1
      <3>6. routers' = PutAt(rest, 1 + m, b)
        BY <2>3, <3>2
      <3> HIDE DEF notDearer
      <3>7. PICK r : r = rn'
        OBVIOUS
      <3>8. PICK list : list = routers'
        OBVIOUS
      <3>9. /\ list = PutAt(rest, 1 + m, b) /\ Sorted(r, rest) /\ r[b].cost \in Nat
            /\ \A i \in DOMAIN rest : rest[i] # b /\ r[rest[i]].cost \in Nat
            /\ (m # 0 => r[rest[m]].cost <= r[b].cost)
            /\ \A i \in DOMAIN rest : i > m => r[b].cost <= r[rest[i]].cost
        BY <2>4, <2>5, <3>4, <3>5, <3>6, <3>7, <3>8, SMTT(30)
      <3>10. /\ list \in Seq(Bit) /\ Range(list) = Range(rest) \cup {b}
             /\ IsInjective(list) /\ Sorted(r, list)
        <4>1. rest \in Seq(Bit) /\ Place(r, b, rest, m)
          BY <2>2, <3>4, <3>9, SMTT(30) DEF Place
        <4> QED
          BY <3>9, <4>1, InsertedSorted, SMTT(30)
      <3> QED
        BY <3>7, <3>8, <3>10
    <2>7. Range(rest) = DOMAIN rn \ {b}
      <3>1. ASSUME NEW i \in DOMAIN rest PROVE rest[i] \in DOMAIN rn \ {b}
        BY <2>2
      <3>2. ASSUME NEW d \in DOMAIN rn \ {b} PROVE \E i \in DOMAIN rest : rest[i] = d
        BY <2>2
      <3> QED
        BY <3>1, <3>2, Zenon DEF Range
    <2>8. RoutersSorted'
      <3>1. Range(routers') = DOMAIN rn'
        BY <1>1, <1>2, <2>6, <2>7, Zenon
      <3> QED
        BY <2>6, <3>1, Zenon DEF RoutersSorted, Sorted
    <2>9. ASSUME NEW a \in Addr
          PROVE  addrs'[a] \in Address /\ addrs'[a].rnodes = addrs[a].rnodes /\ addrs'[a].stale = TRUE
      <3>1. addrs'[a] = [addrs[a] EXCEPT !.stale = TRUE]
        BY <2>3 DEF AllStale
      <3>2. addrs[a] \in Address
        BY Facts
      <3> QED
        BY <3>1, <3>2, Zenon DEF Address
    <2>10. addrs' \in [Addr -> Address]
      BY <2>3, <2>9, Zenon DEF AllStale
    <2>11. FirstCached' /\ CacheWithin'
      BY <2>9, ZenonT(40) DEF FirstCached, CacheWithin
    <2> QED
      BY <1>4, <1>5, <2>6, <2>8, <2>9, <2>10, <2>11, ZenonT(40) DEF RTInv
  <1>7. CASE ~NeedsReinsertion(rn', routers, b)
    <2>1. UNCHANGED <<routers, addrs>>
      BY <1>1, <1>7
    <2> DEFINE p == Position(routers, b)
    <2>2. p \in DOMAIN routers /\ routers[p] = b
      BY <1>1, Facts DEF Position
    <2>3. /\ p > 1 => rn'[routers[p - 1]].cost <= c
          /\ p < Len(routers) => c <= rn'[routers[p + 1]].cost
      <3>1. /\ ~(p > 1 /\ rn'[routers[p - 1]].cost > rn'[b].cost)
            /\ ~(p < Len(routers) /\ rn'[routers[p + 1]].cost < rn'[b].cost)
        BY <1>7 DEF NeedsReinsertion
      <3> HIDE DEF p
      <3>2. p > 1 => p - 1 \in DOMAIN routers
        BY <2>2, Facts
      <3>3. p < Len(routers) => p + 1 \in DOMAIN routers
        BY <2>2, Facts
      <3>4. \A i \in DOMAIN routers : rn'[routers[i]].cost \in Nat
        BY <1>3, Facts
      <3> QED
        BY <1>2, <3>1, <3>2, <3>3, <3>4, SMTT(30)
    <2> HIDE DEF p
    <2>4. ASSUME NEW i \in DOMAIN routers, NEW j \in DOMAIN routers, i < j
          PROVE  rn'[routers[i]].cost <= rn'[routers[j]].cost
      <3>1. /\ i \in Nat /\ j \in Nat /\ p \in Nat /\ DOMAIN routers = 1 .. Len(routers)
            /\ Len(routers) \in Nat
        BY <2>2, Facts
      <3>2. \A k \in DOMAIN routers : k # p => rn'[routers[k]] = rn[routers[k]]
        BY <1>2, <2>2, Facts, SMTT(30)
      <3>3. \A k \in DOMAIN routers : rn[routers[k]].cost \in Nat /\ rn'[routers[k]].cost \in Nat
        BY <1>3, Facts
      <3>4. CASE i # p /\ j # p
        BY <2>4, <3>2, <3>4, Facts, SMTT(30) DEF Sorted
      <3>5. CASE i = p
        <4>1. p + 1 \in DOMAIN routers /\ p + 1 <= j /\ p < Len(routers) /\ p + 1 # p
          BY <2>4, <3>1, <3>5, SMTT(30)
        <4>2. rn[routers[p + 1]].cost <= rn[routers[j]].cost
          <5>1. CASE p + 1 = j
            BY <3>3, <5>1
          <5>2. CASE p + 1 < j
            BY <4>1, <5>2, Facts, SMTT(30) DEF Sorted
          <5> QED
            BY <3>1, <4>1, <5>1, <5>2, SMTT(30)
        <4>3. /\ rn'[routers[j]] = rn[routers[j]] /\ rn'[routers[p + 1]] = rn[routers[p + 1]]
              /\ rn'[routers[i]].cost = c
          BY <1>2, <2>2, <2>4, <3>1, <3>2, <3>5, <4>1, SMTT(30)
        <4> QED
          BY <2>3, <3>3, <4>1, <4>2, <4>3, SMTT(30)
      <3>6. CASE j = p
        <4>1. p - 1 \in DOMAIN routers /\ i <= p - 1 /\ p > 1 /\ p - 1 # p
          BY <2>4, <3>1, <3>6, SMTT(30)
        <4>2. rn[routers[i]].cost <= rn[routers[p - 1]].cost
          <5>1. CASE i = p - 1
            BY <3>3, <5>1, SMTT(30)
          <5>2. CASE i < p - 1
            BY <4>1, <5>2, Facts, SMTT(30) DEF Sorted
          <5> QED
            BY <3>1, <4>1, <5>1, <5>2, SMTT(30)
        <4>3. /\ rn'[routers[i]] = rn[routers[i]] /\ rn'[routers[p - 1]] = rn[routers[p - 1]]
              /\ rn'[routers[j]].cost = c
          BY <1>2, <2>2, <2>4, <3>1, <3>2, <3>6, <4>1, SMTT(30)
        <4> QED
          BY <2>3, <3>3, <4>1, <4>2, <4>3, SMTT(30)
      <3> QED
        BY <3>4, <3>5, <3>6, SMTT(30)
    <2>5. RoutersSorted'
      BY <1>2, <2>1, <2>4, SMTT(30) DEF RTInv, RoutersSorted
    <2>6. FirstCached' /\ CacheWithin'
      BY <2>1 DEF RTInv, FirstCached, CacheWithin
    <2> QED
      BY <1>4, <1>5, <2>1, <2>5, <2>6, Facts DEF RTInv
  <1> QED
    BY <1>6, <1>7

\* An update maps exactly the addresses it names to the router, and counts them.
LEMMA MauOK ==
    ASSUME RTInv, NEW b \in Bit, NEW new \in SUBSET Addr, qcm_mobile_sync_on_mau_CT(b, new)
    PROVE  RTInv'
  <1> DEFINE count == rn[b].refs + Cardinality(new \ Mapped(b)) - Cardinality(Mapped(b) \ new)
  <1>1. PICK freed \in SUBSET {a \in Mapped(b) \ new : addrs[a].rnodes = {b}} :
          addrs' = [a \in Addr |-> IF a \in freed THEN NewAddr ELSE Remap(b, new)[a]]
    BY DEF qcm_mobile_sync_on_mau_CT
  <1>2. b \in DOMAIN rn /\ rn' = [rn EXCEPT ![b].refs = count] /\ UNCHANGED <<routers, control>>
    BY DEF qcm_mobile_sync_on_mau_CT, Exists
  <1>3. ASSUME NEW a \in Addr
        PROVE  /\ addrs'[a] \in Address
               /\ addrs'[a].rnodes = IF a \in new THEN addrs[a].rnodes \cup {b}
                                     ELSE addrs[a].rnodes \ {b}
               /\ addrs'[a] = addrs[a] \/ addrs'[a].stale = TRUE
    <2>1. addrs[a] \in Address /\ addrs[a].rnodes \in SUBSET Bit
      BY Facts DEF Address
    <2>2. CASE a \in freed
      <3>1. a \notin new /\ addrs[a].rnodes = {b}
        BY <2>2
      <3>2. addrs'[a] = NewAddr
        BY <1>1, <2>2, SMTT(30)
      <3> QED
        BY <3>1, <3>2 DEF NewAddr, Address
    <2>3. CASE a \notin freed
      <3>1. addrs'[a] = IF a \in new /\ b \notin addrs[a].rnodes
                        THEN [addrs[a] EXCEPT !.rnodes = addrs[a].rnodes \cup {b}, !.stale = TRUE]
                        ELSE IF a \notin new /\ b \in addrs[a].rnodes
                        THEN [addrs[a] EXCEPT !.rnodes = addrs[a].rnodes \ {b}, !.stale = TRUE]
                        ELSE addrs[a]
        BY <1>1, <2>3, Zenon DEF Remap
      <3>2. CASE a \in new /\ b \notin addrs[a].rnodes
        <4>1. PICK R \in SUBSET Bit : R = addrs[a].rnodes \cup {b}
          BY <2>1, Zenon
        <4>2. addrs'[a] = [addrs[a] EXCEPT !.rnodes = R, !.stale = TRUE]
          BY <3>1, <3>2, <4>1
        <4> QED
          BY <2>1, <3>2, <4>1, <4>2, Zenon DEF Address
      <3>3. CASE a \notin new /\ b \in addrs[a].rnodes
        <4>1. PICK R \in SUBSET Bit : R = addrs[a].rnodes \ {b}
          BY <2>1, Zenon
        <4>2. addrs'[a] = [addrs[a] EXCEPT !.rnodes = R, !.stale = TRUE]
          BY <3>1, <3>3, <4>1
        <4> QED
          BY <2>1, <3>3, <4>1, <4>2, Zenon DEF Address
      <3>4. CASE ~(a \in new /\ b \notin addrs[a].rnodes) /\ ~(a \notin new /\ b \in addrs[a].rnodes)
        <4>1. addrs'[a] = addrs[a]
          BY <3>1, <3>4
        <4> QED
          BY <2>1, <3>4, <4>1, ZenonT(40)
      <3> QED
        BY <3>2, <3>3, <3>4, Zenon
    <2> QED
      BY <2>2, <2>3, Zenon
  <1>4. addrs' \in [Addr -> Address]
    BY <1>1, <1>3, Zenon
  <1>5. Mapped(b)' = new
    <2>1. \A a \in Addr : b \in addrs'[a].rnodes <=> a \in new
      BY <1>3, Zenon
    <2> QED
      BY <2>1 DEF Mapped
  <1>6. \A c \in Bit \ {b} : Mapped(c)' = Mapped(c)
    <2> SUFFICES ASSUME NEW c \in Bit \ {b}, NEW a \in Addr
                 PROVE  c \in addrs'[a].rnodes <=> c \in addrs[a].rnodes
      BY DEF Mapped
    <2> QED
      BY <1>3, Zenon
  <1>7. count = 3 + Cardinality(new) /\ count \in Nat
    <2> DEFINE old == Mapped(b)
    <2>1. old \subseteq Addr
      BY DEF Mapped
    <2>2. IsFiniteSet(old) /\ IsFiniteSet(new)
      BY <2>1, AddrAssumption, FS_Subset, SMTT(30)
    <2>3. rn[b].refs = 3 + Cardinality(old)
      BY <1>2 DEF RTInv, MappingsCounted
    <2> HIDE DEF old
    <2>4. /\ Cardinality(old) \in Nat /\ Cardinality(new) \in Nat
          /\ Cardinality(new \cap old) \in Nat /\ old \cap new = new \cap old
      BY <2>2, FS_Intersection, FS_CardinalityType, Zenon
    <2>5. Cardinality(new \ old) = Cardinality(new) - Cardinality(new \cap old)
      BY <2>2, FS_Difference, Zenon
    <2>6. Cardinality(old \ new) = Cardinality(old) - Cardinality(old \cap new)
      BY <2>2, FS_Difference, Zenon
    <2>7. count = rn[b].refs + Cardinality(new \ old) - Cardinality(old \ new)
      BY DEF old
    <2>8. PICK x \in Nat, y \in Nat, z \in Nat :
            x = Cardinality(old) /\ y = Cardinality(new) /\ z = Cardinality(new \cap old)
            /\ z = Cardinality(old \cap new)
      BY <2>4, ZenonT(40)
    <2>9. count = (3 + x) + (y - z) - (x - z)
      BY <2>3, <2>5, <2>6, <2>7, <2>8
    <2>10. (3 + x) + (y - z) - (x - z) = 3 + y
      OBVIOUS
    <2> QED
      BY <2>8, <2>9, <2>10
  <1> HIDE DEF count
  <1>8. /\ rn' \in [DOMAIN rn -> Node] /\ DOMAIN rn' = DOMAIN rn
        /\ rn'[b].refs = count /\ \A d \in DOMAIN rn \ {b} : rn'[d] = rn[d]
        /\ \A d \in DOMAIN rn : rn'[d].cost = rn[d].cost
    <2> DEFINE n == [rn[b] EXCEPT !.refs = count]
    <2>1. rn \in [DOMAIN rn -> Node] /\ rn[b] \in Node
      BY <1>2, Facts, SMTT(30)
    <2>2. n \in Node /\ n.refs = count /\ n.cost = rn[b].cost
      BY <1>7, <2>1, SMTT(30) DEF Node
    <2>3. rn' = [rn EXCEPT ![b] = n]
      BY <1>2
    <2> HIDE DEF n
    <2> QED
      BY <1>2, <2>1, <2>2, <2>3, SMTT(30)
  <1>9. TypeOK'
    BY <1>2, <1>4, <1>8, Facts, ZenonT(40) DEF RTInv, TypeOK, Node, Address
  <1>10. RoutersSorted'
    BY <1>2, <1>8, Facts DEF RTInv, RoutersSorted
  <1>11. MappingsCounted'
    <2>1. ASSUME NEW a \in Addr, NEW c \in addrs'[a].rnodes PROVE c \in DOMAIN rn'
      <3>1. c \in addrs[a].rnodes \cup {b}
        BY <1>3, <2>1, ZenonT(40)
      <3> QED
        BY <1>2, <1>8, <3>1, SMTT(30) DEF RTInv, MappingsCounted, Exists
    <2>2. ASSUME NEW d \in DOMAIN rn' PROVE rn'[d].refs = 3 + Cardinality(Mapped(d)')
      <3>1. CASE d = b
        BY <1>5, <1>7, <1>8, <3>1
      <3>2. CASE d # b
        BY <1>6, <1>8, <3>2, Facts, SMTT(30) DEF RTInv, MappingsCounted
      <3> QED
        BY <3>1, <3>2
    <2> QED
      BY <2>1, <2>2 DEF MappingsCounted, Exists
  <1>12. FirstCached' /\ CacheWithin'
    BY <1>2, <1>3, ZenonT(40) DEF RTInv, FirstCached, CacheWithin
  <1> QED
    BY <1>9, <1>10, <1>11, <1>12, SMTT(30) DEF RTInv

\* A scan of the list puts the first router that has the address into the cache.
LEMMA ScanOK ==
    ASSUME RTInv, NEW a \in Addr, NEW f, f = FindClosest(a)
    PROVE  /\ f \in Address /\ f.rnodes = addrs[a].rnodes /\ f.stale = FALSE
           /\ f.closest \subseteq f.rnodes
           /\ (IF f.rnodes = {} THEN f.next = None ELSE f.next \in f.closest)
           /\ \A i \in DOMAIN routers :
                routers[i] \in f.rnodes
                /\ (\A j \in DOMAIN routers : j < i => routers[j] \notin f.rnodes)
                => routers[i] \in f.closest
  <1> DEFINE has    == {i \in DOMAIN routers : routers[i] \in addrs[a].rnodes}
             unset  == {i \in has : rn[routers[i]].cost = 0}
             costed == has \ unset
             lowest == rn[routers[Min(costed)]].cost
             closest == {routers[i] : i \in unset \cup
                                            {j \in costed : rn[routers[j]].cost = lowest}}
             next == IF costed # {} THEN routers[Min(costed)]
                     ELSE IF unset # {} THEN routers[Max(unset)] ELSE None
  <1>1. f = [addrs[a] EXCEPT !.stale = FALSE, !.closest = closest, !.next = next]
    BY Zenon DEF FindClosest
  <1>2. /\ addrs[a] \in Address /\ addrs[a].rnodes \in SUBSET Bit
        /\ DOMAIN routers = 1 .. Len(routers) /\ Len(routers) \in Nat
        /\ addrs[a].rnodes \subseteq DOMAIN rn
    BY Facts DEF Address, RTInv, MappingsCounted, Exists
  <1>3. costed # {} => Min(costed) \in costed /\ \A j \in costed : Min(costed) <= j
    <2>1. costed \in SUBSET Nat
      BY <1>2
    <2> HIDE DEF costed
    <2> QED
      BY <2>1, LowestOf, SMTT(30)
  <1>4. unset # {} => Max(unset) \in unset
    <2>1. unset \in SUBSET (0 .. Len(routers))
      BY <1>2
    <2> HIDE DEF unset
    <2> QED
      BY <1>2, <2>1, HighestOf, Zenon
  <1>5. closest \subseteq addrs[a].rnodes
    BY Zenon
  <1>6. /\ \A i \in unset : routers[i] \in closest
        /\ \A i \in costed : rn[routers[i]].cost = lowest => routers[i] \in closest
    BY Zenon
  <1>7. /\ \A i \in DOMAIN routers : routers[i] \in addrs[a].rnodes => i \in costed \/ i \in unset
        /\ \A i \in costed : i \in DOMAIN routers /\ routers[i] \in addrs[a].rnodes
        /\ \A i \in unset : routers[i] \in addrs[a].rnodes
    BY Zenon
  <1> HIDE DEF has, costed, unset, closest
  <1>8. addrs[a].rnodes = {} <=> costed = {} /\ unset = {}
    <2>1. \A r \in addrs[a].rnodes : \E i \in DOMAIN routers : routers[i] = r
      BY <1>2, Facts
    <2> QED
      BY <1>7, <2>1, Zenon
  <1>9. IF addrs[a].rnodes = {} THEN next = None ELSE next \in closest
    <2>1. CASE costed # {}
      BY <1>3, <1>6, <1>8, <2>1, Zenon
    <2>2. CASE costed = {} /\ unset # {}
      BY <1>4, <1>6, <1>8, <2>2, Zenon
    <2>3. CASE costed = {} /\ unset = {}
      BY <1>8, <2>3, Zenon
    <2> QED
      BY <2>1, <2>2, <2>3, Zenon
  <1>10. ASSUME NEW i \in DOMAIN routers, routers[i] \in addrs[a].rnodes,
                \A j \in DOMAIN routers : j < i => routers[j] \notin addrs[a].rnodes
         PROVE  routers[i] \in closest
    <2>1. CASE i \in unset
      BY <1>6, <2>1, Zenon
    <2>2. CASE i \in costed
      <3>1. Min(costed) \in DOMAIN routers /\ Min(costed) <= i /\ ~(Min(costed) < i)
        BY <1>3, <1>7, <1>10, <2>2, Zenon
      <3>2. Min(costed) = i
        BY <1>2, <3>1
      <3> QED
        BY <1>6, <2>2, <3>2, Zenon
    <2> QED
      BY <1>7, <1>10, <2>1, <2>2, Zenon
  <1>11. next \in Bit \cup {None}
    BY <1>2, <1>5, <1>8, <1>9, ZenonT(40)
  <1> HIDE DEF next
  <1>12. /\ f \in Address /\ f.rnodes = addrs[a].rnodes /\ f.stale = FALSE
         /\ f.closest = closest /\ f.next = next
    BY <1>1, <1>2, <1>5, <1>11, Zenon DEF Address
  <1> QED
    BY <1>5, <1>9, <1>10, <1>12

\* The next bit of a mask is one of the mask's.
LEMMA RingOK ==
    ASSUME NEW mask \in SUBSET Bit, mask # {}, NEW n \in Bit
    PROVE  NextInRing(mask, n) \in mask
  <1> DEFINE after == {b \in mask : b > n}
  <1>1. mask \in SUBSET Nat /\ after \in SUBSET Nat /\ after \subseteq mask
    BY BitAssumption, ZenonT(40)
  <1>2. Min(mask) \in mask
    BY <1>1, LowestOf
  <1>3. after # {} => Min(after) \in after
    <2> HIDE DEF after
    <2> QED
      BY <1>1, LowestOf
  <1>4. NextInRing(mask, n) = IF after # {} THEN Min(after) ELSE Min(mask)
    BY DEF NextInRing
  <1> HIDE DEF after
  <1> QED
    BY <1>1, <1>2, <1>3, <1>4, Zenon

\* A message uses the cache, after a scan of the list if it is stale, and passes the turn on.
LEMMA ClosestOK ==
    ASSUME RTInv, NEW a \in Addr, qdr_forward_closest_CT(a)
    PROVE  RTInv'
  <1> DEFINE fresh == IF addrs[a].stale THEN FindClosest(a) ELSE addrs[a]
             turned == IF fresh.next # None /\ Exists(fresh.next)
                       THEN [fresh EXCEPT !.next = NextInRing(fresh.closest, fresh.next)]
                       ELSE fresh
             First(f) == \A i \in DOMAIN routers :
                           routers[i] \in f.rnodes
                           /\ (\A j \in DOMAIN routers : j < i => routers[j] \notin f.rnodes)
                           => routers[i] \in f.closest
  <1>1. addrs' = [addrs EXCEPT ![a] = turned] /\ UNCHANGED <<rn, routers, control>>
    BY SMTT(30) DEF qdr_forward_closest_CT
  <1>2. /\ fresh \in Address /\ fresh.rnodes = addrs[a].rnodes /\ fresh.stale = FALSE
        /\ fresh.closest \subseteq fresh.rnodes
        /\ (IF fresh.rnodes = {} THEN fresh.next = None ELSE fresh.next \in fresh.closest)
        /\ First(fresh)
    <2>1. CASE addrs[a].stale = TRUE
      <3>1. PICK f : f = FindClosest(a)
        OBVIOUS
      <3>2. fresh = f
        BY <2>1, <3>1
      <3> HIDE DEF fresh
      <3> QED
        BY <3>1, <3>2, ScanOK, Zenon
    <2>2. CASE addrs[a].stale = FALSE
      <3>1. fresh = addrs[a] /\ addrs[a] \in Address
        BY <2>2, Facts
      <3> HIDE DEF fresh
      <3> QED
        BY <2>2, <3>1 DEF RTInv, FirstCached, CacheWithin
    <2> QED
      BY <2>1, <2>2, Facts, Zenon DEF Address
  <1> HIDE DEF fresh
  <1>3. /\ turned \in Address /\ turned.rnodes = addrs[a].rnodes /\ turned.stale = FALSE
        /\ turned.closest = fresh.closest
        /\ (IF turned.rnodes = {} THEN turned.next = None ELSE turned.next \in turned.closest)
    <2>1. CASE fresh.next # None /\ Exists(fresh.next)
      <3>1. fresh.rnodes # {} /\ fresh.next \in fresh.closest /\ fresh.closest \in SUBSET Bit
            /\ fresh.closest # {} /\ fresh.next \in Bit
        BY <1>2, <2>1 DEF Address
      <3>2. PICK n \in fresh.closest : n = NextInRing(fresh.closest, fresh.next)
        BY <3>1, RingOK
      <3>3. turned = [fresh EXCEPT !.next = n]
        BY <2>1, <3>2
      <3> HIDE DEF turned
      <3> QED
        BY <1>2, <3>1, <3>2, <3>3 DEF Address
    <2>2. CASE ~(fresh.next # None /\ Exists(fresh.next))
      BY <1>2, <2>2, SMTT(30)
    <2> QED
      BY <2>1, <2>2, Zenon
  <1> HIDE DEF turned
  <1>4. /\ addrs' \in [Addr -> Address] /\ addrs'[a] = turned
        /\ \A x \in Addr : x # a => addrs'[x] = addrs[x]
        /\ \A x \in Addr : addrs'[x].rnodes = addrs[x].rnodes
    BY <1>1, <1>3, Facts, SMTT(30)
  <1>5. TypeOK'
    BY <1>1, <1>4 DEF RTInv, TypeOK, Address
  <1>6. RoutersSorted'
    BY <1>1 DEF RTInv, RoutersSorted
  <1>7. MappingsCounted'
    <2>1. \A b \in DOMAIN rn : Mapped(b)' = Mapped(b)
      BY <1>4 DEF Mapped
    <2> QED
      BY <1>1, <1>4, <2>1, SMTT(30) DEF RTInv, MappingsCounted, Exists
  <1>8. CacheWithin'
    <2> SUFFICES ASSUME NEW x \in Addr, ~addrs'[x].stale
                 PROVE  /\ addrs'[x].closest \subseteq addrs'[x].rnodes
                        /\ IF addrs'[x].rnodes = {} THEN addrs'[x].next = None
                           ELSE addrs'[x].next \in addrs'[x].closest
      BY DEF CacheWithin
    <2>1. CASE x = a
      BY <1>2, <1>3, <1>4, <2>1, SMTT(30)
    <2>2. CASE x # a
      BY <1>4, <2>2, SMTT(30) DEF RTInv, CacheWithin
    <2> QED
      BY <2>1, <2>2
  <1>9. FirstCached'
    <2> SUFFICES ASSUME NEW x \in Addr, ~addrs'[x].stale PROVE First(addrs'[x])
      BY <1>1 DEF FirstCached
    <2>1. CASE x = a
      BY <1>2, <1>3, <1>4, <2>1, SMTT(30)
    <2>2. CASE x # a
      BY <1>4, <2>2 DEF RTInv, FirstCached
    <2> QED
      BY <2>1, <2>2, SMTT(30)
  <1> QED
    BY <1>5, <1>6, <1>7, <1>8, <1>9 DEF RTInv

-----------------------------------------------------------------------------

\* At first there are no routers, and no address has a cache.
LEMMA InitOK == Init => RTInv
  <1> SUFFICES ASSUME Init PROVE RTInv
    OBVIOUS
  <1>1. DOMAIN rn = {} /\ rn \in [{} -> Node] /\ routers = <<>> /\ control = {}
    BY DEF Init
  <1>2. addrs \in [Addr -> Address]
        /\ \A a \in Addr : addrs[a].rnodes = {} /\ addrs[a].stale = TRUE
    BY DEF Init, NewAddr, Address
  <1>3. routers \in Seq(Bit) /\ DOMAIN routers = {}
    BY <1>1
  <1>4. TypeOK
    BY <1>1, <1>2, <1>3 DEF TypeOK, Node, Address
  <1>5. RoutersSorted
    BY <1>1, <1>3, SMTT(30) DEF RoutersSorted, IsInjective, Range
  <1>6. MappingsCounted /\ FirstCached /\ CacheWithin
    BY <1>1, <1>2, SMTT(30) DEF MappingsCounted, FirstCached, CacheWithin
  <1> QED
    BY <1>4, <1>5, <1>6 DEF RTInv

\* A step that changes none of the tables.
LEMMA StutterOK ==
    ASSUME RTInv, UNCHANGED rtvars
    PROVE  RTInv'
  BY DEF RTInv, rtvars, TypeOK, RoutersSorted, MappingsCounted, Exists, Mapped, FirstCached,
         CacheWithin

\* Every handler keeps the tables in agreement.
LEMMA NextOK == RTInv /\ [Next]_rtvars => RTInv'
  <1> SUFFICES ASSUME RTInv, [Next]_rtvars PROVE RTInv'
    OBVIOUS
  <1>1. ASSUME NEW b \in Bit, NEW id \in Router, qdr_add_router_CT(b, id) PROVE RTInv'
    <2>1. CASE Exists(b)
      BY <1>1, <2>1, StutterOK DEF qdr_add_router_CT, rtvars
    <2> QED
      BY <1>1, <2>1, AddOK, SMTT(30)
  <1>2. ASSUME NEW b \in Bit, qdr_del_router_CT(b) PROVE RTInv'
    <2>1. CASE ~Exists(b)
      BY <1>2, <2>1, StutterOK DEF qdr_del_router_CT, rtvars
    <2> QED
      BY <1>2, <2>1, DelOK
  <1>3. ASSUME NEW b \in Bit, NEW c \in 0 .. MaxCost, qdr_set_cost_CT(b, c) PROVE RTInv'
    <2>1. CASE c < 1
      BY <1>3, <2>1, StutterOK, SMTT(30) DEF qdr_set_cost_CT, rtvars
    <2>2. CASE c >= 1
      BY <1>3, <2>2, CostOK, SMTT(30)
    <2> QED
      BY <2>1, <2>2, MaxCostAssumption, SMTT(30)
  <1>4. ASSUME NEW b \in Bit, NEW new \in SUBSET Addr, qcm_mobile_sync_on_mau_CT(b, new)
        PROVE  RTInv'
    BY <1>4, MauOK
  <1>5. ASSUME NEW a \in Addr, qdr_forward_closest_CT(a) PROVE RTInv'
    BY <1>5, ClosestOK
  <1>6. CASE UNCHANGED rtvars
    BY <1>6, StutterOK
  <1> QED
    BY <1>1, <1>2, <1>3, <1>4, <1>5, <1>6, SMTT(30) DEF Next

\* The list of routers is sorted by cost and exact, references are counted, and a cache of
\* the closest routers that passes for fresh is usable (qdr_route_table_update_cost_CT,
\* qdr_forward_find_closest_remotes_CT), for every number of routers and addresses.
THEOREM TablesStayExact == Spec => []TablesExact
  <1>1. RTInv => TablesExact
    BY FirstIsNearest DEF RTInv, TablesExact
  <1> QED
    BY <1>1, InitOK, NextOK, PTL DEF Spec
=============================================================================
