--------------------------- MODULE Policy_proofs ---------------------------
(***************************************************************************)
(* Proofs for Policy, for any connections, rulesets and limits.            *)
(***************************************************************************)
EXTENDS Policy, FiniteSetTheorems, TLAPS

StatsFields == {"max", "peruser", "perhost", "active", "users", "hosts"}

\* Connections of C are on the lists.
ListsTyped(lists, C) == \A x \in DOMAIN lists : lists[x] \in Seq(C)

\* The statistics agree with the facts.
StatsOK(stats, facts, C) ==
    /\ \A c \in DOMAIN facts : facts[c].app \in DOMAIN stats
    /\ \A v \in DOMAIN stats :
          /\ DOMAIN stats[v] = StatsFields
          /\ ListsTyped(stats[v].users, C) /\ ListsTyped(stats[v].hosts, C)
          /\ StatsExact(stats[v], facts, v)

-----------------------------------------------------------------------------
(* Lists of connections.                                                    *)

\* A list l holds the members of S, each once.
Holds(l, S, C) == l \in Seq(C) /\ IsInjective(l) /\ Range(l) = S

\* The list of none.
LEMMA EmptyHolds ==
    ASSUME NEW C
    PROVE  Holds(<<>>, {}, C)
  <1>1. <<>> \in Seq(C)
    OBVIOUS
  <1>2. DOMAIN <<>> = {}
    OBVIOUS
  <1>3. IsInjective(<<>>) /\ Range(<<>>) = {}
    BY <1>2, Zenon DEF IsInjective, Range
  <1> QED
    BY <1>1, <1>3 DEF Holds

\* The list of one more.
LEMMA AppendOnce ==
    ASSUME NEW C, NEW S, NEW l, Holds(l, S, C), NEW c \in C, c \notin S
    PROVE  Holds(Append(l, c), S \cup {c}, C)
  <1> DEFINE m == Append(l, c)
  <1>1. l \in Seq(C) /\ m \in Seq(C) /\ Len(m) = Len(l) + 1 /\ Len(l) \in Nat
    BY DEF Holds
  <1>2. \A i \in 1 .. Len(m) : m[i] = IF i <= Len(l) THEN l[i] ELSE c
    BY <1>1
  <1>3. DOMAIN l = 1 .. Len(l) /\ DOMAIN m = 1 .. Len(l) + 1
    BY <1>1
  <1> HIDE DEF m
  <1>4. \A i \in 1 .. Len(l) : l[i] \in S /\ l[i] # c
    BY <1>3 DEF Holds, Range
  <1>5. IsInjective(m)
    BY <1>1, <1>2, <1>3, <1>4 DEF Holds, IsInjective
  <1>6. Range(m) \subseteq S \cup {c}
    BY <1>1, <1>2, <1>3, <1>4 DEF Range
  <1>7. c \in Range(m)
    BY <1>1, <1>2, <1>3 DEF Range
  <1>8. ASSUME NEW d \in S PROVE d \in Range(m)
    <2>1. PICK i \in 1 .. Len(l) : l[i] = d
      BY <1>3 DEF Holds, Range
    <2> QED
      BY <2>1, <1>1, <1>2, <1>3 DEF Range
  <1> QED
    BY <1>1, <1>5, <1>6, <1>7, <1>8 DEF Holds, m

\* The list of one less.
LEMMA RemovedOnce ==
    ASSUME NEW C, NEW S, NEW l, Holds(l, S, C), NEW c \in S
    PROVE  Holds(Removed(l, c), S \ {c}, C)
  <1> DEFINE k == CHOOSE i \in DOMAIN l : l[i] = c /\ \A j \in 1..(i - 1) : l[j] # c
             m == Removed(l, c)
  <1>1. l \in Seq(C) /\ Len(l) \in Nat /\ DOMAIN l = 1 .. Len(l)
    BY DEF Holds
  <1>2. k \in 1 .. Len(l) /\ l[k] = c
    <2>1. PICK i \in 1 .. Len(l) : l[i] = c
      BY <1>1 DEF Holds, Range
    <2>2. \A j \in 1 .. (i - 1) : l[j] # c
      BY <1>1, <2>1 DEF Holds, IsInjective
    <2>3. \E x \in DOMAIN l : l[x] = c /\ \A j \in 1..(x - 1) : l[j] # c
      BY <1>1, <2>1, <2>2
    <2> QED
      BY <1>1, <2>3
  <1>3. m = [i \in 1..(Len(l) - 1) |-> IF i < k THEN l[i] ELSE l[i + 1]]
    BY DEF Removed
  <1> HIDE DEF k, m
  <1>4. \A i \in 1 .. Len(l) : l[i] \in C /\ l[i] \in S /\ (l[i] = c <=> i = k)
    BY <1>1, <1>2 DEF Holds, Range, IsInjective
  <1>5. Len(l) - 1 \in Nat
    BY <1>1, <1>2
  <1>6. \A i \in 1 .. (Len(l) - 1) : m[i] \in C /\ m[i] \in S /\ m[i] # c
    BY <1>1, <1>2, <1>3, <1>4
  <1>7. m \in Seq(C) /\ DOMAIN m = 1 .. (Len(l) - 1)
    BY <1>3, <1>5, <1>6
  <1>8. IsInjective(m)
    <2> SUFFICES ASSUME NEW a \in 1 .. (Len(l) - 1), NEW b \in 1 .. (Len(l) - 1), m[a] = m[b]
                 PROVE  a = b
      BY <1>7 DEF IsInjective
    <2>1. \A i, j \in 1 .. Len(l) : l[i] = l[j] => i = j
      BY <1>1 DEF Holds, IsInjective
    <2> QED
      BY <2>1, <1>1, <1>2, <1>3
  <1>9. Range(m) \subseteq S \ {c}
    BY <1>6, <1>7 DEF Range
  <1>10. ASSUME NEW d \in S \ {c} PROVE d \in Range(m)
    <2>1. PICK i \in 1 .. Len(l) : l[i] = d /\ i # k
      BY <1>1, <1>2 DEF Holds, Range
    <2>2. CASE i < k
      <3>1. i \in 1 .. (Len(l) - 1) /\ m[i] = d
        BY <1>1, <1>2, <1>3, <2>1, <2>2
      <3> QED
        BY <3>1, <1>7 DEF Range
    <2>3. CASE i > k
      <3>1. i - 1 \in 1 .. (Len(l) - 1) /\ m[i - 1] = d
        BY <1>1, <1>2, <1>3, <2>1, <2>3
      <3> QED
        BY <3>1, <1>7 DEF Range
    <2> QED
      BY <2>1, <2>2, <2>3, <1>1, <1>2
  <1> QED
    BY <1>7, <1>8, <1>9, <1>10 DEF Holds, m

\* The connections of a vhost that have x in a field.
Of(facts, v, field, x) == {c \in DOMAIN facts : facts[c].app = v /\ facts[c][field] = x}

ListsOK(lists, facts, v, field, C) ==
    /\ \A x \in DOMAIN lists : Holds(lists[x], Of(facts, v, field, x), C)
    /\ \A c \in DOMAIN facts : facts[c].app = v => facts[c][field] \in DOMAIN lists

\* The two ways to say it agree.
LEMMA ListsSame ==
    ASSUME NEW lists, NEW facts, NEW v, NEW field, NEW C
    PROVE  ListsOK(lists, facts, v, field, C) <=>
             ListsTyped(lists, C) /\ ListsExact(lists, facts, v, field)
  BY DEF ListsOK, ListsTyped, ListsExact, Holds, Of

\* The connections with one more.
LEMMA OfAdded ==
    ASSUME NEW facts, NEW c, c \notin DOMAIN facts, NEW r, NEW v, NEW field, NEW x
    PROVE  Of(PoWith(facts, c, r), v, field, x) =
             IF r.app = v /\ r[field] = x THEN Of(facts, v, field, x) \cup {c}
             ELSE Of(facts, v, field, x)
  <1> DEFINE g == PoWith(facts, c, r)
  <1>1. DOMAIN g = DOMAIN facts \cup {c} /\ g[c] = r /\ \A d \in DOMAIN facts : g[d] = facts[d]
    BY DEF PoWith
  <1> HIDE DEF g
  <1>2. Of(g, v, field, x) =
          IF r.app = v /\ r[field] = x THEN Of(facts, v, field, x) \cup {c}
          ELSE Of(facts, v, field, x)
    BY <1>1 DEF Of
  <1> QED
    BY <1>2 DEF g

\* The connections with one less.
LEMMA OfRemoved ==
    ASSUME NEW facts, NEW c \in DOMAIN facts, NEW v, NEW field, NEW x
    PROVE  Of(PoWithout(facts, {c}), v, field, x) = Of(facts, v, field, x) \ {c}
  BY DEF Of, PoWithout

\* A connection that is admitted is put on the list of its user, or host.
LEMMA ListsAdded ==
    ASSUME NEW C, NEW lists, NEW facts, NEW v, NEW field, ListsOK(lists, facts, v, field, C),
           NEW c \in C, c \notin DOMAIN facts, NEW r, r.app = v
    PROVE  ListsOK(PoWith(lists, r[field], Append(PoGet(lists, r[field], <<>>), c)),
                   PoWith(facts, c, r), v, field, C)
  <1> DEFINE y == r[field]
             old == PoGet(lists, y, <<>>)
             n == PoWith(lists, y, Append(old, c))
             g == PoWith(facts, c, r)
  <1>1. DOMAIN g = DOMAIN facts \cup {c} /\ g[c] = r /\ \A d \in DOMAIN facts : g[d] = facts[d]
    BY DEF PoWith
  <1>2. /\ DOMAIN n = DOMAIN lists \cup {y} /\ n[y] = Append(old, c)
        /\ \A x \in DOMAIN lists : x # y => n[x] = lists[x]
    BY DEF PoWith
  <1>3. Holds(old, Of(facts, v, field, y), C)
    <2>1. CASE y \in DOMAIN lists
      BY <2>1 DEF ListsOK, PoGet
    <2>2. CASE y \notin DOMAIN lists
      <3>1. Of(facts, v, field, y) = {}
        BY <2>2 DEF ListsOK, Of
      <3>2. old = <<>>
        BY <2>2 DEF PoGet
      <3> QED
        BY <3>1, <3>2, EmptyHolds
    <2> QED
      BY <2>1, <2>2
  <1>4. \A x : Of(g, v, field, x) = IF x = y THEN Of(facts, v, field, x) \cup {c}
                                    ELSE Of(facts, v, field, x)
    BY OfAdded
  <1> HIDE DEF g, n, old
  <1>5. Holds(n[y], Of(g, v, field, y), C)
    <2>1. c \notin Of(facts, v, field, y)
      BY DEF Of
    <2> QED
      BY <1>2, <1>3, <1>4, <2>1, AppendOnce
  <1>6. \A x \in DOMAIN n : Holds(n[x], Of(g, v, field, x), C)
    BY <1>2, <1>4, <1>5, Zenon DEF ListsOK
  <1>7. \A d \in DOMAIN g : g[d].app = v => g[d][field] \in DOMAIN n
    BY <1>1, <1>2 DEF ListsOK
  <1>8. ListsOK(n, g, v, field, C)
    BY <1>6, <1>7 DEF ListsOK
  <1> QED
    BY <1>8 DEF n, g, old

\* One that goes is taken off.
LEMMA ListsRemoved ==
    ASSUME NEW C, NEW lists, NEW facts, NEW v, NEW field, ListsOK(lists, facts, v, field, C),
           NEW c \in DOMAIN facts, facts[c].app = v
    PROVE  ListsOK([lists EXCEPT ![facts[c][field]] = Removed(@, c)], PoWithout(facts, {c}),
                   v, field, C)
  <1> DEFINE y == facts[c][field]
             n == [lists EXCEPT ![y] = Removed(@, c)]
             g == PoWithout(facts, {c})
  <1>1. DOMAIN g = DOMAIN facts \ {c} /\ \A d \in DOMAIN g : g[d] = facts[d]
    BY DEF PoWithout
  <1>2. y \in DOMAIN lists
    BY DEF ListsOK
  <1>3. /\ DOMAIN n = DOMAIN lists /\ n[y] = Removed(lists[y], c)
        /\ \A x \in DOMAIN lists : x # y => n[x] = lists[x]
    BY <1>2
  <1>4. \A x : Of(g, v, field, x) = Of(facts, v, field, x) \ {c}
    BY OfRemoved
  <1>5. \A x : c \in Of(facts, v, field, x) <=> x = y
    BY DEF Of
  <1> HIDE DEF g, n
  <1>6. Holds(n[y], Of(g, v, field, y), C)
    BY <1>2, <1>3, <1>4, <1>5, RemovedOnce DEF ListsOK
  <1>7. ASSUME NEW x \in DOMAIN n, x # y
        PROVE  Holds(n[x], Of(g, v, field, x), C)
    <2>1. Of(g, v, field, x) = Of(facts, v, field, x)
      BY <1>4, <1>5, <1>7
    <2> QED
      BY <1>3, <1>7, <2>1 DEF ListsOK
  <1>8. \A d \in DOMAIN g : g[d].app = v => g[d][field] \in DOMAIN n
    BY <1>1, <1>3 DEF ListsOK
  <1>9. ListsOK(n, g, v, field, C)
    BY <1>6, <1>7, <1>8 DEF ListsOK
  <1> QED
    BY <1>9 DEF n, g

\* The lists of another vhost stay exact.
LEMMA ListsOther ==
    ASSUME NEW C, NEW lists, NEW facts, NEW v, NEW field, ListsOK(lists, facts, v, field, C),
           NEW g, \A x : Of(g, v, field, x) = Of(facts, v, field, x)
    PROVE  ListsOK(lists, g, v, field, C)
  <1>1. ASSUME NEW d \in DOMAIN g, g[d].app = v
        PROVE  g[d][field] \in DOMAIN lists
    <2>1. d \in Of(g, v, field, g[d][field])
      BY <1>1 DEF Of
    <2>2. d \in Of(facts, v, field, g[d][field])
      BY <2>1
    <2> QED
      BY <2>2 DEF Of, ListsOK
  <1> QED
    BY <1>1 DEF ListsOK

-----------------------------------------------------------------------------
(* Statistics of the vhosts.                                                *)

\* The connections of a vhost.
AllOf(facts, v) == {c \in DOMAIN facts : facts[c].app = v}

\* The statistics of one vhost.
AppOK(s, facts, v, C) ==
    /\ DOMAIN s = StatsFields
    /\ s.active = Cardinality(AllOf(facts, v))
    /\ ListsOK(s.users, facts, v, "user", C) /\ ListsOK(s.hosts, facts, v, "host", C)

\* The two ways to say it agree.
LEMMA StatsSame ==
    ASSUME NEW stats, NEW facts, NEW C
    PROVE  StatsOK(stats, facts, C) <=>
             /\ \A c \in DOMAIN facts : facts[c].app \in DOMAIN stats
             /\ \A v \in DOMAIN stats : AppOK(stats[v], facts, v, C)
  BY ListsSame, Zenon DEF StatsOK, StatsExact, AppOK, AllOf

\* A vhost to which the change of the facts does not matter.
LEMMA AppOther ==
    ASSUME NEW s, NEW facts, NEW g, NEW v, NEW C, AppOK(s, facts, v, C),
           \A field, x : Of(g, v, field, x) = Of(facts, v, field, x), AllOf(g, v) = AllOf(facts, v)
    PROVE  AppOK(s, g, v, C)
  BY ListsOther DEF AppOK

\* lookup_user counts a connection and notes the facts about it.
LEMMA Admitted ==
    ASSUME NEW stats, NEW facts, NEW C, IsFiniteSet(C), DOMAIN facts \subseteq C,
           StatsOK(stats, facts, C), NEW v \in DOMAIN stats, NEW c \in C, c \notin DOMAIN facts,
           NEW user, NEW host
    PROVE  StatsOK([stats EXCEPT ![v] = Counted(@, c, user, host)],
                   PoWith(facts, c, [user |-> user, host |-> host, app |-> v]), C)
  <1> DEFINE r == [user |-> user, host |-> host, app |-> v]
             g == PoWith(facts, c, r)
             n == [stats EXCEPT ![v] = Counted(@, c, user, host)]
             s == stats[v]
  <1>1. DOMAIN g = DOMAIN facts \cup {c} /\ g[c] = r /\ \A d \in DOMAIN facts : g[d] = facts[d]
    BY DEF PoWith
  <1>2. r.app = v /\ r["user"] = user /\ r["host"] = host
    OBVIOUS
  <1>3. /\ DOMAIN n = DOMAIN stats /\ n[v] = Counted(s, c, user, host)
        /\ \A w \in DOMAIN stats : w # v => n[w] = stats[w]
    OBVIOUS
  <1> HIDE DEF r, n
  <1>4. AppOK(s, facts, v, C) /\ \A w \in DOMAIN stats : AppOK(stats[w], facts, w, C)
    BY StatsSame
  <1>5. AppOK(n[v], g, v, C)
    <2>1. /\ DOMAIN n[v] = StatsFields /\ n[v].active = s.active + 1
          /\ n[v].users = PoWith(s.users, user, Append(PoGet(s.users, user, <<>>), c))
          /\ n[v].hosts = PoWith(s.hosts, host, Append(PoGet(s.hosts, host, <<>>), c))
      BY <1>3, <1>4 DEF Counted, AppOK, StatsFields
    <2>2. ListsOK(n[v].users, g, v, "user", C)
      BY <1>2, <1>4, <2>1, ListsAdded DEF AppOK
    <2>3. ListsOK(n[v].hosts, g, v, "host", C)
      BY <1>2, <1>4, <2>1, ListsAdded DEF AppOK
    <2>4. n[v].active = Cardinality(AllOf(g, v))
      <3>1. AllOf(g, v) = AllOf(facts, v) \cup {c} /\ c \notin AllOf(facts, v)
        BY <1>1, <1>2 DEF AllOf
      <3>2. IsFiniteSet(AllOf(facts, v))
        BY FS_Subset DEF AllOf
      <3>3. Cardinality(AllOf(facts, v) \cup {c}) = Cardinality(AllOf(facts, v)) + 1
        BY <3>1, <3>2, FS_AddElement, Zenon
      <3> QED
        BY <2>1, <3>1, <3>3, <1>4 DEF AppOK
    <2> QED
      BY <2>1, <2>2, <2>3, <2>4 DEF AppOK
  <1>6. ASSUME NEW w \in DOMAIN stats, w # v
        PROVE  AppOK(n[w], g, w, C)
    <2>1. \A field, x : Of(g, w, field, x) = Of(facts, w, field, x)
      BY <1>2, <1>6, OfAdded
    <2>2. AllOf(g, w) = AllOf(facts, w)
      BY <1>1, <1>2, <1>6 DEF AllOf
    <2>3. AppOK(stats[w], facts, w, C) /\ n[w] = stats[w]
      BY <1>3, <1>4, <1>6
    <2> HIDE DEF g
    <2> QED
      BY <2>1, <2>2, <2>3, AppOther
  <1>7. \A d \in DOMAIN g : g[d].app \in DOMAIN n
    BY <1>1, <1>2, <1>3 DEF StatsOK
  <1>8. \A w \in DOMAIN n : AppOK(n[w], g, w, C)
    BY <1>3, <1>5, <1>6
  <1> HIDE DEF g
  <1>9. StatsOK(n, g, C)
    BY <1>7, <1>8, StatsSame
  <1> QED
    BY <1>9 DEF n, g, r

\* close_connection takes it off again.
LEMMA ClosedOff ==
    ASSUME NEW stats, NEW facts, NEW C, IsFiniteSet(C), DOMAIN facts \subseteq C,
           StatsOK(stats, facts, C), NEW c \in DOMAIN facts
    PROVE  StatsOK([stats EXCEPT ![facts[c].app] =
                       disconnect(@, c, facts[c].user, facts[c].host)],
                   PoWithout(facts, {c}), C)
  <1> DEFINE v == facts[c].app
             g == PoWithout(facts, {c})
             n == [stats EXCEPT ![v] = disconnect(@, c, facts[c].user, facts[c].host)]
             s == stats[v]
  <1>1. DOMAIN g = DOMAIN facts \ {c} /\ \A d \in DOMAIN g : g[d] = facts[d]
    BY DEF PoWithout
  <1>2. v \in DOMAIN stats
    BY DEF StatsOK
  <1>3. /\ DOMAIN n = DOMAIN stats
        /\ n[v] = disconnect(s, c, facts[c].user, facts[c].host)
        /\ \A w \in DOMAIN stats : w # v => n[w] = stats[w]
    BY <1>2
  <1> HIDE DEF n, g
  <1>4. \A w \in DOMAIN stats : AppOK(stats[w], facts, w, C)
    BY StatsSame, SMTT(30)
  <1>5. AppOK(n[v], g, v, C)
    <2>1. /\ DOMAIN n[v] = StatsFields /\ n[v].active = s.active - 1
          /\ n[v].users = [s.users EXCEPT ![facts[c]["user"]] = Removed(@, c)]
          /\ n[v].hosts = [s.hosts EXCEPT ![facts[c]["host"]] = Removed(@, c)]
      BY <1>2, <1>3, <1>4 DEF disconnect, AppOK, StatsFields
    <2>2. ListsOK(n[v].users, g, v, "user", C)
      BY <1>2, <1>4, <2>1, ListsRemoved, SMTT(30) DEF AppOK, g
    <2>3. ListsOK(n[v].hosts, g, v, "host", C)
      BY <1>2, <1>4, <2>1, ListsRemoved, SMTT(30) DEF AppOK, g
    <2>4. n[v].active = Cardinality(AllOf(g, v))
      <3>1. AllOf(g, v) = AllOf(facts, v) \ {c} /\ c \in AllOf(facts, v)
        BY <1>1 DEF AllOf
      <3>2. IsFiniteSet(AllOf(facts, v))
        BY FS_Subset DEF AllOf
      <3>3. Cardinality(AllOf(facts, v) \ {c}) = Cardinality(AllOf(facts, v)) - 1
        BY <3>1, <3>2, FS_RemoveElement, Zenon
      <3> QED
        BY <1>2, <2>1, <3>1, <3>3, <1>4 DEF AppOK
    <2> HIDE DEF n, g
    <2> QED
      BY <2>1, <2>2, <2>3, <2>4, Zenon DEF AppOK
  <1>6. ASSUME NEW w \in DOMAIN stats, w # v
        PROVE  AppOK(n[w], g, w, C)
    <2>1. \A field, x : Of(g, w, field, x) = Of(facts, w, field, x)
      BY <1>1, <1>6 DEF Of
    <2>2. AllOf(g, w) = AllOf(facts, w)
      BY <1>1, <1>6 DEF AllOf
    <2>3. AppOK(stats[w], facts, w, C) /\ n[w] = stats[w]
      BY <1>3, <1>4, <1>6
    <2> QED
      BY <2>1, <2>2, <2>3, AppOther
  <1>7. \A d \in DOMAIN g : g[d].app \in DOMAIN n
    BY <1>1, <1>3 DEF StatsOK
  <1>8. \A w \in DOMAIN n : AppOK(n[w], g, w, C)
    BY <1>3, <1>5, <1>6
  <1>9. StatsOK(n, g, C)
    BY <1>7, <1>8, StatsSame
  <1> QED
    BY <1>9 DEF n, g

\* New limits leave the counts alone.
LEMMA LimitsUpdated ==
    ASSUME NEW stats, NEW facts, NEW C, StatsOK(stats, facts, C), NEW v \in DOMAIN stats, NEW r
    PROVE  StatsOK([stats EXCEPT ![v] = update_ruleset(@, r)], facts, C)
  <1> DEFINE n == [stats EXCEPT ![v] = update_ruleset(@, r)]
  <1>1. /\ DOMAIN n = DOMAIN stats /\ n[v] = update_ruleset(stats[v], r)
        /\ \A w \in DOMAIN stats : w # v => n[w] = stats[w]
    OBVIOUS
  <1> HIDE DEF n
  <1>2. \A w \in DOMAIN stats : AppOK(stats[w], facts, w, C)
    BY StatsSame
  <1>3. /\ DOMAIN n[v] = StatsFields /\ n[v].active = stats[v].active
        /\ n[v].users = stats[v].users /\ n[v].hosts = stats[v].hosts
    BY <1>1, <1>2 DEF update_ruleset, AppOK, StatsFields
  <1>4. AppOK(n[v], facts, v, C)
    BY <1>2, <1>3 DEF AppOK
  <1>5. \A w \in DOMAIN n : AppOK(n[w], facts, w, C)
    BY <1>1, <1>2, <1>4
  <1>6. \A d \in DOMAIN facts : facts[d].app \in DOMAIN n
    BY <1>1 DEF StatsOK
  <1>7. StatsOK(n, facts, C)
    BY <1>5, <1>6, StatsSame
  <1> QED
    BY <1>7 DEF n

\* A vhost without statistics has no connections yet.
LEMMA StatsCreated ==
    ASSUME NEW stats, NEW facts, NEW C, StatsOK(stats, facts, C), NEW v, v \notin DOMAIN stats,
           NEW r
    PROVE  StatsOK(PoWith(stats, v, FreshStats(r)), facts, C)
  <1> DEFINE n == PoWith(stats, v, FreshStats(r))
  <1>1. /\ DOMAIN n = DOMAIN stats \cup {v} /\ n[v] = FreshStats(r)
        /\ \A w \in DOMAIN stats : n[w] = stats[w]
    BY DEF PoWith
  <1> HIDE DEF n
  <1>2. \A w \in DOMAIN stats : AppOK(stats[w], facts, w, C)
    BY StatsSame
  <1>3. /\ DOMAIN n[v] = StatsFields /\ n[v].active = 0
        /\ n[v].users = <<>> /\ n[v].hosts = <<>>
    BY <1>1 DEF FreshStats, StatsFields
  <1>4. \A d \in DOMAIN facts : facts[d].app # v
    BY DEF StatsOK
  <1>5. n[v].active = Cardinality(AllOf(facts, v))
    BY <1>3, <1>4, FS_EmptySet, Zenon DEF AllOf
  <1>6. ListsOK(n[v].users, facts, v, "user", C) /\ ListsOK(n[v].hosts, facts, v, "host", C)
    <2>1. DOMAIN n[v].users = {} /\ DOMAIN n[v].hosts = {}
      BY <1>3
    <2> QED
      BY <1>4, <2>1 DEF ListsOK
  <1>7. \A w \in DOMAIN n : AppOK(n[w], facts, w, C)
    BY <1>1, <1>2, <1>3, <1>5, <1>6 DEF AppOK
  <1>8. \A d \in DOMAIN facts : facts[d].app \in DOMAIN n
    BY <1>1 DEF StatsOK
  <1>9. StatsOK(n, facts, C)
    BY <1>7, <1>8, StatsSame
  <1> QED
    BY <1>9 DEF n

-----------------------------------------------------------------------------
(* Names of the vhosts.                                                     *)

\* A vhost is no alias, its aliases lead to it, and the tree has its names.
NamesOK(rules, aliases, tree, patterns) ==
    /\ \A v \in DOMAIN rules : v \notin DOMAIN aliases
    /\ \A v \in DOMAIN rules : \A a \in Range(rules[v].aliases) :
          a \in DOMAIN aliases /\ aliases[a] = v
    /\ patterns => \A v \in DOMAIN rules : TreeNames(v, rules[v].aliases) \subseteq tree

\* create_ruleset refuses names that another vhost has, and replaces the aliases of its own.
LEMMA NamesCreated ==
    ASSUME NEW rules, NEW aliases, NEW tree, NEW patterns, NamesOK(rules, aliases, tree, patterns),
           NEW name, NEW list, name \notin DOMAIN aliases, name \notin Range(list),
           \A a \in Range(list) :
              /\ a \notin DOMAIN rules
              /\ a \in DOMAIN aliases => name \in DOMAIN rules /\ aliases[a] = name,
           NEW rule, rule.aliases = list,
           NEW after, patterns => after = tree \cup TreeNames(name, list)
    PROVE  NamesOK(PoWith(rules, name, rule), AliasesAfter(rules, aliases, name, list), after, patterns)
  <1> DEFINE q == PoWith(rules, name, rule)
             old == IF name \in DOMAIN rules THEN Range(rules[name].aliases) ELSE {}
             kept == PoWithout(aliases, old)
             n == AliasesAfter(rules, aliases, name, list)
  <1>1. /\ DOMAIN q = DOMAIN rules \cup {name} /\ q[name] = rule
        /\ \A v \in DOMAIN rules : v # name => q[v] = rules[v]
    BY DEF PoWith
  <1>2. DOMAIN kept = DOMAIN aliases \ old /\ \A a \in DOMAIN kept : kept[a] = aliases[a]
    BY DEF PoWithout
  <1>3. /\ DOMAIN n = DOMAIN kept \cup Range(list)
        /\ \A a \in DOMAIN n : n[a] = IF a \in Range(list) THEN name ELSE kept[a]
    BY Zenon DEF AliasesAfter
  <1> HIDE DEF q, kept, n
  <1>4. \A v \in DOMAIN q : v \notin DOMAIN n
    BY <1>1, <1>2, <1>3 DEF NamesOK
  <1>5. ASSUME NEW v \in DOMAIN q, NEW a \in Range(q[v].aliases)
        PROVE  a \in DOMAIN n /\ n[a] = v
    <2>1. CASE v = name
      BY <2>1, <1>1, <1>3, <1>5
    <2>2. CASE v # name
      <3>1. v \in DOMAIN rules /\ a \in DOMAIN aliases /\ aliases[a] = v
        BY <2>2, <1>1, <1>5 DEF NamesOK
      <3>2. a \notin Range(list)
        BY <3>1, <2>2
      <3>3. a \notin old
        BY <3>1, <2>2 DEF NamesOK
      <3> QED
        BY <3>1, <3>2, <3>3, <1>2, <1>3
    <2> QED
      BY <2>1, <2>2
  <1>6. patterns => \A v \in DOMAIN q : TreeNames(v, q[v].aliases) \subseteq after
    <2> SUFFICES ASSUME patterns, NEW v \in DOMAIN q
                 PROVE  TreeNames(v, q[v].aliases) \subseteq after
      OBVIOUS
    <2>1. after = tree \cup TreeNames(name, list)
      OBVIOUS
    <2>2. CASE v = name
      BY <2>1, <2>2, <1>1
    <2>3. CASE v # name
      <3>1. v \in DOMAIN rules /\ q[v] = rules[v]
        BY <2>3, <1>1
      <3> QED
        BY <2>1, <3>1 DEF NamesOK
    <2> QED
      BY <2>2, <2>3
  <1>7. NamesOK(q, n, after, patterns)
    BY <1>4, <1>5, <1>6 DEF NamesOK
  <1> QED
    BY <1>7 DEF q, n

\* policy_delete takes only the vhost's own names out of the tree.
LEMMA NamesDeleted ==
    ASSUME NEW rules, NEW aliases, NEW tree, NEW patterns, NamesOK(rules, aliases, tree, patterns),
           NEW name \in DOMAIN rules
    PROVE  NamesOK(PoWithout(rules, {name}), aliases,
                   tree \ TreeNames(name, rules[name].aliases), patterns)
  <1> DEFINE q == PoWithout(rules, {name})
             gone == TreeNames(name, rules[name].aliases)
  <1>1. DOMAIN q = DOMAIN rules \ {name} /\ \A v \in DOMAIN q : q[v] = rules[v]
    BY DEF PoWithout
  <1> HIDE DEF q
  <1>2. ASSUME NEW v \in DOMAIN q
        PROVE  TreeNames(v, q[v].aliases) \cap gone = {}
    <2>1. v \in DOMAIN rules /\ v # name /\ q[v] = rules[v]
      BY <1>1, <1>2
    <2>2. v \notin gone
      BY <2>1 DEF NamesOK, TreeNames
    <2>3. \A a \in Range(rules[v].aliases) : a \notin gone
      BY <2>1 DEF NamesOK, TreeNames
    <2> HIDE DEF gone
    <2> QED
      BY <2>1, <2>2, <2>3 DEF TreeNames
  <1>3. patterns => \A v \in DOMAIN q : TreeNames(v, q[v].aliases) \subseteq tree \ gone
    BY <1>1, <1>2 DEF NamesOK
  <1>4. NamesOK(q, aliases, tree \ gone, patterns)
    BY <1>1, <1>3, SMTT(30) DEF NamesOK
  <1> QED
    BY <1>4 DEF q

-----------------------------------------------------------------------------
(* The invariant.                                                           *)

\* A connection: incoming ones are counted from their acceptance to their end, and a group is
\* found for them in between; a connector's are not counted.
Place(p, dir) ==
    /\ DOMAIN p = {"at", "group", "counted"} /\ p.counted \in BOOLEAN
    /\ p.at \in {"new", "accepted", "allowed", "denied", "open", "failed", "gone"}
    /\ p.at \in {"new", "accepted", "failed"} => p.group = ""
    /\ dir = "out" => p.group = "" /\ p.counted = FALSE
    /\ dir = "in" /\ p.at \in {"accepted", "allowed", "denied", "open"} => p.counted = TRUE
    /\ p.at \in {"new", "failed", "gone"} => p.counted = FALSE

\* A ruleset has no settings for connectors if there are any.
SettingsOK(cf, rules) ==
    (\E c \in DOMAIN cf.conns : cf.conns[c].dir = "out") =>
        \A v \in DOMAIN rules : "$connector" \notin DOMAIN rules[v].groups

PodFields == {"rules", "stats", "facts", "aliases", "tree"}

\* The database.
DataOK(cf, d) ==
    /\ DOMAIN d = PodFields
    /\ DOMAIN d.facts \subseteq DOMAIN cf.conns
    /\ StatsOK(d.stats, d.facts, DOMAIN cf.conns)
    /\ DOMAIN d.rules \subseteq DOMAIN d.stats
    /\ NamesOK(d.rules, d.aliases, d.tree, cf.patterns)
    /\ SettingsOK(cf, d.rules)

\* The connections.
ConnsOK(cf, p, facts) ==
    /\ DOMAIN p = DOMAIN cf.conns
    /\ \A c \in DOMAIN cf.conns : Place(p[c], cf.conns[c].dir)
    /\ DOMAIN facts = {c \in DOMAIN cf.conns : p[c].group # "" /\ p[c].at # "gone"}

PoInv ==
    /\ pocf \in PoConfigs
    /\ DataOK(pocf, pod)
    /\ ConnsOK(pocf, poc, pod.facts)
    /\ DOMAIN pon = {"connections", "denied", "changes"} /\ SocketsCounted

\* Only connection c moves.
Moves(p, q, c) == DOMAIN q = DOMAIN p /\ \A d \in DOMAIN p : d # c => q[d] = p[d]

\* A connection moves, and the facts about it come or go with its group.
LEMMA ConnsStep ==
    ASSUME NEW cf, NEW p, NEW q, NEW facts, NEW g, ConnsOK(cf, p, facts), NEW c \in DOMAIN cf.conns,
           Moves(p, q, c), Place(q[c], cf.conns[c].dir),
           DOMAIN g = IF q[c].group # "" /\ q[c].at # "gone" THEN DOMAIN facts \cup {c}
                      ELSE DOMAIN facts \ {c}
    PROVE  ConnsOK(cf, q, g)
  <1>1. DOMAIN q = DOMAIN cf.conns /\ \A d \in DOMAIN cf.conns : d # c => q[d] = p[d]
    BY Zenon DEF ConnsOK, Moves
  <1>2. \A d \in DOMAIN cf.conns : Place(q[d], cf.conns[d].dir)
    BY <1>1, Zenon DEF ConnsOK
  <1>3. DOMAIN g = {d \in DOMAIN cf.conns : q[d].group # "" /\ q[d].at # "gone"}
    BY <1>1, Zenon DEF ConnsOK
  <1> QED
    BY <1>1, <1>2, <1>3, Zenon DEF ConnsOK

\* The connections that are counted.
Sockets(cf, p) == {c \in DOMAIN cf.conns : p[c].counted}

\* A connection that does not change sides leaves their number alone.
LEMMA SocketsSame ==
    ASSUME NEW cf, NEW p, NEW q, NEW c \in DOMAIN cf.conns, DOMAIN p = DOMAIN cf.conns,
           Moves(p, q, c), q[c].counted = p[c].counted
    PROVE  Sockets(cf, q) = Sockets(cf, p)
  BY DEF Sockets, Moves

\* One that is accepted adds to it.
LEMMA SocketsMore ==
    ASSUME NEW cf, IsFiniteSet(DOMAIN cf.conns), NEW p, NEW q, NEW c \in DOMAIN cf.conns,
           DOMAIN p = DOMAIN cf.conns, Moves(p, q, c), p[c].counted = FALSE, q[c].counted = TRUE
    PROVE  Cardinality(Sockets(cf, q)) = Cardinality(Sockets(cf, p)) + 1
  <1>1. Sockets(cf, q) = Sockets(cf, p) \cup {c} /\ c \notin Sockets(cf, p)
    BY DEF Sockets, Moves
  <1>2. IsFiniteSet(Sockets(cf, p))
    BY FS_Subset DEF Sockets
  <1> QED
    BY <1>1, <1>2, FS_AddElement, Zenon

\* One that ends takes from it.
LEMMA SocketsLess ==
    ASSUME NEW cf, IsFiniteSet(DOMAIN cf.conns), NEW p, NEW q, NEW c \in DOMAIN cf.conns,
           DOMAIN p = DOMAIN cf.conns, Moves(p, q, c), p[c].counted = TRUE, q[c].counted = FALSE
    PROVE  Cardinality(Sockets(cf, q)) = Cardinality(Sockets(cf, p)) - 1
  <1>1. Sockets(cf, q) = Sockets(cf, p) \ {c} /\ c \in Sockets(cf, p)
    BY DEF Sockets, Moves
  <1>2. IsFiniteSet(Sockets(cf, p))
    BY FS_Subset DEF Sockets
  <1> QED
    BY <1>1, <1>2, FS_RemoveElement, ZenonT(40)

\* What the invariant says of connection c.
LEMMA OfConn ==
    ASSUME PoInv, NEW c \in PoConns
    PROVE  /\ pocf.conns[c].dir \in {"in", "out"} /\ IsFiniteSet(DOMAIN pocf.conns)
           /\ c \in DOMAIN pocf.conns /\ DOMAIN poc = DOMAIN pocf.conns
           /\ Place(poc[c], pocf.conns[c].dir)
           /\ c \in DOMAIN pod.facts <=> poc[c].group # "" /\ poc[c].at # "gone"
           /\ pon.connections = Cardinality(Sockets(pocf, poc))
  BY PoConfigsAssumption, ZenonT(40) DEF PoInv, PoConns, ConnsOK, SocketsCounted, Sockets

\* A step of connection c that leaves the database alone.
LEMMA QuietStep ==
    ASSUME PoInv, UNCHANGED <<pocf, pod>>, NEW c \in PoConns, Moves(poc, poc', c),
           Place(poc'[c], pocf.conns[c].dir),
           (poc'[c].group # "" /\ poc'[c].at # "gone") <=> c \in DOMAIN pod.facts,
           DOMAIN pon' = DOMAIN pon, pon'.connections = Cardinality(Sockets(pocf, poc'))
    PROVE  PoInv'
  <1>1. c \in DOMAIN pocf.conns
    BY Zenon DEF PoConns
  <1>2. DOMAIN pod.facts = IF poc'[c].group # "" /\ poc'[c].at # "gone"
                           THEN DOMAIN pod.facts \cup {c} ELSE DOMAIN pod.facts \ {c}
    BY Zenon
  <1>3. ConnsOK(pocf, poc', pod.facts)
    BY <1>1, <1>2, ConnsStep, Zenon DEF PoInv
  <1>4. SocketsCounted'
    BY Zenon DEF SocketsCounted, Sockets, PoConns
  <1>5. pocf' \in PoConfigs /\ DataOK(pocf', pod') /\ ConnsOK(pocf', poc', pod'.facts)
    BY <1>3, Zenon DEF PoInv
  <1> QED
    BY <1>4, <1>5, Zenon DEF PoInv

\* qd_policy_socket_accept counts a connection or refuses it.
LEMMA AcceptOK ==
    ASSUME PoInv, UNCHANGED pocf, NEW c \in PoConns, qd_policy_socket_accept(c)
    PROVE  PoInv'
  <1>1. /\ pocf.conns[c].dir = "in" /\ IsFiniteSet(DOMAIN pocf.conns)
        /\ c \in DOMAIN pocf.conns /\ DOMAIN poc = DOMAIN pocf.conns /\ Place(poc[c], "in")
        /\ c \notin DOMAIN pod.facts
        /\ pon.connections = Cardinality(Sockets(pocf, poc))
        /\ poc[c].counted = FALSE /\ poc[c].at = "new" /\ poc[c].group = ""
    BY OfConn, Zenon DEF qd_policy_socket_accept, Place
  <1>2. DOMAIN pon = {"connections", "denied", "changes"} /\ UNCHANGED pod
    BY DEF PoInv, qd_policy_socket_accept
  <1>3. CASE pon.connections < pocf.max
    <2>1. /\ pon' = [pon EXCEPT !.connections = @ + 1, !.denied = @]
          /\ poc' = [poc EXCEPT ![c].at = "accepted", ![c].counted = TRUE]
      BY <1>3, Zenon DEF qd_policy_socket_accept
    <2>2. Moves(poc, poc', c) /\ poc'[c] = [poc[c] EXCEPT !.at = "accepted", !.counted = TRUE]
      BY <1>1, <2>1, Zenon DEF Moves
    <2>3. /\ DOMAIN poc'[c] = {"at", "group", "counted"}
          /\ poc'[c].at = "accepted" /\ poc'[c].counted = TRUE /\ poc'[c].group = ""
      BY <1>1, <2>2, Zenon DEF Place
    <2>4. DOMAIN pon' = DOMAIN pon /\ pon'.connections = pon.connections + 1
      BY <1>2, <2>1
    <2>5. pon'.connections = Cardinality(Sockets(pocf, poc'))
      <3>1. poc[c].counted = FALSE /\ poc'[c].counted = TRUE /\ Moves(poc, poc', c)
        BY <1>1, <2>2, <2>3, Zenon
      <3>2. c \in DOMAIN pocf.conns /\ DOMAIN poc = DOMAIN pocf.conns /\ IsFiniteSet(DOMAIN pocf.conns)
        BY <1>1, Zenon
      <3>3. Cardinality(Sockets(pocf, poc')) = Cardinality(Sockets(pocf, poc)) + 1
        BY <3>1, <3>2, SocketsMore, Zenon
      <3> QED
        BY <1>1, <2>4, <3>3, Zenon
    <2>6. Place(poc'[c], "in")
      BY <2>3, Zenon DEF Place
    <2> QED
      BY <1>1, <1>2, <2>2, <2>3, <2>4, <2>5, <2>6, QuietStep, Zenon
  <1>4. CASE ~(pon.connections < pocf.max)
    <2>7. (pon.connections < pocf.max) = FALSE
      BY <1>4
    <2>1. /\ pon' = [pon EXCEPT !.connections = @, !.denied = @ + 1]
          /\ poc' = [poc EXCEPT ![c].at = "failed", ![c].counted = FALSE]
      BY <1>4, <2>7, Zenon DEF qd_policy_socket_accept
    <2>2. Moves(poc, poc', c) /\ poc'[c] = [poc[c] EXCEPT !.at = "failed", !.counted = FALSE]
      BY <1>1, <2>1, Zenon DEF Moves
    <2>3. /\ DOMAIN poc'[c] = {"at", "group", "counted"}
          /\ poc'[c].at = "failed" /\ poc'[c].counted = FALSE /\ poc'[c].group = ""
      BY <1>1, <2>2, Zenon DEF Place
    <2>4. DOMAIN pon' = DOMAIN pon /\ pon'.connections = pon.connections
      BY <1>2, <2>1
    <2>5. pon'.connections = Cardinality(Sockets(pocf, poc'))
      <3>1. poc'[c].counted = poc[c].counted /\ Moves(poc, poc', c)
        BY <1>1, <2>2, <2>3, Zenon
      <3>2. c \in DOMAIN pocf.conns /\ DOMAIN poc = DOMAIN pocf.conns
        BY <1>1, Zenon
      <3>3. Sockets(pocf, poc') = Sockets(pocf, poc)
        BY <3>1, <3>2, SocketsSame, Zenon
      <3> QED
        BY <1>1, <2>4, <3>3, Zenon
    <2>6. Place(poc'[c], "in")
      BY <2>3, Zenon DEF Place
    <2> QED
      BY <1>1, <1>2, <2>2, <2>3, <2>4, <2>5, <2>6, QuietStep, ZenonT(40)
  <1> QED
    BY <1>3, <1>4

\* A connection that stays counted or uncounted.
LEMMA CountKept ==
    ASSUME PoInv, NEW c \in PoConns, Moves(poc, poc', c), poc'[c].counted = poc[c].counted
    PROVE  pon.connections = Cardinality(Sockets(pocf, poc'))
  <1>1. /\ c \in DOMAIN pocf.conns /\ DOMAIN poc = DOMAIN pocf.conns
        /\ pon.connections = Cardinality(Sockets(pocf, poc))
    BY OfConn, Zenon
  <1>2. Sockets(pocf, poc') = Sockets(pocf, poc)
    BY <1>1, SocketsSame, Zenon
  <1> QED
    BY <1>1, <1>2, Zenon

\* A connector's connection is made.
LEMMA ConnectedOK ==
    ASSUME PoInv, UNCHANGED pocf, NEW c \in PoConns, PoConnected(c)
    PROVE  PoInv'
  <1>1. /\ pocf.conns[c].dir = "out" /\ DOMAIN poc = DOMAIN pocf.conns /\ c \in DOMAIN poc
        /\ Place(poc[c], "out") /\ c \notin DOMAIN pod.facts /\ poc[c].group = ""
    BY OfConn, Zenon DEF PoConnected, Place
  <1>2. UNCHANGED <<pod, pon>> /\ poc' = [poc EXCEPT ![c].at = "accepted"]
    BY DEF PoConnected
  <1>3. Moves(poc, poc', c) /\ poc'[c] = [poc[c] EXCEPT !.at = "accepted"]
    BY <1>1, <1>2, Zenon DEF Moves
  <1>4. /\ DOMAIN poc'[c] = {"at", "group", "counted"} /\ poc'[c].counted = poc[c].counted
        /\ poc'[c].at = "accepted" /\ poc'[c].group = ""
    BY <1>1, <1>3, Zenon DEF Place
  <1>5. Place(poc'[c], "out")
    BY <1>1, <1>4, Zenon DEF Place
  <1>6. pon.connections = Cardinality(Sockets(pocf, poc'))
    BY <1>3, <1>4, CountKept, Zenon
  <1> QED
    BY <1>1, <1>2, <1>3, <1>4, <1>5, <1>6, QuietStep, ZenonT(40)

\* The second question changes only where the connection is.
LEMMA FetchOK ==
    ASSUME PoInv, UNCHANGED pocf, NEW c \in PoConns, qd_policy_open_fetch_settings(c)
    PROVE  PoInv'
  <1>1. /\ DOMAIN poc = DOMAIN pocf.conns /\ c \in DOMAIN poc
        /\ Place(poc[c], pocf.conns[c].dir) /\ poc[c].at = "allowed"
        /\ c \in DOMAIN pod.facts <=> poc[c].group # ""
    BY OfConn, Zenon DEF qd_policy_open_fetch_settings
  <1>2. PICK a \in {"open", "denied"} : poc' = [poc EXCEPT ![c].at = a]
    BY Zenon DEF qd_policy_open_fetch_settings
  <1>3. UNCHANGED <<pod, pon>>
    BY DEF qd_policy_open_fetch_settings
  <1>4. Moves(poc, poc', c) /\ poc'[c] = [poc[c] EXCEPT !.at = a]
    BY <1>1, <1>2, Zenon DEF Moves
  <1>5. /\ DOMAIN poc'[c] = {"at", "group", "counted"} /\ poc'[c].counted = poc[c].counted
        /\ poc'[c].at = a /\ poc'[c].group = poc[c].group
    BY <1>1, <1>4, Zenon DEF Place
  <1>6. Place(poc'[c], pocf.conns[c].dir)
    BY <1>1, <1>2, <1>5, Zenon DEF Place
  <1>7. pon.connections = Cardinality(Sockets(pocf, poc'))
    BY <1>4, <1>5, CountKept
  <1>8. (poc'[c].group # "" /\ poc'[c].at # "gone") <=> c \in DOMAIN pod.facts
    BY <1>1, <1>2, <1>5, Zenon
  <1> QED
    BY <1>3, <1>4, <1>6, <1>7, <1>8, QuietStep, Zenon

\* A vhost that is found has rules.
LEMMA VhostKnown ==
    ASSUME NEW x, lookup_vhost_alias(x) # NoVhost
    PROVE  lookup_vhost_alias(x) \in DOMAIN pod.rules
  BY DEF lookup_vhost_alias

\* No ruleset has settings for connectors.
LEMMA ConnectorOK ==
    ASSUME PoInv, UNCHANGED pocf, NEW c \in PoConns, qd_policy_amqp_open_connector(c)
    PROVE  PoInv'
  <1>1. /\ pocf.conns[c].dir = "out" /\ DOMAIN poc = DOMAIN pocf.conns /\ c \in DOMAIN poc
        /\ Place(poc[c], "out") /\ c \notin DOMAIN pod.facts
        /\ poc[c].group = "" /\ poc[c].counted = FALSE
    BY OfConn, Zenon DEF qd_policy_amqp_open_connector, Place
  <1>2. \A v \in DOMAIN pod.rules : "$connector" \notin DOMAIN pod.rules[v].groups
    BY <1>1, Zenon DEF PoInv, DataOK, SettingsOK, PoConns
  <1>3. lookup_settings(pocf.conns[c].vhost, "$connector") = FALSE
    BY <1>2, VhostKnown DEF lookup_settings
  <1>4. poc' = [poc EXCEPT ![c].at = "denied", ![c].counted = FALSE] /\ UNCHANGED <<pod, pon>>
    BY <1>3, Zenon DEF qd_policy_amqp_open_connector
  <1>5. Moves(poc, poc', c) /\ poc'[c] = [poc[c] EXCEPT !.at = "denied", !.counted = FALSE]
    BY <1>1, <1>4, Zenon DEF Moves
  <1>6. /\ DOMAIN poc'[c] = {"at", "group", "counted"} /\ poc'[c].counted = FALSE
        /\ poc'[c].at = "denied" /\ poc'[c].group = ""
    BY <1>1, <1>5, Zenon DEF Place
  <1>7. Place(poc'[c], "out")
    BY <1>6, Zenon DEF Place
  <1>8. pon.connections = Cardinality(Sockets(pocf, poc'))
    BY <1>1, <1>5, <1>6, CountKept, ZenonT(40)
  <1> QED
    BY <1>1, <1>4, <1>5, <1>6, <1>7, <1>8, QuietStep, ZenonT(40)

\* A step of connection c that changes the database with it.
LEMMA DataStep ==
    ASSUME PoInv, UNCHANGED pocf, NEW c \in PoConns, Moves(poc, poc', c),
           Place(poc'[c], pocf.conns[c].dir), DataOK(pocf, pod'),
           DOMAIN pod'.facts = IF poc'[c].group # "" /\ poc'[c].at # "gone"
                               THEN DOMAIN pod.facts \cup {c} ELSE DOMAIN pod.facts \ {c},
           DOMAIN pon' = DOMAIN pon, pon'.connections = Cardinality(Sockets(pocf, poc'))
    PROVE  PoInv'
  <1>1. c \in DOMAIN pocf.conns /\ ConnsOK(pocf, poc, pod.facts)
    BY ZenonT(40) DEF PoInv, PoConns
  <1>2. ConnsOK(pocf, poc', pod'.facts)
    BY <1>1, ConnsStep, Zenon
  <1> QED
    BY <1>2, ZenonT(40) DEF PoInv, SocketsCounted, Sockets, PoConns

\* lookup_user notes a connection that it admits, under a vhost that has statistics.
LEMMA LookupData ==
    ASSUME PoInv, NEW c \in PoConns, c \notin DOMAIN pod.facts
    PROVE  /\ DataOK(pocf, lookup_user(c))
           /\ DOMAIN lookup_user(c).facts = IF ApprovedGroup(c) # "" THEN DOMAIN pod.facts \cup {c}
                                            ELSE DOMAIN pod.facts
  <1> DEFINE w == pocf.conns[c]
             v == lookup_vhost_alias(w.vhost)
             r == [user |-> w.user, host |-> w.host, app |-> v]
             stats == [pod.stats EXCEPT ![v] = Counted(@, c, w.user, w.host)]
             facts == PoWith(pod.facts, c, r)
  <1>1. /\ DataOK(pocf, pod) /\ c \in DOMAIN pocf.conns /\ IsFiniteSet(DOMAIN pocf.conns)
        /\ DOMAIN pod = PodFields
    BY OfConn, Zenon DEF PoInv, DataOK
  <1>2. CASE ApprovedGroup(c) = ""
    BY <1>1, <1>2, ZenonT(40) DEF lookup_user
  <1>3. CASE ApprovedGroup(c) # ""
    <2>1. v # NoVhost
      BY <1>3, Zenon DEF ApprovedGroup
    <2>2. v \in DOMAIN pod.stats
      BY <1>1, <2>1, VhostKnown DEF DataOK
    <2>3. lookup_user(c) = [pod EXCEPT !.stats = stats, !.facts = facts]
      BY <1>1, <1>3, Zenon DEF lookup_user, PodFields
    <2> HIDE DEF v, w
    <2>4. StatsOK(stats, facts, DOMAIN pocf.conns)
      BY <1>1, <2>2, Admitted DEF DataOK
    <2>5. DOMAIN facts = DOMAIN pod.facts \cup {c} /\ DOMAIN stats = DOMAIN pod.stats
      BY DEF PoWith
    <2> HIDE DEF stats, facts
    <2>6. /\ DOMAIN lookup_user(c) = PodFields
          /\ lookup_user(c).stats = stats /\ lookup_user(c).facts = facts
          /\ lookup_user(c).rules = pod.rules /\ lookup_user(c).aliases = pod.aliases
          /\ lookup_user(c).tree = pod.tree
      BY <1>1, <2>3 DEF PodFields
    <2> QED
      BY <1>1, <1>3, <2>4, <2>5, <2>6, ZenonT(40) DEF DataOK
  <1> QED
    BY <1>2, <1>3, ZenonT(40)

\* The first question.
LEMMA LookupOK ==
    ASSUME PoInv, UNCHANGED pocf, NEW c \in PoConns, qd_policy_open_lookup_user(c)
    PROVE  PoInv'
  <1> DEFINE g == ApprovedGroup(c)
             a == IF g = "" THEN "denied" ELSE "allowed"
  <1>1. /\ pocf.conns[c].dir = "in" /\ DOMAIN poc = DOMAIN pocf.conns /\ c \in DOMAIN poc
        /\ Place(poc[c], "in") /\ poc[c].at = "accepted" /\ c \notin DOMAIN pod.facts
    BY OfConn, Zenon DEF qd_policy_open_lookup_user, Place
  <1>2. /\ poc' = [poc EXCEPT ![c].group = g, ![c].at = a]
        /\ pod' = lookup_user(c) /\ UNCHANGED pon
    BY Zenon DEF qd_policy_open_lookup_user
  <1>3. /\ DataOK(pocf, pod')
        /\ DOMAIN pod'.facts = IF g # "" THEN DOMAIN pod.facts \cup {c} ELSE DOMAIN pod.facts
    BY <1>1, <1>2, LookupData, Zenon
  <1>4. a \in {"denied", "allowed"}
    OBVIOUS
  <1> HIDE DEF g, a
  <1>5. Moves(poc, poc', c) /\ poc'[c] = [poc[c] EXCEPT !.group = g, !.at = a]
    BY <1>1, <1>2, Zenon DEF Moves
  <1>6. /\ DOMAIN poc'[c] = {"at", "group", "counted"} /\ poc'[c].counted = poc[c].counted
        /\ poc'[c].at = a /\ poc'[c].group = g
    BY <1>1, <1>5, Zenon DEF Place
  <1>7. Place(poc'[c], "in")
    BY <1>1, <1>4, <1>6, Zenon DEF Place
  <1>8. pon'.connections = Cardinality(Sockets(pocf, poc')) /\ DOMAIN pon' = DOMAIN pon
    BY <1>2, <1>5, <1>6, CountKept, ZenonT(40)
  <1>9. DOMAIN pod'.facts = IF poc'[c].group # "" /\ poc'[c].at # "gone"
                            THEN DOMAIN pod.facts \cup {c} ELSE DOMAIN pod.facts \ {c}
    BY <1>1, <1>3, <1>4, <1>6, Zenon
  <1> QED
    BY <1>1, <1>3, <1>5, <1>7, <1>8, <1>9, DataStep, ZenonT(40)

\* close_connection takes back what lookup_user noted.
LEMMA CloseData ==
    ASSUME PoInv, NEW c \in PoConns
    PROVE  DataOK(pocf, close_connection(c)) /\ DOMAIN close_connection(c).facts = DOMAIN pod.facts \ {c}
  <1> DEFINE f == pod.facts[c]
             stats == [pod.stats EXCEPT ![f.app] = disconnect(@, c, f.user, f.host)]
             facts == PoWithout(pod.facts, {c})
  <1>1. /\ DataOK(pocf, pod) /\ IsFiniteSet(DOMAIN pocf.conns) /\ DOMAIN pod = PodFields
    BY OfConn, Zenon DEF PoInv, DataOK
  <1>2. CASE c \notin DOMAIN pod.facts
    BY <1>1, <1>2, SMTT(30) DEF close_connection
  <1>3. CASE c \in DOMAIN pod.facts
    <2>1. close_connection(c) = [pod EXCEPT !.stats = stats, !.facts = facts]
      BY <1>1, <1>3, SMTT(30) DEF close_connection, PodFields
    <2>2. StatsOK(stats, facts, DOMAIN pocf.conns)
      BY <1>1, <1>3, ClosedOff, Zenon DEF DataOK
    <2>3. DOMAIN facts = DOMAIN pod.facts \ {c} /\ DOMAIN stats = DOMAIN pod.stats
      BY DEF PoWithout
    <2> HIDE DEF stats, facts
    <2>4. /\ DOMAIN close_connection(c) = PodFields
          /\ close_connection(c).stats = stats /\ close_connection(c).facts = facts
          /\ close_connection(c).rules = pod.rules /\ close_connection(c).aliases = pod.aliases
          /\ close_connection(c).tree = pod.tree
      BY <1>1, <2>1 DEF PodFields
    <2> QED
      BY <1>1, <2>2, <2>3, <2>4 DEF DataOK
  <1> QED
    BY <1>2, <1>3

\* A connection ends.
LEMMA FreeOK ==
    ASSUME PoInv, UNCHANGED pocf, NEW c \in PoConns, qd_connection_free(c)
    PROVE  PoInv'
  <1>1. /\ pocf.conns[c].dir \in {"in", "out"} /\ DOMAIN poc = DOMAIN pocf.conns /\ c \in DOMAIN poc
        /\ IsFiniteSet(DOMAIN pocf.conns) /\ c \in DOMAIN pocf.conns
        /\ Place(poc[c], pocf.conns[c].dir) /\ poc[c].counted \in BOOLEAN
        /\ DOMAIN pon = {"connections", "denied", "changes"}
        /\ pon.connections = Cardinality(Sockets(pocf, poc))
    BY OfConn, Zenon DEF Place, PoInv
  <1>2. poc' = [poc EXCEPT ![c].at = "gone", ![c].counted = FALSE]
    BY DEF qd_connection_free
  <1>3. Moves(poc, poc', c) /\ poc'[c] = [poc[c] EXCEPT !.at = "gone", !.counted = FALSE]
    BY <1>1, <1>2, Zenon DEF Moves
  <1>4. /\ DOMAIN poc'[c] = {"at", "group", "counted"} /\ poc'[c].counted = FALSE
        /\ poc'[c].at = "gone" /\ poc'[c].group = poc[c].group
    BY <1>1, <1>3, Zenon DEF Place
  <1>5. Place(poc'[c], pocf.conns[c].dir)
    BY <1>1, <1>4, Zenon DEF Place
  <1>6. CASE poc[c].counted = TRUE
    <2>1. pod' = close_connection(c) /\ pon' = [pon EXCEPT !.connections = @ - 1]
      BY <1>6, Zenon DEF qd_connection_free
    <2>2. DOMAIN pon' = DOMAIN pon /\ pon'.connections = pon.connections - 1
      BY <1>1, <2>1
    <2>3. Cardinality(Sockets(pocf, poc')) = Cardinality(Sockets(pocf, poc)) - 1
      <3>1. /\ IsFiniteSet(DOMAIN pocf.conns) /\ c \in DOMAIN pocf.conns
            /\ DOMAIN poc = DOMAIN pocf.conns
        BY <1>1
      <3>2. Moves(poc, poc', c) /\ poc[c].counted = TRUE /\ poc'[c].counted = FALSE
        BY <1>3, <1>4, <1>6
      <3> QED
        BY <3>1, <3>2, SocketsLess, ZenonT(40)
    <2>4. DataOK(pocf, pod') /\ DOMAIN pod'.facts = DOMAIN pod.facts \ {c}
      BY <2>1, CloseData
    <2>5. pon'.connections = Cardinality(Sockets(pocf, poc'))
      BY <1>1, <2>2, <2>3
    <2>6. DOMAIN pod'.facts = IF poc'[c].group # "" /\ poc'[c].at # "gone"
                              THEN DOMAIN pod.facts \cup {c} ELSE DOMAIN pod.facts \ {c}
      BY <1>4, <2>4
    <2> QED
      BY <1>3, <1>5, <2>2, <2>4, <2>5, <2>6, DataStep, Zenon
  <1>7. CASE poc[c].counted = FALSE
    <2>1. UNCHANGED <<pod, pon>>
      BY <1>7, Zenon DEF qd_connection_free
    <2>2. c \notin DOMAIN pod.facts
      <3>1. c \in DOMAIN pod.facts <=> poc[c].group # "" /\ poc[c].at # "gone"
        BY OfConn, Zenon
      <3> QED
        BY <1>1, <1>7, <3>1, Zenon DEF Place
    <2>3. pon.connections = Cardinality(Sockets(pocf, poc'))
      BY <1>3, <1>4, <1>7, CountKept, Zenon
    <2> QED
      BY <1>3, <1>4, <1>5, <2>1, <2>2, <2>3, QuietStep, ZenonT(40)
  <1> QED
    BY <1>1, <1>6, <1>7, ZenonT(40)

-----------------------------------------------------------------------------
(* Management.                                                              *)

\* A ruleset as it is kept.
Kept(raw) == PoWith(compile_access_ruleset(raw).rules, "u2g", compile_access_ruleset(raw).u2g)

\* Compiling a ruleset leaves its aliases and the names of its groups alone; a vhost is not an
\* alias of itself.
LEMMA Compiled ==
    ASSUME NEW raw, {"name", "aliases", "groups"} \subseteq DOMAIN raw
    PROVE  /\ Kept(raw).aliases = raw.aliases
           /\ DOMAIN Kept(raw).groups = DOMAIN raw.groups
           /\ compile_access_ruleset(raw).ok => raw.name \notin Range(raw.aliases)
  <1> DEFINE groups == [g \in DOMAIN raw.groups |-> compile_app_settings(raw.groups[g])]
             rules == [raw EXCEPT !.groups = groups]
  <1>1. compile_access_ruleset(raw).rules = rules
    BY DEF compile_access_ruleset
  <1>2. compile_access_ruleset(raw).ok => raw.name \notin Range(raw.aliases)
    BY DEF compile_access_ruleset
  <1>3. DOMAIN groups = DOMAIN raw.groups
    OBVIOUS
  <1> HIDE DEF groups
  <1>4. /\ "aliases" \in DOMAIN rules /\ "groups" \in DOMAIN rules
        /\ rules.aliases = raw.aliases /\ rules.groups = groups
    OBVIOUS
  <1> HIDE DEF rules
  <1>5. Kept(raw).aliases = rules.aliases /\ Kept(raw).groups = rules.groups
    BY <1>1, <1>4, SMTT(30) DEF Kept, PoWith
  <1> QED
    BY <1>2, <1>3, <1>4, <1>5

\* The statistics go on when a vhost is updated, or created again after it was deleted.
LEMMA CreateStats ==
    ASSUME NEW stats, NEW facts, NEW C, StatsOK(stats, facts, C), NEW rules,
           DOMAIN rules \subseteq DOMAIN stats, NEW raw
    PROVE  /\ StatsOK(StatsAfter(rules, stats, raw), facts, C)
           /\ DOMAIN StatsAfter(rules, stats, raw) = DOMAIN stats \cup {raw.name}
  <1> DEFINE after == StatsAfter(rules, stats, raw)
  <1>1. CASE raw.name \in DOMAIN rules
    <2>1. raw.name \in DOMAIN stats /\ after = [stats EXCEPT ![raw.name] = update_ruleset(@, raw)]
      BY <1>1 DEF StatsAfter
    <2>2. StatsOK([stats EXCEPT ![raw.name] = update_ruleset(@, raw)], facts, C)
      BY <2>1, LimitsUpdated, Zenon
    <2> QED
      BY <2>1, <2>2
  <1>2. CASE raw.name \notin DOMAIN rules /\ raw.name \in DOMAIN stats
    BY <1>2 DEF StatsAfter
  <1>3. CASE raw.name \notin DOMAIN rules /\ raw.name \notin DOMAIN stats
    <2>1. after = PoWith(stats, raw.name, FreshStats(raw))
      BY <1>3 DEF StatsAfter
    <2>2. DOMAIN after = DOMAIN stats \cup {raw.name}
      BY <2>1 DEF PoWith
    <2> QED
      BY <1>3, <2>1, <2>2, StatsCreated
  <1> QED
    BY <1>1, <1>2, <1>3, SMTT(30)

\* Management leaves the connections and their number alone.
LEMMA ManagedStep ==
    ASSUME PoInv, UNCHANGED <<pocf, poc>>, DataOK(pocf, pod'), pod'.facts = pod.facts,
           pon' = [pon EXCEPT !.changes = @ + 1]
    PROVE  PoInv'
  <1>1. DOMAIN pon' = DOMAIN pon /\ pon'.connections = pon.connections
    BY DEF PoInv
  <1> QED
    BY <1>1 DEF PoInv, SocketsCounted, PoConns

\* A ruleset is created or updated.
LEMMA CreateOK ==
    ASSUME PoInv, UNCHANGED pocf, NEW i \in DOMAIN pocf.rules, create_ruleset(pocf.rules[i])
    PROVE  PoInv'
  <1> DEFINE raw == pocf.rules[i]
             list == raw.aliases
             rules == PoWith(pod.rules, raw.name, Kept(raw))
             aliases == AliasesAfter(pod.rules, pod.aliases, raw.name, list)
             tree == IF pocf.patterns THEN pod.tree \cup TreeNames(raw.name, list) ELSE pod.tree
             stats == StatsAfter(pod.rules, pod.stats, raw)
  <1>1. /\ DataOK(pocf, pod) /\ DOMAIN pod = PodFields
        /\ {"name", "aliases", "groups"} \subseteq DOMAIN raw
        /\ (\E c \in DOMAIN pocf.conns : pocf.conns[c].dir = "out") =>
              "$connector" \notin DOMAIN raw.groups
    BY PoConfigsAssumption, Zenon DEF PoInv, DataOK
  <1>2. /\ compile_access_ruleset(raw).ok /\ AliasesFree(raw.name, list)
        /\ pod' = [pod EXCEPT !.rules = rules, !.aliases = aliases, !.tree = tree, !.stats = stats]
        /\ pon' = [pon EXCEPT !.changes = @ + 1] /\ UNCHANGED poc
    <2>1. pod' = [pod EXCEPT !.rules = rules, !.aliases = aliases, !.tree = tree, !.stats = stats]
      BY <1>1 DEF create_ruleset, Kept, PodFields
    <2>2. /\ compile_access_ruleset(raw).ok /\ AliasesFree(raw.name, list)
          /\ pon' = [pon EXCEPT !.changes = @ + 1] /\ UNCHANGED poc
      BY Zenon DEF create_ruleset
    <2> QED
      BY <2>1, <2>2
  <1>3. /\ raw.name \notin Range(list) /\ Kept(raw).aliases = list
        /\ DOMAIN Kept(raw).groups = DOMAIN raw.groups
    BY <1>1, <1>2, Compiled, SMTT(30)
  <1> HIDE DEF raw
  <1>4. NamesOK(rules, aliases, tree, pocf.patterns)
    <2>1. raw.name \notin DOMAIN pod.aliases
      BY <1>2 DEF AliasesFree
    <2>2. \A a \in Range(list) :
             /\ a \notin DOMAIN pod.rules
             /\ a \in DOMAIN pod.aliases => raw.name \in DOMAIN pod.rules /\ pod.aliases[a] = raw.name
      BY <1>2, SMTT(30) DEF AliasesFree, Range
    <2>3. NamesOK(pod.rules, pod.aliases, pod.tree, pocf.patterns)
      BY <1>1, SMTT(30) DEF DataOK
    <2>4. pocf.patterns => tree = pod.tree \cup TreeNames(raw.name, list)
      BY SMTT(30)
    <2> HIDE DEF list, tree
    <2> QED
      BY <1>3, <2>1, <2>2, <2>3, <2>4, NamesCreated, Zenon
  <1>5. /\ StatsOK(stats, pod.facts, DOMAIN pocf.conns)
        /\ DOMAIN stats = DOMAIN pod.stats \cup {raw.name}
    <2>1. StatsOK(pod.stats, pod.facts, DOMAIN pocf.conns) /\ DOMAIN pod.rules \subseteq DOMAIN pod.stats
      BY <1>1 DEF DataOK
    <2>2. /\ StatsOK(StatsAfter(pod.rules, pod.stats, raw), pod.facts, DOMAIN pocf.conns)
          /\ DOMAIN StatsAfter(pod.rules, pod.stats, raw) = DOMAIN pod.stats \cup {raw.name}
      BY <2>1, CreateStats, SMTT(30), ZenonT(40)
    <2> QED
      BY <2>2, Zenon
  <1>6. DOMAIN rules = DOMAIN pod.rules \cup {raw.name}
    BY DEF PoWith
  <1>7. SettingsOK(pocf, rules)
    BY <1>1, <1>3, Zenon DEF DataOK, SettingsOK, PoWith
  <1> HIDE DEF list, rules, aliases, tree, stats
  <1>8. /\ DOMAIN pod' = PodFields /\ pod'.rules = rules /\ pod'.aliases = aliases
        /\ pod'.tree = tree /\ pod'.stats = stats /\ pod'.facts = pod.facts
    BY <1>1, <1>2 DEF PodFields
  <1>9. DataOK(pocf, pod')
    BY <1>1, <1>4, <1>5, <1>6, <1>7, <1>8, SMTT(30) DEF DataOK
  <1> QED
    BY <1>2, <1>8, <1>9, ManagedStep, SMTT(30)

\* A ruleset is deleted.
LEMMA DeleteOK ==
    ASSUME PoInv, UNCHANGED pocf, NEW name \in DOMAIN pod.rules, policy_delete(name)
    PROVE  PoInv'
  <1> DEFINE rules == PoWithout(pod.rules, {name})
             tree == pod.tree \ TreeNames(name, pod.rules[name].aliases)
  <1>1. DataOK(pocf, pod) /\ DOMAIN pod = PodFields
    BY DEF PoInv, DataOK
  <1>2. /\ pod' = [pod EXCEPT !.rules = rules, !.tree = tree]
        /\ pon' = [pon EXCEPT !.changes = @ + 1] /\ UNCHANGED poc
    BY <1>1, SMTT(30) DEF policy_delete, PodFields
  <1>3. NamesOK(rules, pod.aliases, tree, pocf.patterns)
    BY <1>1, NamesDeleted, Zenon DEF DataOK
  <1>4. DOMAIN rules \subseteq DOMAIN pod.rules /\ SettingsOK(pocf, rules)
    BY <1>1 DEF DataOK, SettingsOK, PoWithout
  <1> HIDE DEF rules, tree
  <1>5. /\ DOMAIN pod' = PodFields /\ pod'.rules = rules /\ pod'.aliases = pod.aliases
        /\ pod'.tree = tree /\ pod'.stats = pod.stats /\ pod'.facts = pod.facts
    BY <1>1, <1>2, SMTT(30) DEF PodFields
  <1>6. DataOK(pocf, pod')
    BY <1>1, <1>3, <1>4, <1>5, SMTT(30) DEF DataOK
  <1> QED
    BY <1>2, <1>5, <1>6, ManagedStep, SMTT(30)

-----------------------------------------------------------------------------
(* The theorem.                                                             *)

\* Nothing is counted at first.
LEMMA PoInitOK ==
    ASSUME PoInit
    PROVE  PoInv
  <1>1. /\ pocf \in PoConfigs /\ PoConns = DOMAIN pocf.conns
        /\ pod = [rules |-> <<>>, stats |-> <<>>, facts |-> <<>>, aliases |-> <<>>, tree |-> {}]
        /\ poc = [c \in PoConns |-> [at |-> "new", group |-> "", counted |-> FALSE]]
        /\ pon = [connections |-> 0, denied |-> 0, changes |-> 0]
    BY Zenon DEF PoInit, PoConns
  <1>2. /\ DOMAIN pod = PodFields /\ DOMAIN pod.rules = {} /\ DOMAIN pod.stats = {}
        /\ DOMAIN pod.facts = {}
    <2>1. DOMAIN <<>> = {}
      OBVIOUS
    <2>2. DOMAIN pod = PodFields
      BY <1>1, Zenon DEF PodFields
    <2>3. pod.rules = <<>> /\ pod.stats = <<>> /\ pod.facts = <<>>
      BY <1>1, ZenonT(40)
    <2> QED
      BY <2>1, <2>2, <2>3, Zenon
  <1>3. DataOK(pocf, pod)
    BY <1>2, SMTT(30) DEF DataOK, StatsOK, NamesOK, SettingsOK
  <1>4. \A c \in DOMAIN pocf.conns :
           /\ DOMAIN poc[c] = {"at", "group", "counted"}
           /\ poc[c].at = "new" /\ poc[c].group = "" /\ poc[c].counted = FALSE
    BY <1>1, ZenonT(40)
  <1>5. ConnsOK(pocf, poc, pod.facts)
    <2>1. DOMAIN poc = DOMAIN pocf.conns
      BY <1>1, Zenon
    <2>2. \A c \in DOMAIN pocf.conns : Place(poc[c], pocf.conns[c].dir)
      BY <1>4, Zenon DEF Place
    <2> QED
      BY <1>2, <1>4, <2>1, <2>2, ZenonT(40) DEF ConnsOK
  <1>6. SocketsCounted
    <2>1. {c \in PoConns : poc[c].counted} = {}
      BY <1>1, <1>4, ZenonT(40)
    <2> QED
      BY <1>1, <2>1, FS_EmptySet, ZenonT(40) DEF SocketsCounted
  <1> QED
    BY <1>1, <1>3, <1>5, <1>6, ZenonT(40) DEF PoInv

\* Every step keeps the invariant.
LEMMA PoStepOK ==
    ASSUME PoInv, [PoNext]_povars
    PROVE  PoInv'
  <1>1. CASE UNCHANGED povars
    BY <1>1 DEF PoInv, SocketsCounted, PoConns, povars
  <1>2. ASSUME UNCHANGED pocf, NEW i \in DOMAIN pocf.rules,
               PoCreate(pocf.rules[i]) \/ PoUpdate(pocf.rules[i])
        PROVE  PoInv'
    BY <1>2, CreateOK, Zenon DEF PoCreate, PoUpdate
  <1>3. ASSUME UNCHANGED pocf, NEW name \in DOMAIN pod.rules, policy_delete(name)
        PROVE  PoInv'
    BY <1>3, DeleteOK, SMTT(30)
  <1>4. ASSUME UNCHANGED pocf, NEW c \in PoConns,
               \/ qd_policy_socket_accept(c) \/ PoConnected(c)
               \/ qd_policy_open_lookup_user(c) \/ qd_policy_open_fetch_settings(c)
               \/ qd_policy_amqp_open_connector(c)
               \/ qd_connection_free(c)
        PROVE  PoInv'
    BY <1>4, AcceptOK, ConnectedOK, LookupOK, FetchOK, ConnectorOK, FreeOK, SMTT(30)
  <1> QED
    BY <1>1, <1>2, <1>3, <1>4, ZenonT(40) DEF PoNext

\* The invariant says that the counts are exact and that every name is found.
LEMMA PoInvCounts ==
    ASSUME PoInv
    PROVE  PolicyCounts
  <1>1. SocketsCounted
    BY SMTT(30) DEF PoInv
  <1>2. UsersCounted
    BY ZenonT(40) DEF PoInv, DataOK, ConnsOK, StatsOK, UsersCounted, PoConns
  <1>3. ASSUME NEW v \in DOMAIN pod.rules, NEW n \in TreeNames(v, pod.rules[v].aliases)
        PROVE  lookup_vhost_alias(n) = v
    <2>1. NamesOK(pod.rules, pod.aliases, pod.tree, pocf.patterns)
      BY DEF PoInv, DataOK
    <2>2. pocf.patterns => n \in pod.tree
      BY <1>3, <2>1, SMTT(30) DEF NamesOK
    <2>3. PoGet(pod.aliases, n, n) = v
      BY <1>3, <2>1 DEF NamesOK, TreeNames, PoGet
    <2> QED
      BY <2>2, <2>3, SMTT(30) DEF lookup_vhost_alias
  <1> QED
    BY <1>1, <1>2, <1>3 DEF PolicyCounts, NamesFound

\* However rulesets are created, replaced and deleted between the questions about a connection, and
\* however opening it ends: the sockets counted against maxConnections are those accepted and not
\* closed; the connections counted for a vhost, a user and a host are those that lookup_user admitted
\* and close_connection has not taken back, each once; and a vhost and its aliases find its own rules.
THEOREM CountsStayExact == PoSpec => []PolicyCounts
  <1>1. PoInit => PoInv
    BY PoInitOK
  <1>2. PoInv /\ [PoNext]_povars => PoInv'
    BY PoStepOK
  <1>3. PoInv => PolicyCounts
    BY PoInvCounts
  <1> QED
    BY <1>1, <1>2, <1>3, PTL DEF PoSpec
=============================================================================
