----------------------------- MODULE PathEngine -----------------------------
(***************************************************************************)
(* PathEngine and NodeSet of python/qpid_dispatch_internal/router/path.py  *)
(* as operators: one turn of the loop that computes a shortest path tree,  *)
(* the tree, and the routes distilled from the trees.  Module PathTree runs*)
(* the loop as a state machine.                                            *)
(*                                                                         *)
(* lm[u][v] is the cost in u's link state of the link from u to v, and 0   *)
(* where u's link state does not name v.  Python dicts yield their keys in *)
(* an order of their own; where code walks one, the order is a parameter.  *)
(***************************************************************************)
EXTENDS Integers, Sequences, FiniteSets, SequencesExt

CONSTANT Node

None == -1      \* Python's None: infinite cost or hops, undefined predecessor

-----------------------------------------------------------------------------
(* NodeSet: a sequence of [id, cost], cheapest first, unreached nodes last. *)

NodeSetContains(ns, id) == \E i \in DOMAIN ns : ns[i].id = id

\* set_cost: take the entry out and put it back before the first entry that is
\* unreached, dearer, or as dear with a larger id.
NodeSetCost(ns, id, new) ==
    LET rest == SelectSeq(ns, LAMBDA e : e.id # id)
        Stop(i) == \/ rest[i].cost = None
                   \/ new < rest[i].cost
                   \/ new = rest[i].cost /\ id < rest[i].id
        index == Cardinality({i \in DOMAIN rest : \A j \in 1..i : ~Stop(j)}) + 1
    IN  InsertAt(rest, index, [id |-> id, cost |-> new])

\* The dict of peers of u as a sequence, in every order.
PeerItems(lm, u) == SetToSeqs({v \in Node : lm[u][v] > 0})

\* (mutant: a path as cheap as the known one replaces it)
Relax_LastWins(lm, t, u, v) ==
    LET alt == t.cost[u] + lm[u][v]
    IN  IF NodeSetContains(t.nodes, v) /\ (t.cost[v] = None \/ alt <= t.cost[v])
        THEN [hops  |-> [t.hops EXCEPT ![v] = t.hops[u] + 1],
              cost  |-> [t.cost EXCEPT ![v] = alt],
              prev  |-> [t.prev EXCEPT ![v] = u],
              nodes |-> NodeSetCost(t.nodes, v, alt)]
        ELSE t

\* The inner loop's body for peer v of u: t is the state of the computation.
Relax(lm, t, u, v) ==
    LET alt == t.cost[u] + lm[u][v]
    IN  IF NodeSetContains(t.nodes, v) /\ (t.cost[v] = None \/ alt < t.cost[v])
        THEN [hops  |-> [t.hops EXCEPT ![v] = t.hops[u] + 1],
              cost  |-> [t.cost EXCEPT ![v] = alt],
              prev  |-> [t.prev EXCEPT ![v] = u],
              nodes |-> NodeSetCost(t.nodes, v, alt)]
        ELSE t

\* One turn of the while loop: pop the cheapest node and relax its links.
ResolveFirst(lm, t, items) ==
    LET u == Head(t.nodes).id
    IN  FoldLeft(LAMBDA s, v : Relax(lm, s, u, v),
                 [t EXCEPT !.nodes = Tail(t.nodes)], items)

TreeInit(r, order) ==
    LET start == [v \in Node |-> IF v = r THEN 0 ELSE None]
    IN  [hops  |-> start,
         cost  |-> start,
         prev  |-> [v \in Node |-> None],
         nodes |-> <<[id |-> r, cost |-> 0]>> \o
                   [i \in DOMAIN order |-> [id |-> order[i], cost |-> None]]]

-----------------------------------------------------------------------------
(* The trees as a function of the link states, for the operators below. *)

RECURSIVE RunTree(_, _)
RunTree(lm, t) ==
    IF t.nodes = <<>> \/ t.cost[Head(t.nodes).id] = None
    THEN t
    ELSE RunTree(lm, ResolveFirst(lm, t,
                     SetToSeq({v \in Node : lm[Head(t.nodes).id][v] > 0})))

Tree(lm, r) == RunTree(lm, TreeInit(r, SetToSeq(Node \ {r})))

\* The nodes left in the maps once unreachable nodes and the root are removed.
Keys(t) == {v \in Node : t.prev[v] # None}

\* The first of the nodes left, in the order the dict yields them.
First(order, left) == SelectSeq(order, LAMBDA n : n \in left)[1]

\* calculate_routes: take a destination, walk back to the local node "me"
\* collecting the destinations met, and give them all the last node walked
\* through as their next hop.
RECURSIVE WalkToRoot(_, _, _, _, _)
WalkToRoot(t, me, u, path, left) ==
    LET v == t.prev[u]
    IN  IF v = me THEN [path |-> path, hop |-> u, left |-> left]
        ELSE WalkToRoot(t, me, v, IF v \in left THEN path \cup {v} ELSE path,
                        left \ {v})

RECURSIVE DistillNextHops(_, _, _, _, _)
DistillNextHops(t, me, order, left, next) ==
    IF left = {} THEN next
    ELSE LET u == First(order, left)
             w == WalkToRoot(t, me, u, {u}, left \ {u})
         IN  DistillNextHops(t, me, order, w.left,
                [n \in Node |-> IF n \in w.path THEN w.hop ELSE next[n]])

\* _calculate_valid_origins: collect destinations on the way up to the origin o;
\* on meeting the local node, o is a valid origin of every one collected so far.
RECURSIVE WalkToOrigin(_, _, _, _, _, _, _)
WalkToOrigin(t, me, o, u, path, left, valid) ==
    LET v == t.prev[u]
        grown == IF v \in left /\ v # me THEN path \cup {v} ELSE path
    IN  IF v = o THEN [left |-> left, valid |-> valid]
        ELSE WalkToOrigin(t, me, o, v, grown, left \ {v},
                          IF v = me THEN valid \cup grown ELSE valid)

RECURSIVE DestsThrough(_, _, _, _, _, _)
DestsThrough(t, me, o, order, left, valid) ==
    IF left = {} THEN valid
    ELSE LET u == First(order, left)
             w == WalkToOrigin(t, me, o, u, {u}, left \ {u}, valid)
         IN  DestsThrough(t, me, o, order, w.left, w.valid)

\* For each destination the origins from which the path to it passes through me.
ValidOrigins(tree, me, order) ==
    LET reach == Keys(tree[me])
        through == [o \in reach |->
                      DestsThrough(tree[o], me, o, order, Keys(tree[o]), {})]
    IN  [d \in Node |-> {o \in reach : d \in reach /\ d \in through[o]}]

\* calculate_routes for the local node me; the radius is the hop count of the
\* farthest router.
CalculateRoutes(tree, me, order) ==
    LET t == tree[me]
    IN  [next   |-> DistillNextHops(t, me, order, Keys(t), [n \in Node |-> None]),
         cost   |-> [n \in Node |-> IF n \in Keys(t) THEN t.cost[n] ELSE None],
         valid  |-> ValidOrigins(tree, me, order),
         radius |-> IF Keys(t) = {} THEN 0 ELSE Max({t.hops[n] : n \in Keys(t)})]

=============================================================================
