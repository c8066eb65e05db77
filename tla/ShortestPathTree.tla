-------------------------- MODULE ShortestPathTree --------------------------
(***************************************************************************)
(* What PathEngine._calculate_tree_from_root promises, with its ordered    *)
(* list of unresolved nodes abstracted to a set: one step resolves the     *)
(* unresolved node of lowest cost, the lowest id winning a tie, and relaxes*)
(* every link out of it.                                                   *)
(*                                                                         *)
(* links[u][v] is the cost in u's link state of the link from u to v, and  *)
(* 0 where u's link state does not name v.                                 *)
(***************************************************************************)
EXTENDS Integers, TLAPS

CONSTANTS
    Node,       \* router ids; ids are strings, only their order matters
    LinkMaps    \* the link maps under consideration

\* Router ids are totally ordered, which the order on numbers stands for.
ASSUME NodeAssumption == Node \subseteq Nat

\* A link cost is positive (the schema's minimum for a connector's cost is 1).
ASSUME LinkMapsAssumption == LinkMaps \subseteq [Node -> [Node -> Nat]]

Undefined == -1      \* Python's None: infinite cost or hops, undefined predecessor

VARIABLES links, root, cost, hops, prev, unresolved, done

spvars == <<links, root, cost, hops, prev, unresolved, done>>

\* Nodes are resolved in this order; the node set sorts ties by id.
Before(c, u, v) == \/ c[u] < c[v]
                   \/ c[u] = c[v] /\ u < v

IsLowest(u) ==
    /\ u \in unresolved
    /\ cost[u] # Undefined
    /\ \A v \in unresolved \ {u} : cost[v] = Undefined \/ Before(cost, u, v)

\* (mutant: a path as cheap as the known one replaces it)
Better_LastWins(u) ==
    {v \in unresolved \ {u} :
        /\ links[u][v] > 0
        /\ cost[v] = Undefined \/ cost[u] + links[u][v] <= cost[v]}

\* The unresolved neighbours for which the path through u is an improvement.
Better(u) ==
    {v \in unresolved \ {u} :
        /\ links[u][v] > 0
        /\ cost[v] = Undefined \/ cost[u] + links[u][v] < cost[v]}

SPInit ==
    /\ links \in LinkMaps
    /\ root \in Node
    /\ hops = [v \in Node |-> IF v = root THEN 0 ELSE Undefined]
    /\ cost = [v \in Node |-> IF v = root THEN 0 ELSE Undefined]
    /\ prev = [v \in Node |-> Undefined]
    /\ unresolved = Node
    /\ done = FALSE

Resolve(u) ==
    /\ ~done
    /\ IsLowest(u)
    /\ unresolved' = unresolved \ {u}
    /\ cost' = [v \in Node |->
                    IF v \in Better(u) THEN cost[u] + links[u][v] ELSE cost[v]]
    /\ hops' = [v \in Node |-> IF v \in Better(u) THEN hops[u] + 1 ELSE hops[v]]
    /\ prev' = [v \in Node |-> IF v \in Better(u) THEN u ELSE prev[v]]
    /\ UNCHANGED <<links, root, done>>

\* The loop ends when no unresolved node is reachable.
Finish ==
    /\ ~done
    /\ \A v \in unresolved : cost[v] = Undefined
    /\ done' = TRUE
    /\ UNCHANGED <<links, root, cost, hops, prev, unresolved>>

SPNext == Finish \/ \E u \in Node : Resolve(u)

SPSpec == SPInit /\ [][SPNext]_spvars

-----------------------------------------------------------------------------
Reached(v) == cost[v] # Undefined
Link(u, v) == links[u][v] > 0

\* Link u -> v lies on a cheapest path from the root to v.
OptimalLink(u, v) ==
    Reached(u) /\ Link(u, v) /\ cost[v] = cost[u] + links[u][v]

SPTypeOK ==
    /\ links \in [Node -> [Node -> Nat]]
    /\ root \in Node
    /\ cost \in [Node -> Nat \cup {Undefined}]
    /\ hops \in [Node -> Nat \cup {Undefined}]
    /\ prev \in [Node -> Node \cup {Undefined}]
    /\ unresolved \subseteq Node
    /\ done \in BOOLEAN

\* When the computation ends the costs satisfy the optimality equations of
\* shortest paths: the root costs nothing, no link offers a cheaper way to a
\* node than the cost recorded for it (a reached node never has an unreached
\* peer), and the cost of every other reached node is that of its predecessor
\* plus the link from it.
CostsOptimal ==
    done =>
      /\ cost[root] = 0
      /\ \A u, v \in Node : Reached(u) /\ Link(u, v) =>
            Reached(v) /\ cost[v] <= cost[u] + links[u][v]
      /\ \A v \in Node \ {root} : Reached(v) =>
            prev[v] \in Node /\ OptimalLink(prev[v], v)

\* Following predecessors always leads towards the root, never in a cycle: the
\* loops of calculate_routes and _calculate_valid_origins that walk "v = prev[u]"
\* back to the root terminate, and never read the entry of an unreachable node.
PrevLeadsToRoot ==
    \A v \in Node : prev[v] # Undefined =>
        /\ v # root
        /\ Reached(prev[v])
        /\ cost[prev[v]] < cost[v]
        /\ hops[v] = hops[prev[v]] + 1
        /\ prev[v] = root \/ prev[prev[v]] # Undefined

\* The tree is canonical.  Among the links that lie on a cheapest path to v, the
\* one whose near end comes first in (cost, id) order is chosen, so every router
\* that computes the tree of this root from the same link states picks the same
\* paths ("deterministic and repeatable ordering", NodeSet).
TreeCanonical ==
    done =>
      \A u, v \in Node :
        v # root /\ OptimalLink(u, v) /\ u # prev[v] => Before(cost, prev[v], u)

-----------------------------------------------------------------------------
(* The inductive invariant behind the properties above. *)

Resolved == Node \ unresolved

\* Nothing happens before the root is resolved.
RootFirst ==
    /\ cost[root] = 0 /\ prev[root] = Undefined
    /\ root \in unresolved =>
         unresolved = Node /\ \A v \in Node \ {root} : ~Reached(v)

\* A reached node other than the root has a resolved predecessor, and its cost
\* and hop count are those of the predecessor plus the link.
PrevResolved ==
    \A v \in Node :
      /\ Reached(v) <=> hops[v] # Undefined
      /\ v # root => (Reached(v) <=> prev[v] # Undefined)
      /\ prev[v] # Undefined => /\ prev[v] \in Resolved
                           /\ OptimalLink(prev[v], v)
                           /\ hops[v] = hops[prev[v]] + 1

\* Nodes are resolved in (cost, id) order.
ResolvedInOrder ==
    \A r \in Resolved :
      /\ Reached(r)
      /\ \A v \in unresolved : Reached(v) => Before(cost, r, v)

\* The links out of resolved nodes have been relaxed.
LinksRelaxed ==
    \A r \in Resolved, v \in Node :
        Link(r, v) => Reached(v) /\ cost[v] <= cost[r] + links[r][v]

\* The predecessor is the first of the candidates resolved so far.
PrevIsFirst ==
    \A r \in Resolved, v \in Node \ {root} :
        OptimalLink(r, v) /\ r # prev[v] => Before(cost, prev[v], r)

NoneLeftWhenDone == done => \A v \in unresolved : ~Reached(v)

SPInv ==
    /\ SPTypeOK /\ RootFirst /\ PrevResolved /\ ResolvedInOrder
    /\ LinksRelaxed /\ PrevIsFirst /\ NoneLeftWhenDone

-----------------------------------------------------------------------------
(* Proofs: the tree every router computes is a shortest path tree, and it   *)
(* is canonical, for every set of routers and every link map.               *)


\* The computation starts in the inductive invariant: only the root is reached.
LEMMA InitSPInv == SPInit => SPInv
<1> USE NodeAssumption, LinkMapsAssumption DEF Undefined
<1> SUFFICES ASSUME SPInit PROVE SPInv
    OBVIOUS
<1>1. SPTypeOK
    BY Zenon DEF SPInit, SPTypeOK
<1>2. RootFirst
    BY DEF SPInit, RootFirst, Reached
<1>3. PrevResolved
    BY DEF SPInit, PrevResolved, Reached
<1>4. ResolvedInOrder /\ LinksRelaxed /\ PrevIsFirst /\ NoneLeftWhenDone
    BY DEF SPInit, ResolvedInOrder, LinksRelaxed, PrevIsFirst, NoneLeftWhenDone, Resolved
<1> QED BY <1>1, <1>2, <1>3, <1>4 DEF SPInv

\* Resolving the lowest unresolved node preserves the inductive invariant.
LEMMA ResolveSPInv ==
    ASSUME SPInv, NEW u \in Node, Resolve(u)
    PROVE  SPInv'
<1> USE NodeAssumption DEF Undefined
<1>1. /\ u \in unresolved /\ u \in Nat /\ Reached(u) /\ cost[u] \in Nat
      /\ hops[u] \in Nat
      /\ SPTypeOK
    BY DEF Resolve, IsLowest, SPInv, SPTypeOK, Reached, PrevResolved
<1>2. \A v \in unresolved \ {u} : Reached(v) => Before(cost, u, v)
    BY Zenon DEF Resolve, IsLowest, Reached
\* What the step does to one node.
<1>3. \A v \in Node :
        \/ /\ v \in Better(u) /\ v \in unresolved /\ v # u /\ links[u][v] > 0
           /\ links[u][v] \in Nat
           /\ cost'[v] = cost[u] + links[u][v] /\ prev'[v] = u
           /\ hops'[v] = hops[u] + 1
           /\ Reached(v) => cost'[v] < cost[v]
        \/ /\ v \notin Better(u)
           /\ cost'[v] = cost[v] /\ prev'[v] = prev[v] /\ hops'[v] = hops[v]
           /\ v \in unresolved \ {u} /\ links[u][v] > 0
                => Reached(v) /\ cost[v] <= cost[u] + links[u][v]
    BY <1>1 DEF Resolve, Better, SPTypeOK, Reached
<1>4. /\ links' = links /\ root' = root /\ done' = done /\ ~done
      /\ unresolved' = unresolved \ {u}
      /\ Resolved' = Resolved \cup {u}
    BY <1>1 DEF Resolve, Resolved
<1>5. SPTypeOK'
    <2>1. cost' \in [Node -> Nat \cup {Undefined}]
        BY <1>1, <1>3 DEF Resolve, SPTypeOK
    <2>2. hops' \in [Node -> Nat \cup {Undefined}]
        BY <1>1, <1>3 DEF Resolve, SPTypeOK
    <2>3. prev' \in [Node -> Node \cup {Undefined}]
        BY <1>1, <1>3 DEF Resolve, SPTypeOK
    <2> QED BY <1>1, <1>4, <2>1, <2>2, <2>3 DEF SPTypeOK
\* Resolved nodes are not touched, and everything resolved comes before u.
<1>6. \A r \in Resolved \cup {u} :
        /\ r \in Node /\ r \in Nat /\ Reached(r) /\ Reached(r)' /\ r \notin Better(u)
        /\ cost'[r] = cost[r] /\ cost[r] \in Nat /\ cost[r] <= cost[u]
        /\ prev'[r] = prev[r] /\ hops'[r] = hops[r]
    BY <1>1, <1>3 DEF SPInv, ResolvedInOrder, Resolved, Reached, Before, Better, SPTypeOK
<1>7. \A v \in Node : Reached(v) => Reached(v)' /\ cost[v] \in Nat /\ cost'[v] \in Nat
                                     /\ cost'[v] <= cost[v]
    BY <1>1, <1>3 DEF Reached, SPTypeOK
<1>8. root \notin unresolved'
    <2>1. CASE root \in unresolved
        BY <1>1, <1>4, <2>1 DEF SPInv, RootFirst
    <2>2. CASE root \notin unresolved
        BY <1>4, <2>2
    <2> QED BY <2>1, <2>2
<1>9. root \notin Better(u) /\ root \in Node
    BY <1>1, <1>3, <1>4, <1>8 DEF SPTypeOK
<1>10. RootFirst'
    BY <1>3, <1>4, <1>8, <1>9 DEF SPInv, RootFirst
<1>11. PrevResolved'
    <2> SUFFICES ASSUME NEW v \in Node
        PROVE  /\ Reached(v)' <=> hops'[v] # Undefined
               /\ v # root => (Reached(v)' <=> prev'[v] # Undefined)
               /\ prev'[v] # Undefined => /\ prev'[v] \in Resolved'
                                     /\ OptimalLink(prev[v], v)'
                                     /\ hops'[v] = hops'[prev'[v]] + 1
        BY <1>4 DEF PrevResolved
    <2>1. CASE v \in Better(u)
        BY <1>1, <1>3, <1>4, <1>6, <2>1 DEF Reached, OptimalLink, Link, SPTypeOK
    <2>2. CASE v \notin Better(u)
        <3>1. cost'[v] = cost[v] /\ prev'[v] = prev[v] /\ hops'[v] = hops[v]
            BY <1>3, <2>2
        <3>2. prev[v] # Undefined => prev[v] \in Resolved /\ OptimalLink(prev[v], v)
                                /\ hops[v] = hops[prev[v]] + 1
            BY DEF SPInv, PrevResolved
        <3>3. prev[v] # Undefined => /\ cost'[prev[v]] = cost[prev[v]]
                                /\ hops'[prev[v]] = hops[prev[v]]
                                /\ Reached(prev[v])'
            BY <1>6, <3>1, <3>2 DEF Reached
        <3>4. prev'[v] # Undefined => OptimalLink(prev[v], v)'
            BY <1>4, <3>1, <3>2, <3>3 DEF OptimalLink, Link
        <3> QED BY <1>4, <3>1, <3>2, <3>3, <3>4 DEF SPInv, PrevResolved, Reached
    <2> QED BY <2>1, <2>2
<1>12. ResolvedInOrder'
    <2> SUFFICES ASSUME NEW r \in Resolved \cup {u}
        PROVE  /\ Reached(r)'
               /\ \A v \in unresolved \ {u} : Reached(v)' => Before(cost, r, v)'
        BY <1>4 DEF ResolvedInOrder
    <2> SUFFICES ASSUME NEW v \in unresolved \ {u}, Reached(v)'
        PROVE  Before(cost, r, v)'
        BY <1>6
    <2>1. v \in Node
        BY <1>1 DEF SPTypeOK
    <2>2. CASE v \in Better(u)
        BY <1>1, <1>3, <1>6, <2>1, <2>2 DEF Before
    <2>3. CASE v \notin Better(u)
        <3>1. Reached(v) /\ cost'[v] = cost[v]
            BY <1>3, <2>1, <2>3 DEF Reached
        <3>2. Before(cost, r, v)
            BY <1>2, <3>1 DEF SPInv, ResolvedInOrder
        <3> QED BY <1>6, <3>1, <3>2 DEF Before
    <2> QED BY <2>2, <2>3
<1>13. LinksRelaxed'
    <2> SUFFICES ASSUME NEW r \in Resolved \cup {u}, NEW v \in Node, links[r][v] > 0
        PROVE  Reached(v)' /\ cost'[v] <= cost'[r] + links[r][v]
        BY <1>4 DEF LinksRelaxed, Link
    <2>0. links[r][v] \in Nat
        BY <1>1, <1>6 DEF SPTypeOK
    <2>1. CASE r \in Resolved
        <3>1. Reached(v) /\ cost[v] <= cost[r] + links[r][v]
            BY <2>1 DEF SPInv, LinksRelaxed, Link
        <3> QED BY <1>6, <1>7, <2>0, <3>1
    <2>2. CASE r = u
        <3>1. CASE v \in Resolved \cup {u}
            BY <1>1, <1>6, <2>0, <2>2, <3>1
        <3>2. CASE v \in unresolved \ {u}
            BY <1>1, <1>3, <1>6, <1>7, <2>0, <2>2, <3>2 DEF Reached
        <3> QED BY <3>1, <3>2 DEF Resolved
    <2> QED BY <2>1, <2>2
<1>14. PrevIsFirst'
    <2> SUFFICES ASSUME NEW r \in Resolved \cup {u}, NEW v \in Node, v # root,
                        OptimalLink(r, v)', r # prev'[v]
        PROVE  Before(cost, prev[v], r)'
        BY <1>4 DEF PrevIsFirst
    <2>1. /\ links[r][v] > 0 /\ cost'[v] = cost'[r] + links[r][v] /\ links[r][v] \in Nat
        BY <1>1, <1>4, <1>6 DEF OptimalLink, Link, SPTypeOK
    <2>2. v \notin Better(u)
        <3> SUFFICES ASSUME v \in Better(u) PROVE FALSE
            OBVIOUS
        <3>1. r \in Resolved
            BY <1>3
        <3>2. Reached(v) /\ cost[v] <= cost[r] + links[r][v]
            BY <2>1, <3>1 DEF SPInv, LinksRelaxed, Link
        <3>3. cost'[v] < cost[v] /\ cost[v] \in Nat /\ cost'[v] \in Nat
            BY <1>3, <1>7, <3>2
        <3> QED BY <1>6, <2>1, <3>2, <3>3
    <2>3. cost'[v] = cost[v] /\ prev'[v] = prev[v]
        BY <1>3, <2>2
    <2>4. Reached(v) /\ prev[v] # Undefined
        BY <1>6, <2>1, <2>3 DEF SPInv, PrevResolved, Reached
    <2>5. prev[v] \in Resolved
        BY <2>4 DEF SPInv, PrevResolved
    <2>6. Before(cost, prev[v], r)
        <3>1. CASE r = u
            BY <1>1, <2>5, <3>1, Zenon DEF SPInv, ResolvedInOrder
        <3>2. CASE r \in Resolved
            <4>1. OptimalLink(r, v)
                BY <1>6, <2>1, <2>3 DEF OptimalLink, Link
            <4> QED BY <2>3, <3>2, <4>1 DEF SPInv, PrevIsFirst
        <3> QED BY <3>1, <3>2
    <2> QED BY <1>6, <2>3, <2>5, <2>6 DEF Before
<1>15. NoneLeftWhenDone'
    BY <1>4 DEF NoneLeftWhenDone
<1> QED BY <1>5, <1>10, <1>11, <1>12, <1>13, <1>14, <1>15 DEF SPInv

\* Every step of the computation preserves the inductive invariant.
LEMMA NextSPInv == SPInv /\ [SPNext]_spvars => SPInv'
<1> SUFFICES ASSUME SPInv, [SPNext]_spvars PROVE SPInv'
    OBVIOUS
<1>1. CASE Finish
    BY <1>1 DEF Finish, SPInv, SPTypeOK, RootFirst, PrevResolved, ResolvedInOrder,
        LinksRelaxed, PrevIsFirst, NoneLeftWhenDone, Resolved, Reached, Link,
        OptimalLink, Before
<1>2. ASSUME NEW u \in Node, Resolve(u) PROVE SPInv'
    BY <1>2, ResolveSPInv
<1>3. CASE UNCHANGED spvars
    BY <1>3 DEF spvars, SPInv, SPTypeOK, RootFirst, PrevResolved, ResolvedInOrder,
        LinksRelaxed, PrevIsFirst, NoneLeftWhenDone, Resolved, Reached, Link,
        OptimalLink, Before
<1> QED BY <1>1, <1>2, <1>3 DEF SPNext

\* The inductive invariant holds throughout the computation.
THEOREM TreeInvariant == SPSpec => []SPInv
<1> QED BY InitSPInv, NextSPInv, PTL DEF SPSpec

\* Types are preserved by the loop of _calculate_tree_from_root.
THEOREM TreeTypeCorrect == SPSpec => []SPTypeOK
<1>1. SPInv => SPTypeOK
    BY DEF SPInv
<1> QED BY <1>1, TreeInvariant, PTL

\* The costs _calculate_tree_from_root returns satisfy the shortest path
\* equations, for every network.
THEOREM CostsAreOptimal == SPSpec => []CostsOptimal
<1>1. SPInv => CostsOptimal
    <2> SUFFICES ASSUME SPInv, done PROVE
            /\ cost[root] = 0
            /\ \A u, v \in Node : Reached(u) /\ Link(u, v) =>
                  Reached(v) /\ cost[v] <= cost[u] + links[u][v]
            /\ \A v \in Node \ {root} : Reached(v) =>
                  prev[v] \in Node /\ OptimalLink(prev[v], v)
        BY DEF CostsOptimal
    <2>1. \A u \in Node : Reached(u) => u \in Resolved
        BY DEF SPInv, NoneLeftWhenDone, Resolved
    <2> QED BY <2>1 DEF SPInv, RootFirst, LinksRelaxed, PrevResolved, Resolved
<1> QED BY <1>1, TreeInvariant, PTL

\* Walking predecessors leads to the root: the loops over "v = prev[u]" in
\* calculate_routes and _calculate_valid_origins terminate.
THEOREM PrevAlwaysLeadsToRoot == SPSpec => []PrevLeadsToRoot
<1>1. SPInv => PrevLeadsToRoot
    <2> USE DEF Undefined
    <2> SUFFICES ASSUME SPInv, NEW v \in Node, prev[v] # Undefined
        PROVE  /\ v # root
               /\ Reached(prev[v])
               /\ cost[prev[v]] < cost[v]
               /\ hops[v] = hops[prev[v]] + 1
               /\ prev[v] = root \/ prev[prev[v]] # Undefined
        BY DEF PrevLeadsToRoot
    <2>1. v # root
        BY DEF SPInv, RootFirst
    <2>2. prev[v] \in Node /\ OptimalLink(prev[v], v) /\ hops[v] = hops[prev[v]] + 1
        BY DEF SPInv, PrevResolved, Resolved
    <2>3. cost[prev[v]] \in Nat /\ cost[v] \in Nat /\ links[prev[v]][v] \in Nat
        BY <2>2 DEF SPInv, SPTypeOK, OptimalLink, Reached, PrevResolved
    <2> QED BY <2>1, <2>2, <2>3 DEF OptimalLink, Link, SPInv, PrevResolved
<1> QED BY <1>1, TreeInvariant, PTL

\* All routers that hold the same link states compute the same tree for a given
\* root, whatever order their dictionaries have.
THEOREM TreeIsCanonical == SPSpec => []TreeCanonical
<1>1. SPInv => TreeCanonical
    <2> SUFFICES ASSUME SPInv, done, NEW u \in Node, NEW v \in Node, v # root,
                        OptimalLink(u, v), u # prev[v]
        PROVE  Before(cost, prev[v], u)
        BY DEF TreeCanonical
    <2>1. u \in Resolved
        BY DEF SPInv, NoneLeftWhenDone, Resolved, OptimalLink
    <2> QED BY <2>1 DEF SPInv, PrevIsFirst
<1> QED BY <1>1, TreeInvariant, PTL

=============================================================================
