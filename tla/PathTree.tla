------------------------------ MODULE PathTree ------------------------------
(***************************************************************************)
(* The loop of PathEngine._calculate_tree_from_root over the ordered list  *)
(* NodeSet keeps, one step per turn.  The order in which a dict yields its *)
(* items is a choice of the step.                                          *)
(***************************************************************************)
EXTENDS PathEngine

CONSTANTS LinkMaps, Roots

VARIABLES links, root, cost, hops, prev, nodes, done

treevars == <<links, root, cost, hops, prev, nodes, done>>

TreeState == [hops |-> hops, cost |-> cost, prev |-> prev, nodes |-> nodes]

TreeBecomes(t) ==
    /\ hops' = t.hops /\ cost' = t.cost /\ prev' = t.prev /\ nodes' = t.nodes

TreeLoopInit ==
    /\ links \in LinkMaps
    /\ root \in Roots
    /\ \E order \in SetToSeqs(Node \ {root}) :
         LET t == TreeInit(root, order)
         IN  hops = t.hops /\ cost = t.cost /\ prev = t.prev /\ nodes = t.nodes
    /\ done = FALSE

ResolveNode ==
    /\ ~done
    /\ nodes # <<>>
    /\ cost[Head(nodes).id] # None
    /\ \E items \in PeerItems(links, Head(nodes).id) :
         TreeBecomes(ResolveFirst(links, TreeState, items))
    /\ UNCHANGED <<links, root, done>>

\* Nothing is left, or only unreachable nodes are.
FinishTree ==
    /\ ~done
    /\ nodes # <<>> => cost[Head(nodes).id] = None
    /\ done' = TRUE
    /\ UNCHANGED <<links, root, cost, hops, prev, nodes>>

TreeLoopNext == ResolveNode \/ FinishTree

TreeLoopSpec == TreeLoopInit /\ [][TreeLoopNext]_treevars

\* The list abstracted to the set of nodes on it.
Promise == INSTANCE ShortestPathTree
               WITH LinkMaps <- [Node -> [Node -> Nat]],
                    unresolved <- {nodes[i].id : i \in DOMAIN nodes}

\* The computation over the ordered list, for every order in which the dicts
\* yield their items, is the computation that resolves nodes in (cost, id) order.
ImplementsPromise == Promise!SPSpec

=============================================================================
