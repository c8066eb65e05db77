-------------------------- MODULE MCMeshForwarding --------------------------
(***************************************************************************)
(* MeshForwarding on every symmetric link map of a small network, settled  *)
(* or losing one link while the message is on its way; and the computation *)
(* of the trees it forwards by, on every symmetric link map.  A behaviour  *)
(* exercises one of the two.                                               *)
(***************************************************************************)
EXTENDS MeshForwarding, PathTree

CONSTANT AnycastCost,   \* link costs under settled anycast; elsewhere they are 1
         TreeCost       \* link costs when trees are computed

VARIABLE part           \* what is at work

Pairs == {p \in Node \X Node : p[1] < p[2]}

SymmetricMap(f) ==
    [a \in Node |-> [b \in Node |-> IF a < b THEN f[<<a, b>>]
                                    ELSE IF b < a THEN f[<<b, a>>] ELSE 0]]

SymmetricMaps(maxCost) == {SymmetricMap(f) : f \in [Pairs -> 0..maxCost]}

TreeMaps == SymmetricMaps(TreeCost)

LoseLink(lm, p) ==
    [a \in Node |-> [b \in Node |-> IF {a, b} = {p[1], p[2]} THEN 0 ELSE lm[a][b]]]

Anycast == Treatments \ {"multicast"}

MCScenarios ==
    {[change |-> <<lm, lm>>, treatment |-> x] : lm \in SymmetricMaps(AnycastCost), x \in Anycast}
    \cup
    {[change |-> <<lm, lm>>, treatment |-> "multicast"] : lm \in SymmetricMaps(1)}
    \cup
    UNION {{[change |-> <<lm, LoseLink(lm, p)>>, treatment |-> x] :
                p \in {q \in Pairs : lm[q[1]][q[2]] > 0}, x \in Anycast} : lm \in SymmetricMaps(1)}

Unlinked == [a \in Node |-> [b \in Node |-> 0]]
RestingTree == TreeInit(CHOOSE r \in Roots : TRUE, SetToSeq(Node \ {CHOOSE r \in Roots : TRUE}))

\* The part that is not at work rests in one of its initial states.
MeshInit ==
    \/ /\ part = "mesh"
       /\ Init
       /\ links = Unlinked /\ root = (CHOOSE r \in Roots : TRUE) /\ done = FALSE
       /\ hops = RestingTree.hops /\ cost = RestingTree.cost
       /\ prev = RestingTree.prev /\ nodes = RestingTree.nodes
    \/ /\ part = "tree"
       /\ TreeLoopInit
       /\ change = <<Unlinked, Unlinked>> /\ treatment = "closest" /\ updated = {}
       /\ consumers = {} /\ origin = 1 /\ copies = {} /\ delivered = {} /\ released = {}

MeshNext ==
    /\ UNCHANGED part
    /\ \/ part = "mesh" /\ Next /\ UNCHANGED treevars
       \/ part = "tree" /\ TreeLoopNext /\ UNCHANGED vars

MeshSpec == MeshInit /\ [][MeshNext]_<<part, vars, treevars>>
=============================================================================
