---------------------------- MODULE RouteTables ----------------------------
(***************************************************************************)
(* The router core's table of remote routers (src/router_core/             *)
(* route_tables.c): the handlers of the actions the routing engine sends,  *)
(* the list of routers sorted by cost, the routers each mobile address is  *)
(* mapped to, and the cache of closest routers the "closest" forwarder     *)
(* keeps in an address (forwarder.c).                                      *)
(*                                                                         *)
(* core->cost_epoch and an address's copy of it are compared for equality  *)
(* only, and the copy never runs ahead: the pair is the flag "stale".      *)
(* A pointer to a router node is its mask bit, and Freed once the node it  *)
(* points to has been freed.                                               *)
(***************************************************************************)
EXTENDS Integers, Sequences, FiniteSetsExt, Functions

CONSTANTS
    Bit,        \* mask bits of remote routers
    Conn,       \* mask bits of inter-router connections
    Router,     \* ids of remote routers
    Addr,       \* mobile addresses
    MaxCost     \* bound on path costs

ASSUME BitAssumption == Bit \subseteq Nat \ {0} /\ IsFiniteSet(Bit)
ASSUME AddrAssumption == IsFiniteSet(Addr)
ASSUME MaxCostAssumption == MaxCost \in Nat

None  == -1
Freed == -2

VARIABLES
    rn,         \* routers_by_mask_bit: the router nodes that exist
    routers,    \* core->routers, by cost
    control,    \* connections with a control link
    addrs       \* mobile addresses: routers mapped, cache of the closest

rtvars == <<rn, routers, control, addrs>>

NewNode(id) == [id |-> id, next |-> None, conn |-> None, cost |-> 0,
             origins |-> {}, refs |-> 3]

NewAddr == [rnodes |-> {}, closest |-> {}, next |-> None, stale |-> TRUE]

AllStale(as) == [a \in Addr |-> [as[a] EXCEPT !.stale = TRUE]]

Init ==
    /\ rn = [b \in {} |-> NewNode(None)]
    /\ routers = <<>>
    /\ control = {}
    /\ addrs = [a \in Addr |-> NewAddr]

Exists(b) == b \in DOMAIN rn

\* Where the list has the node.
Position(list, b) == CHOOSE i \in DOMAIN list : list[i] = b

\* The list without its member at p, and with x put in at p.
DEQ_REMOVE(list, p) ==
    [i \in 1 .. Len(list) - 1 |-> IF i < p THEN list[i] ELSE list[i + 1]]
PutAt(list, p, x) ==
    [i \in 1 .. Len(list) + 1 |-> IF i < p THEN list[i] ELSE IF i = p THEN x ELSE list[i - 1]]

-----------------------------------------------------------------------------
(* Handlers of the routing engine's actions. *)

qdr_add_router_CT(b, id) ==
    /\ IF Exists(b) THEN UNCHANGED <<rn, routers>>
       ELSE /\ rn' = [c \in DOMAIN rn \cup {b} |-> IF c = b THEN NewNode(id) ELSE rn[c]]
            /\ routers' = <<b>> \o routers
    /\ UNCHANGED <<control, addrs>>

\* The nodes once that of b is freed: the pointers to it stay behind.
WithoutNode(b) ==
    [c \in DOMAIN rn \ {b} |-> IF rn[c].next = b THEN [rn[c] EXCEPT !.next = Freed]
                                ELSE rn[c]]

\* The node is unmapped from every address and freed.
qdr_del_router_CT(b) ==
    /\ IF ~Exists(b) THEN UNCHANGED <<rn, routers, addrs>>
       ELSE /\ rn' = WithoutNode(b)
            /\ routers' = DEQ_REMOVE(routers, Position(routers, b))
            /\ addrs' = AllStale([a \in Addr |->
                                    [addrs[a] EXCEPT !.rnodes = @ \ {b}]])
    /\ UNCHANGED control

qdr_set_link_CT(b, k) ==
    /\ rn' = IF k \in control /\ Exists(b) THEN [rn EXCEPT ![b].conn = k] ELSE rn
    /\ UNCHANGED <<routers, control, addrs>>

qdr_remove_link_CT(b) ==
    /\ rn' = IF Exists(b) THEN [rn EXCEPT ![b].conn = None] ELSE rn
    /\ UNCHANGED <<routers, control, addrs>>

qdr_set_next_hop_CT(b, n) ==
    /\ rn' = IF Exists(b) /\ Exists(n) /\ b # n
             THEN [rn EXCEPT ![b].next = n] ELSE rn
    /\ UNCHANGED <<routers, control, addrs>>

\* This handler and set_cost dereference the node without looking whether it exists.
qdr_remove_next_hop_CT(b) ==
    /\ Exists(b)
    /\ rn' = [rn EXCEPT ![b].next = None]
    /\ UNCHANGED <<routers, control, addrs>>

\* qdr_route_table_update_cost_CT: the node moves only when it is out of order
\* with a neighbour in the list, and only then does the epoch advance.
NeedsReinsertion(r, list, b) ==
    LET i == Position(list, b)
    IN  \/ i > 1 /\ r[list[i - 1]].cost > r[b].cost
        \/ i < Len(list) /\ r[list[i + 1]].cost < r[b].cost

\* Behind the last node that costs no more.
Reinserted(r, list, b) ==
    LET rest == DEQ_REMOVE(list, Position(list, b))
        notDearer == {i \in DOMAIN rest : r[rest[i]].cost <= r[b].cost}
    IN  PutAt(rest, 1 + Max({0} \cup notDearer), b)

qdr_set_cost_CT(b, c) ==
    /\ IF c < 1 THEN UNCHANGED <<rn, routers, addrs>>
       ELSE /\ Exists(b)
            /\ rn' = [rn EXCEPT ![b].cost = c]
            /\ IF NeedsReinsertion(rn', routers, b)
               THEN routers' = Reinserted(rn', routers, b) /\ addrs' = AllStale(addrs)
               ELSE UNCHANGED <<routers, addrs>>
    /\ UNCHANGED control

qdr_set_valid_origins_CT(b, origins) ==
    /\ rn' = IF Exists(b) THEN [rn EXCEPT ![b].origins = origins] ELSE rn
    /\ UNCHANGED <<routers, control, addrs>>

-----------------------------------------------------------------------------
(* Mobile addresses. *)

\* (mutant: dropping a router leaves the address's cache as it is)
Remap_NoStale(b, new) ==
    [a \in Addr |->
        IF a \in new /\ b \notin addrs[a].rnodes
        THEN [addrs[a] EXCEPT !.rnodes = @ \cup {b}, !.stale = TRUE]
        ELSE IF a \notin new /\ b \in addrs[a].rnodes
        THEN [addrs[a] EXCEPT !.rnodes = @ \ {b}]
        ELSE addrs[a]]

\* The addresses once exactly those in new are mapped to router b.
Remap(b, new) ==
    [a \in Addr |->
        IF a \in new /\ b \notin addrs[a].rnodes
        THEN [addrs[a] EXCEPT !.rnodes = @ \cup {b}, !.stale = TRUE]
        ELSE IF a \notin new /\ b \in addrs[a].rnodes
        THEN [addrs[a] EXCEPT !.rnodes = @ \ {b}, !.stale = TRUE]
        ELSE addrs[a]]

Mapped(b) == {a \in Addr : b \in addrs[a].rnodes}

\* A mobile address update, or a flush (new = {}), maps and unmaps addresses; an
\* address nobody refers to any more is freed, and starts afresh when it returns.
qcm_mobile_sync_on_mau_CT(b, new) ==
    /\ Exists(b)
    /\ \E freed \in SUBSET {a \in Mapped(b) \ new : addrs[a].rnodes = {b}} :
         addrs' = [a \in Addr |-> IF a \in freed THEN NewAddr ELSE Remap(b, new)[a]]
    /\ rn' = [rn EXCEPT ![b].refs =
                 @ + Cardinality(new \ Mapped(b)) - Cardinality(Mapped(b) \ new)]
    /\ UNCHANGED <<routers, control>>

\* qdr_forward_find_closest_remotes_CT.  A node without a cost has cost 0: such
\* nodes come first in the list and never set the lowest cost.
FindClosest(a) ==
    LET has    == {i \in DOMAIN routers : routers[i] \in addrs[a].rnodes}
        unset  == {i \in has : rn[routers[i]].cost = 0}
        costed == has \ unset
        lowest == rn[routers[Min(costed)]].cost
    IN  [addrs[a] EXCEPT
            !.stale = FALSE,
            !.closest = {routers[i] : i \in unset \cup
                                            {j \in costed : rn[routers[j]].cost = lowest}},
            !.next = IF costed # {} THEN routers[Min(costed)]
                     ELSE IF unset # {} THEN routers[Max(unset)] ELSE None]

\* The bit after n in the mask, from the start when there is none.
NextInRing(mask, n) ==
    LET after == {b \in mask : b > n}
    IN  IF after # {} THEN Min(after) ELSE IF mask # {} THEN Min(mask) ELSE None

\* qdr_forward_closest_CT with no local consumer: refresh the cache if the epoch
\* moved, use the router whose turn it is and advance the turn.
qdr_forward_closest_CT(a) ==
    LET fresh == IF addrs[a].stale THEN FindClosest(a) ELSE addrs[a]
    IN  /\ addrs' = [addrs EXCEPT ![a] =
                       IF fresh.next # None /\ Exists(fresh.next)
                       THEN [fresh EXCEPT !.next = NextInRing(fresh.closest, fresh.next)]
                       ELSE fresh]
        /\ UNCHANGED <<rn, routers, control>>

-----------------------------------------------------------------------------
(* A control link attached or lost (connections.c). *)
qdr_attach_link_control_CT(k) ==
    /\ control' = control \cup {k}
    /\ UNCHANGED <<rn, routers, addrs>>

qdr_detach_link_control_CT(k) ==
    /\ control' = control \ {k}
    /\ UNCHANGED <<rn, routers, addrs>>

\* Any sequence of the actions that the list and the caches depend on.  The links
\* and next hops, and that no action speaks of a router that is not there where the
\* code would follow a null pointer, are NodeTracker's matter.
Next ==
    \/ \E b \in Bit, id \in Router : qdr_add_router_CT(b, id)
    \/ \E b \in Bit : qdr_del_router_CT(b)
    \/ \E b \in Bit, c \in 0..MaxCost : qdr_set_cost_CT(b, c)
    \/ \E b \in Bit, new \in SUBSET Addr : qcm_mobile_sync_on_mau_CT(b, new)
    \/ \E a \in Addr : qdr_forward_closest_CT(a)

Spec == Init /\ [][Next]_rtvars

-----------------------------------------------------------------------------
Nearest(a) ==
    {b \in addrs[a].rnodes : \A c \in addrs[a].rnodes : rn[b].cost <= rn[c].cost}

TypeOK ==
    /\ DOMAIN rn \subseteq Bit
    /\ rn \in [DOMAIN rn ->
                [id : Router, next : Bit \cup {None, Freed}, conn : Conn \cup {None},
                 cost : 0..MaxCost, origins : SUBSET (Bit \cup {0}), refs : Nat]]
    /\ routers \in Seq(Bit)
    /\ control \subseteq Conn
    /\ addrs \in [Addr -> [rnodes : SUBSET Bit, closest : SUBSET Bit,
                           next : Bit \cup {None}, stale : BOOLEAN]]

\* The list of routers holds every router node once and stays sorted by cost,
\* although a node moves only when out of order with its neighbours in the list
\* ("core->routers list is to be kept sorted by cost").
RoutersSorted ==
    /\ IsInjective(routers)
    /\ Range(routers) = DOMAIN rn
    /\ \A i, j \in DOMAIN routers : i < j => rn[routers[i]].cost <= rn[routers[j]].cost

\* An address is mapped only to routers that exist (the balanced forwarder follows
\* the bit without looking), and a node counts its mappings, so that the assertion
\* that no reference is left when it is deleted holds.
MappingsCounted ==
    /\ \A a \in Addr : \A b \in addrs[a].rnodes : Exists(b)
    /\ \A b \in DOMAIN rn : rn[b].refs = 3 + Cardinality(Mapped(b))

\* A cache that is considered fresh names only routers that have the address, holds
\* at least one of the nearest, and the router whose turn it is belongs to it.
CacheUsable ==
    \A a \in Addr : ~addrs[a].stale =>
        /\ addrs[a].closest \subseteq addrs[a].rnodes
        /\ addrs[a].rnodes # {} => addrs[a].closest \cap Nearest(a) # {}
        /\ IF addrs[a].rnodes = {} THEN addrs[a].next = None
           ELSE addrs[a].next \in addrs[a].closest

\* The tables agree with one another, and what is cached from them is usable.
TablesExact == RoutersSorted /\ MappingsCounted /\ CacheUsable
=============================================================================
