--------------------------- MODULE MeshForwarding ---------------------------
(***************************************************************************)
(* One message making its way through a network of routers: the forwarders *)
(* of src/router_core/forwarder.c as they choose among inter-router        *)
(* connections, the trace annotation and link exclusion of router_node.c   *)
(* and trace_mask.c, and the hop limit of AMQP_rx_handler.  Every router   *)
(* forwards by the routes PathEngine computes from the link map it knows;  *)
(* while the topology changes, routers know different maps.                *)
(*                                                                         *)
(* A copy of the message is identified by its trace: copies that took      *)
(* different paths have different traces.  A router other than the sender's*)
(* is reached over the connection to a neighbour, so a connection is named *)
(* by the neighbour at its far end.                                        *)
(***************************************************************************)
EXTENDS PathEngine

\* The situations considered: the link maps before and after a topology change
\* and the treatment of the message's address.
CONSTANT Scenarios

Treatments == {"multicast", "closest", "balanced"}

ASSUME ScenariosAssumption ==
    \A s \in Scenarios : DOMAIN s = {"change", "treatment"} /\ s.treatment \in Treatments

VARIABLES
    change,     \* the topology change of this behaviour
    updated,    \* the routers that have recomputed their routes since
    treatment,  \* the treatment of the message's address
    consumers,  \* the routers with a consumer attached; known to every router
    origin,     \* the ingress router
    copies,     \* copies on the way: [at, trace]
    delivered,  \* copies handed to a consumer: [at, trace]
    released    \* copies given up: [at, trace, why]

vars == <<change, updated, treatment, consumers, origin, copies, delivered, released>>

-----------------------------------------------------------------------------
\* The tables every router computes from one link map.
RoutesOf(lm) ==
    LET tree == [n \in Node |-> Tree(lm, n)]
    IN  [n \in Node |-> CalculateRoutes(tree, n, SetToSeq(Node))]

Maps == UNION {{s.change[1], s.change[2]} : s \in Scenarios}

Tables == [lm \in Maps |-> RoutesOf(lm)]

MapOf(r) == IF r \in updated THEN change[2] ELSE change[1]
Routes(r) == Tables[MapOf(r)][r]

\* The connection that leads from r towards d: that of the next hop, which for a
\* neighbour is the neighbour itself; None when r knows no path.
ConnTo(r, d) == Routes(r).next[d]

\* qd_tracemask_create: the connections to neighbours the message has been through.
LinkExclusion(r, trace) == {n \in Node : n \in ToSet(trace) /\ MapOf(r)[r][n] > 0}

\* (mutants: no allowance beyond the radius; no limit)
TooFar_NoAllowance(r, trace) == Len(trace) >= Routes(r).radius
TooFar_Never(r, trace) == FALSE

\* process_router_annotations and the check that follows it: the hop count of the
\* trace against the radius of the topology plus one.
TooFar(r, trace) == Len(trace) > Routes(r).radius + 1

\* qdr_forward_multicast_CT: one copy for each connection that leads to a router
\* with consumers, except those that lead to a router in the trace.
MulticastConns(r, trace) ==
    {ConnTo(r, d) : d \in consumers \ {r}} \ ({None} \cup LinkExclusion(r, trace))

\* qdr_forward_find_closest_remotes_CT: the remote routers of lowest cost.
ClosestRemotes(r) ==
    LET reach == {d \in consumers \ {r} : Routes(r).cost[d] # None}
    IN  {d \in reach : \A e \in reach : Routes(r).cost[d] <= Routes(r).cost[e]}

\* qdr_forward_balanced_CT: the remote routers to which r is on the path from the
\* origin.  Set_valid_origins adds the local router to every destination's origins.
BalancedRemotes(r) ==
    {d \in consumers \ {r} :
        ConnTo(r, d) # None /\ (origin = r \/ origin \in Routes(r).valid[d])}

-----------------------------------------------------------------------------
\* The topology is not changing: every router has the routes of the same map.
Converged == change[1] = change[2]

Init ==
    /\ \E s \in Scenarios : change = s.change /\ treatment = s.treatment
    /\ updated = {}
    /\ consumers \in SUBSET Node \ {{}}
    /\ origin \in Node
    /\ copies = {[at |-> origin, trace |-> <<>>]}
    /\ delivered = {}
    /\ released = {}

Send(c, conns) == {[at |-> n, trace |-> Append(c.trace, c.at)] : n \in conns}

Release(c, why) ==
    /\ copies' = copies \ {c}
    /\ released' = released \cup {[at |-> c.at, trace |-> c.trace, why |-> why]}
    /\ UNCHANGED delivered

Deliver(c) == delivered' = delivered \cup {c}

\* The delivery has travelled further than the topology is wide.
DiscardTooFar(c) ==
    /\ TooFar(c.at, c.trace)
    /\ Release(c, "too far")

ForwardMulticast(c) ==
    /\ treatment = "multicast"
    /\ ~TooFar(c.at, c.trace)
    /\ LET conns == MulticastConns(c.at, c.trace)
           local == c.at \in consumers
       IN  IF conns = {} /\ ~local THEN Release(c, "no path")
           ELSE /\ copies' = (copies \ {c}) \cup Send(c, conns)
                /\ IF local THEN Deliver(c) ELSE UNCHANGED delivered
                /\ UNCHANGED released

\* A local consumer is preferred; otherwise one of the closest remote routers,
\* taken in turn.
ForwardClosest(c) ==
    /\ treatment = "closest"
    /\ ~TooFar(c.at, c.trace)
    /\ IF c.at \in consumers
       THEN copies' = copies \ {c} /\ Deliver(c) /\ UNCHANGED released
       ELSE IF ClosestRemotes(c.at) = {} THEN Release(c, "no path")
       ELSE \E d \in ClosestRemotes(c.at) :
              /\ copies' = (copies \ {c}) \cup Send(c, {ConnTo(c.at, d)})
              /\ UNCHANGED <<delivered, released>>

\* The choice depends on the number of outstanding deliveries everywhere, which
\* may be anything.
ForwardBalanced(c) ==
    /\ treatment = "balanced"
    /\ ~TooFar(c.at, c.trace)
    /\ \/ /\ c.at \in consumers
          /\ copies' = copies \ {c}
          /\ Deliver(c)
          /\ UNCHANGED released
       \/ \E d \in BalancedRemotes(c.at) :
            /\ copies' = (copies \ {c}) \cup Send(c, {ConnTo(c.at, d)})
            /\ UNCHANGED <<delivered, released>>
       \/ /\ c.at \notin consumers
          /\ BalancedRemotes(c.at) = {}
          /\ Release(c, "no path")

\* A router learns of the change and recomputes its routes.
Recompute(r) ==
    /\ r \notin updated
    /\ ~Converged
    /\ updated' = updated \cup {r}
    /\ UNCHANGED <<change, treatment, consumers, origin, copies, delivered, released>>

Handle(c) ==
    /\ \/ DiscardTooFar(c) \/ ForwardMulticast(c)
       \/ ForwardClosest(c) \/ ForwardBalanced(c)
    /\ UNCHANGED <<change, updated, treatment, consumers, origin>>

Next == \/ \E c \in copies : Handle(c)
        \/ \E r \in Node : Recompute(r)

Spec == Init /\ [][Next]_vars

-----------------------------------------------------------------------------
Reachable == {d \in consumers : d = origin \/ Tables[change[1]][origin].cost[d] # None}
Deliveries(n) == {c \in delivered : c.at = n}

TypeOK ==
    /\ treatment \in Treatments /\ updated \subseteq Node
    /\ consumers \subseteq Node /\ origin \in Node
    /\ \A c \in copies \cup delivered : c.at \in Node /\ c.trace \in Seq(Node)
    /\ \A c \in released : c.why \in {"too far", "no path"}

\* With settled routes an anycast message for which a consumer is reachable is
\* never given up half way: each router on the way finds a destination whose valid
\* origins include the message's ingress, and the hop limit never cuts a path.
AnycastNotLost ==
    Converged /\ treatment # "multicast" /\ Reachable # {} => released = {}

\* With settled routes a multicast message reaches every reachable consumer:
\* once no copy is on the way each has been served, although connections that
\* lead to routers in the trace are skipped.
MulticastReachesAll ==
    Converged /\ treatment = "multicast" /\ copies = {} =>
        \A d \in Reachable : Deliveries(d) # {}

PathCost(trace, last) ==
    LET full == Append(trace, last)
    IN  FoldLeft(LAMBDA acc, i : acc + change[1][full[i]][full[i + 1]],
                 0, [i \in 1..Len(trace) |-> i])

\* With settled routes "closest" delivers over a path that costs no more than the
\* cheapest path from the ingress router to any consumer, though every router on
\* the way chooses anew.
ClosestIsClosest ==
    Converged /\ treatment = "closest" =>
        \A c \in delivered : \A d \in Reachable :
            PathCost(c.trace, c.at) <=
                IF d = origin THEN 0 ELSE Tables[change[1]][origin].cost[d]

\* Whatever the routers believe while the topology changes, no copy circulates:
\* its trace never grows beyond the number of routers plus one.
NoEndlessLoop ==
    \A c \in copies \cup delivered : Len(c.trace) <= Cardinality(Node) + 1

\* Forwarding by settled routes loses no message, whatever its treatment.
SettledRoutesDeliver == AnycastNotLost /\ MulticastReachesAll /\ ClosestIsClosest
=============================================================================
