---------------------------- MODULE NodeTracker ----------------------------
(***************************************************************************)
(* The routing engine of one router and the core's route tables: the       *)
(* Python NodeTracker and RouterNode (router/node.py), driven by the       *)
(* HELLO and link state handlers and the timer, which tell the core of     *)
(* every change through the FIFO queue of core actions, and the core       *)
(* thread, which executes them (RouteTables) and reports HELLOs and lost   *)
(* control links through its own FIFO of general work.                     *)
(*                                                                         *)
(* Link costs are 1; versions, and the requests and advertisements the     *)
(* handlers send, are left out: here messages from other routers arrive in *)
(* any order and with any content.                                         *)
(* Ages are not kept: at a tick any neighbour and any link state may have  *)
(* expired.                                                                *)
(***************************************************************************)
EXTENDS RouteTables, SequencesExt, TLC

CONSTANTS
    Me,         \* the local router's id
    Configs     \* the situations considered

\* What may happen in a situation and, named, its bounds.
Config == [
    routers : SUBSET Router,    \* remote routers that are there
    bits    : SUBSET Bit,       \* mask bits not taken by other routers
    conns   : SUBSET Conn,      \* connections that may come and go
    far     : SUBSET Router,    \* the routers a connection may lead to
    named   : SUBSET (Router \cup {Me}),    \* the routers link states may name
    insts   : SUBSET {1, 2},    \* boot numbers
    keep    : 0..2,             \* ticks a node nobody mentions survives: 2 in the code
    lag     : 0..1,             \* a handler runs only when at most this many actions wait
    work    : 1..2]             \* bound on the general work list

ASSUME ConfigsAssumption == Configs \subseteq Config

MaxSeq == 1     \* bound on link state sequence numbers

VARIABLES
    t,          \* the NodeTracker, and the situation it is in (cf)
    gq,         \* general work: HELLOs and lost links on their way to Python
    far         \* the router at the other end of each control link

vars == <<rn, routers, control, addrs, t, gq, far>>

PE == INSTANCE PathEngine WITH Node <- Router \cup {Me}
MB == INSTANCE MaskBits WITH MaxRouters <- Cardinality(Bit) + 1, m <- t.mask,
                             granted <- {t.nodes[r].bit : r \in DOMAIN t.nodes}

KeepAlive == t.cf.keep

-----------------------------------------------------------------------------
(* RouterNode's methods: each takes the tracker and returns it changed, with
   the core actions it posts at the end of the queue q. *)

Action(op, b, arg) == [op |-> op, bit |-> b, arg |-> arg]
Post(s, op, b, arg) == [s EXCEPT !.q = Append(@, Action(op, b, arg))]

Known(s, r) == r \in DOMAIN s.nodes

\* The constructor raises "Exceeded Maximum Router Count" when no bit is left.
CanTrack(s, r) == Known(s, r) \/ s.mask.next # MB!NoBit

Track(s, r, inst) ==
    IF Known(s, r) THEN s
    ELSE LET b == s.mask.next
             node == [bit |-> b, link |-> None, seq |-> 0, peers |-> {}, next |-> None,
                      cost |-> None, origins |-> <<>>, inst |-> inst, keep |-> 0]
         IN  Post([s EXCEPT !.nodes = (r :> node) @@ @, !.order = Append(@, r),
                            !.mask = MB!_allocate_maskbit(@)], "add_router", b, r)

set_link_id(s, r, k) ==
    LET b == s.nodes[r].bit
    IN  Post(Post([s EXCEPT !.nodes[r].link = k, !.nodes[r].next = None],
                  "set_link", b, k), "remove_next_hop", b, None)

remove_link(s, r) ==
    IF s.nodes[r].link = None THEN s
    ELSE Post([s EXCEPT !.nodes[r].link = None], "remove_link", s.nodes[r].bit, None)

\* self.link_state.del_peer, and link_state_changed if it did.
DropPeer(s, r) ==
    [s EXCEPT !.peers = @ \ {r}, !.changed = @ \/ r \in s.peers]

\* (mutant: the addresses are flushed last)
delete_FlushLast(s, r) ==
    LET b == s.nodes[r].bit
        told == Post(Post(s, "del_router", b, None), "flush", b, None)
    IN  [told EXCEPT !.mask = MB!_free_maskbit(@, b),
                     !.nodes = [o \in DOMAIN @ \ {r} |-> @[o]],
                     !.order = SelectSeq(@, LAMBDA o : o # r)]

\* delete(), and the removal from the dict of nodes.
delete(s, r) ==
    LET b == s.nodes[r].bit
        told == Post(Post(s, "flush", b, None), "del_router", b, None)
    IN  [told EXCEPT !.mask = MB!_free_maskbit(@, b),
                     !.nodes = [o \in DOMAIN @ \ {r} |-> @[o]],
                     !.order = SelectSeq(@, LAMBDA o : o # r)]

\* A next hop is compared by router id.
set_next_hop(s, r, hop) ==
    LET n == s.nodes[r]
    IN  IF hop = r
        THEN IF n.next = None THEN s
             ELSE Post([s EXCEPT !.nodes[r].next = None], "remove_next_hop", n.bit, None)
        ELSE IF n.next = hop THEN s
             ELSE Post([s EXCEPT !.nodes[r].next = hop],
                       "set_next_hop", n.bit, s.nodes[hop].bit)

\* The adapter adds the local router's bit.
set_valid_origins(s, r, origins) ==
    IF s.nodes[r].origins = <<origins>> THEN s
    ELSE Post([s EXCEPT !.nodes[r].origins = <<origins>>], "set_valid_origins",
              s.nodes[r].bit, {0} \cup {s.nodes[o].bit : o \in origins})

set_cost(s, r, c) ==
    IF s.nodes[r].cost = c THEN s
    ELSE Post([s EXCEPT !.nodes[r].cost = c], "set_cost", s.nodes[r].bit, c)

\* A new boot number: the link state is forgotten and the mobile addresses flushed.
update_instance(s, r, inst) ==
    IF s.nodes[r].inst = None THEN [s EXCEPT !.nodes[r].inst = inst]
    ELSE IF s.nodes[r].inst = inst THEN s
    ELSE Post([s EXCEPT !.nodes[r].inst = inst, !.nodes[r].peers = {},
                        !.nodes[r].seq = 0, !.recompute = TRUE],
              "flush", s.nodes[r].bit, None)

-----------------------------------------------------------------------------
(* NodeTracker's handlers. *)

neighbor_refresh(r, inst, k) ==
    IF ~CanTrack(t, r) THEN t
    ELSE LET s1 == Track(t, r, inst)
             s2 == IF s1.nodes[r].link = k THEN s1
                   ELSE [set_link_id(s1, r, k) EXCEPT
                           !.bylink[k] = r, !.peers = @ \cup {r},
                           !.changed = @ \/ r \notin s1.peers]
         IN  update_instance(s2, r, inst)

\* The index may name a node that was deleted since: a KeyError after the pop.
link_lost(k) ==
    LET r == t.bylink[k]
        s == [t EXCEPT !.bylink[k] = None]
    IN  IF r = None THEN t
        ELSE IF ~Known(s, r) THEN s
        ELSE DropPeer(remove_link(s, r), r)

ra_received(r, inst) ==
    IF CanTrack(t, r) THEN update_instance(Track(t, r, inst), r, inst) ELSE t

router_learned(s, r) == IF r = Me THEN s ELSE Track(s, r, None)

\* Learning a peer may fail for want of a bit, when those before it are learned.
link_state_received(r, seq, peers) ==
    IF ~CanTrack(t, r) THEN {t}
    ELSE LET s1 == Track(t, r, None)
             s2 == [s1 EXCEPT !.nodes[r].seq = seq, !.nodes[r].peers = peers,
                              !.recompute = TRUE]
             Learn(s, p) == IF p = Me \/ CanTrack(s, p) THEN router_learned(s, p) ELSE s
         IN  IF seq <= s1.nodes[r].seq THEN {s1}
             ELSE {FoldLeft(Learn, s2, items) : items \in SetToSeqs(peers)}

-----------------------------------------------------------------------------
(* The timer tick. *)

\* _do_expirations for one node of the list taken at the start; "silent" are the
\* neighbours not heard of for too long, "aged" the nodes with an old link state.
ExpireNode(s0, r, silent, aged) ==
    LET s1 == IF r \in silent /\ s0.nodes[r].link # None
              THEN DropPeer(remove_link(s0, r), r) ELSE s0
        s2 == IF r \in aged /\ s1.nodes[r].peers # {}
              THEN [s1 EXCEPT !.nodes[r].peers = {}, !.nodes[r].seq = 0, !.recompute = TRUE]
              ELSE s1
        forgotten == /\ s2.nodes[r].peers = {} /\ s2.nodes[r].link = None
                     /\ \A o \in DOMAIN s2.nodes \ {r} : r \notin s2.nodes[o].peers
    IN  IF ~forgotten THEN s2
        ELSE IF s2.nodes[r].keep + 1 > KeepAlive THEN delete(s2, r)
        ELSE [s2 EXCEPT !.nodes[r].keep = @ + 1]

_do_expirations(s, silent, aged) ==
    FoldLeft(LAMBDA x, r : ExpireNode(x, r, silent, aged), s, s.order)

\* The link map the path engine sees: the local link state, those of the known
\* nodes, and for a peer without one a made-up link to the node that mentions it.
LinkMap(s) ==
    LET Peers(u) == IF u = Me THEN s.peers
                    ELSE IF Known(s, u) THEN s.nodes[u].peers ELSE {}
        Mentions(v) == SelectSeq(<<Me>> \o s.order, LAMBDA u : v \in Peers(u))
        MadeUp(u, v) == u # Me /\ ~Known(s, u) /\ Mentions(u) # <<>> /\ Mentions(u)[1] = v
        N == Router \cup {Me}
        links == {l \in N \X N : l[2] \in Peers(l[1]) \/ MadeUp(l[1], l[2])}
    IN  [u \in N |-> [v \in N |-> IF <<u, v>> \in links THEN 1 ELSE 0]]

Routes(s) ==
    LET lm == LinkMap(s)
        order == <<Me>> \o s.order \o SetToSeq(Router \ DOMAIN s.nodes)
    IN  PE!CalculateRoutes([u \in Router \cup {Me} |-> PE!Tree(lm, u)], Me, order)

Reachable(routes) == {r \in Router : routes.next[r] # PE!None}

\* The body of the loop over the computed next hops.
UpdateNode(s, r, routes) ==
    LET s1 == set_next_hop(s, r, routes.next[r])
        s2 == set_valid_origins(s1, r, routes.valid[r])
    IN  set_cost(s2, r, routes.cost[r])

\* A route to, through or from a router that is not known raises a KeyError; in the
\* last case the next hop has been set and the origins recorded.
FailUpdate(s, r, routes) ==
    IF {r, routes.next[r]} \subseteq DOMAIN s.nodes
    THEN [set_next_hop(s, r, routes.next[r]) EXCEPT !.nodes[r].origins = <<routes.valid[r]>>]
    ELSE s

\* The tick ends where it fails, with the nodes before updated.
Updates(s) ==
    LET routes == Routes(s)
        reach == Reachable(routes)
        faulty == {r \in reach : ~({r, routes.next[r]} \cup routes.valid[r]
                                     \subseteq DOMAIN s.nodes)}
        Fold(rs) == FoldLeft(LAMBDA x, r : UpdateNode(x, r, routes),
                             [s EXCEPT !.recompute = FALSE], rs)
    IN  IF faulty = {} THEN {Fold(SetToSeq(reach))}
        ELSE {FailUpdate(Fold(SetToSeq(rs)), r, routes) :
                 rs \in SUBSET (reach \ faulty), r \in faulty}

tick(silent, aged) ==
    LET s1 == _do_expirations(t, silent, aged)
        s2 == [s1 EXCEPT !.changed = FALSE, !.recompute = @ \/ s1.changed]
    IN  IF s2.recompute THEN Updates(s2) ELSE {s2}

-----------------------------------------------------------------------------
(* The steps of the Python side, the core thread and the connections. *)

TInit ==
    /\ Init
    /\ \E cf \in Configs :
         t = [cf |-> cf, nodes |-> [r \in {} |-> None], order |-> <<>>, peers |-> {},
              changed |-> FALSE, recompute |-> FALSE, bylink |-> [k \in Conn |-> None],
              mask |-> [MB!AllBitsFree EXCEPT !.used = @ \cup (Bit \ cf.bits)], q |-> <<>>]
    /\ gq = <<>>
    /\ far = [k \in Conn |-> None]

CanRun == Len(t.q) <= t.cf.lag

TimerTick ==
    /\ CanRun
    /\ \E silent \in SUBSET {r \in DOMAIN t.nodes : t.nodes[r].link # None},
          aged \in SUBSET {r \in DOMAIN t.nodes : t.nodes[r].peers # {}} :
         t' \in tick(silent, aged)
    /\ UNCHANGED <<rn, routers, control, addrs, gq, far>>

\* An RA, LSU or LSR of router r.
HandleMessage(r) ==
    /\ CanRun
    /\ \/ \E inst \in t.cf.insts : t' = ra_received(r, inst)
       \/ \E seq \in 1..MaxSeq, peers \in SUBSET (t.cf.named \ {r}) :
            t' \in link_state_received(r, seq, peers)
       \/ t' = IF CanTrack(t, r) THEN router_learned(t, r) ELSE t
    /\ UNCHANGED <<rn, routers, control, addrs, gq, far>>

\* The next piece of general work: a HELLO that names this router, or a lost link.
GeneralWork ==
    /\ CanRun
    /\ gq # <<>>
    /\ gq' = Tail(gq)
    /\ LET w == Head(gq)
       IN  t' = IF w.kind = "HELLO" THEN neighbor_refresh(w.id, w.inst, w.conn)
                ELSE link_lost(w.conn)
    /\ UNCHANGED <<rn, routers, control, addrs, far>>

Execute(a) ==
    \/ a.op = "add_router" /\ qdr_add_router_CT(a.bit, a.arg)
    \/ a.op = "del_router" /\ qdr_del_router_CT(a.bit)
    \/ a.op = "set_link" /\ qdr_set_link_CT(a.bit, a.arg)
    \/ a.op = "remove_link" /\ qdr_remove_link_CT(a.bit)
    \/ a.op = "set_next_hop" /\ qdr_set_next_hop_CT(a.bit, a.arg)
    \/ a.op = "remove_next_hop" /\ qdr_remove_next_hop_CT(a.bit)
    \/ a.op = "set_cost" /\ qdr_set_cost_CT(a.bit, a.arg)
    \/ a.op = "set_valid_origins" /\ qdr_set_valid_origins_CT(a.bit, a.arg)
    \/ a.op = "flush" /\ qcm_mobile_sync_on_mau_CT(a.bit, {})

\* The core thread executes the action at the head of the queue.
CoreAction ==
    /\ t.q # <<>>
    /\ Execute(Head(t.q))
    /\ t' = [t EXCEPT !.q = Tail(@)]
    /\ UNCHANGED <<gq, far>>

\* A connection to router r brings up a control link on a free connection bit.
ControlUp(k, r) ==
    /\ k \notin control
    /\ qdr_attach_link_control_CT(k)
    /\ far' = [far EXCEPT ![k] = r]
    /\ UNCHANGED <<t, gq>>

\* The control link is lost: Python is told.
ControlDown(k) ==
    /\ k \in control
    /\ Len(gq) < t.cf.work
    /\ qdr_detach_link_control_CT(k)
    /\ gq' = Append(gq, [kind |-> "lost", conn |-> k])
    /\ far' = [far EXCEPT ![k] = None]
    /\ UNCHANGED t

\* A HELLO that lists this router arrives over the control link.
HelloArrives(k, inst) ==
    /\ k \in control
    /\ Len(gq) < t.cf.work
    /\ gq' = Append(gq, [kind |-> "HELLO", conn |-> k, id |-> far[k], inst |-> inst])
    /\ UNCHANGED <<rn, routers, control, addrs, t, far>>

TNext ==
    \/ TimerTick
    \/ \E r \in t.cf.routers : HandleMessage(r)
    \/ GeneralWork
    \/ CoreAction
    \/ \E k \in t.cf.conns, r \in t.cf.far : ControlUp(k, r)
    \/ \E k \in t.cf.conns : ControlDown(k)
    \/ \E k \in t.cf.conns, inst \in t.cf.insts : HelloArrives(k, inst)

TSpec == TInit /\ [][TNext]_vars

-----------------------------------------------------------------------------
(* Properties. *)

Drained == t.q = <<>>
EnoughBits == Cardinality(t.cf.routers) <= Cardinality(t.cf.bits)

\* An action finds the router it is about when the core executes it, and add_router
\* finds the bit unused, however far the core lags behind: set_cost and
\* remove_next_hop would follow a null pointer, the others log a critical error.
ActionFindsRouter ==
    t.q # <<>> => LET a == Head(t.q)
                  IN  /\ Exists(a.bit) <=> a.op # "add_router"
                      /\ a.op = "set_next_hop" => Exists(a.arg)

\* When the core has caught up it has exactly the routers Python knows, under the
\* same mask bits and with the same costs.
CoreMirrorsNodes ==
    Drained =>
        /\ DOMAIN rn = {t.nodes[r].bit : r \in DOMAIN t.nodes}
        /\ \A r \in DOMAIN t.nodes :
             LET n == t.nodes[r] IN
             /\ rn[n.bit].id = r
             /\ rn[n.bit].cost = IF n.cost = None THEN 0 ELSE n.cost

\* When general work and actions have been handled, a router is a neighbour over a
\* connection, for Python and for the core alike, only if its control link is up
\* and leads to that router: no order of HELLOs, lost links, link changes and
\* expirations leaves a dead or reassigned connection behind.
NeighborLinksLive ==
    Drained /\ gq = <<>> =>
        \A r \in DOMAIN t.nodes :
            LET n == t.nodes[r] IN
            /\ n.link = rn[n.bit].conn
            /\ n.link # None => n.link \in control /\ far[n.link] = r

\* A router is in the local link state exactly when it is a neighbour.
LinkStateIsNeighbors ==
    t.peers = {r \in DOMAIN t.nodes : t.nodes[r].link # None}

\* While mask bits last, every router any link state mentions is known, so that the
\* tick never fails on a computed route.
MentionedAreKnown ==
    EnoughBits =>
        \A r \in DOMAIN t.nodes : t.nodes[r].peers \subseteq DOMAIN t.nodes \cup {Me}

Settled == Drained /\ ~t.changed /\ ~t.recompute

\* The core's next hop of r is the computed one.
NextHopIs(r, hop) ==
    LET next == rn[t.nodes[r].bit].next
    IN  IF hop = r THEN next = None ELSE next \in DOMAIN rn /\ rn[next].id = hop

\* While mask bits last, once the core has caught up and no recomputation is due, every reachable router
\* has in the core the cost and the next hop computed from the current link states,
\* although each is sent only when it differs from the last one sent; a next hop
\* that was deleted meanwhile is the one exception.
RoutesAsComputed ==
    Settled /\ EnoughBits =>
        LET routes == Routes(t) IN
        \A r \in Reachable(routes) :
            /\ rn[t.nodes[r].bit].cost = routes.cost[r]
            /\ rn[t.nodes[r].bit].next # Freed => NextHopIs(r, routes.next[r])

\* The same without the exception: "Update the next hops and valid origins for each
\* node" (NodeTracker.tick).
NextHopsAsComputed ==
    Settled => LET routes == Routes(t) IN
               \A r \in Reachable(routes) : NextHopIs(r, routes.next[r])

\* The core's routers, links and routes are those of NodeTracker whenever it has caught up.
CoreCatchesUp ==
    CoreMirrorsNodes /\ NeighborLinksLive /\ RoutesAsComputed /\ MentionedAreKnown /\ LinkStateIsNeighbors

\* Both: the core's tables follow the tracker, action by action.
TrackerSound == ActionFindsRouter /\ CoreCatchesUp
=============================================================================
