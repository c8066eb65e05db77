--------------------------- MODULE EdgeAddresses ---------------------------
(* The mobile addresses of edge routers and of the interior router they      *)
(* connect to.  The address proxy of an edge router keeps, on its active edge *)
(* connection, an incoming link for every address with local consumers and   *)
(* an outgoing link for every address with local producers; the interior     *)
(* router tracks the addresses of those links and tells each edge router     *)
(* which of them have destinations it can reach: only then is the outgoing   *)
(* link bound to the address.                                                *)
(*                                                                           *)
(* A link is <<kind, address, serial>>; clients are <<"c", n>> (consumers)    *)
(* and <<"p", n>> (producers).  A connection carries attaches and detaches up *)
(* and tracking messages down, each in order.  The answer to a detach only   *)
(* frees the link and is left out.  Addresses are "a0" and "a1" (the phases   *)
(* of one configured address) and "f", the fallback of "a0".                  *)
EXTENDS Integers, Sequences, FiniteSets, SequencesExt

CONSTANT EaConfigs

VARIABLES eacfg, ea

eavars == <<eacfg, ea>>

EaEdges == eacfg.edges
EaAddrs == eacfg.addrs
EaPhase(a) == IF a = "a1" THEN 1 ELSE 0
EaNoLink == <<"none", "", 0>>
OnEdgeConn(l) == l[1] \in {"in", "out"}
FallbackOf(a) == IF a = "a0" /\ "f" \in EaAddrs THEN {"f"} ELSE {}
FallbackFor(a) == IF a = "f" THEN {"a0"} ELSE {}

-----------------------------------------------------------------------------
(* Capabilities: how an edge router tells the interior which phase a link    *)
(* belongs to, and how the interior reads it.                                *)

set_waypoint_capability(a, dir) ==
  IF a = "f" THEN "fallback"
  ELSE IF eacfg.out = 0 \/ a = "" THEN "none"
  ELSE IF (dir = "out" /\ EaPhase(a) = eacfg.in) \/ (dir = "in" /\ EaPhase(a) = eacfg.out) THEN "none"
  ELSE IF EaPhase(a) < eacfg.in \/ EaPhase(a) > eacfg.out THEN "none"
  ELSE ToString(EaPhase(a) + IF dir = "out" THEN 0 ELSE 1)

(* A capability of ordinal n means phase n to a producer and n - 1 to a      *)
(* consumer.                                                                 *)
EaLookup(cap, dir) ==
  IF cap = "fallback" THEN "f"
  ELSE LET ordinal == IF cap = "1" THEN 1 ELSE IF cap = "2" THEN 2 ELSE 0
           inp  == IF ordinal > 0 THEN ordinal ELSE eacfg.in
           outp == IF ordinal > 0 THEN ordinal - 1 ELSE eacfg.out
       IN IF (IF dir = "out" THEN inp ELSE outp) = 0 THEN "a0" ELSE "a1"

-----------------------------------------------------------------------------
(* The edge router.  E is the record of one edge router.                     *)

EaConnWork(E, m) == [E EXCEPT !.work = Append(@, m)]

qdr_create_edge_link(E, kind, a) ==
  LET l == <<kind, a, E.next>> IN
  EaConnWork([E EXCEPT !.next = @ + 1, !.links = Append(@, l)], <<"attach", l, set_waypoint_capability(a, kind)>>)

EaDetachLink(E, l) ==
  EaConnWork([E EXCEPT !.links = SelectSeq(@, LAMBDA x : x # l), !.freed = @ \/ (~Contains(E.links, l))],
             <<"detach", l, "none">>)

Sources(E, a) == Len(E.il[a]) + (IF FallbackFor(a) # {} THEN Len(E.il["a0"]) ELSE 0)

RECURSIVE EaBind(_, _, _), EaUnbind(_, _, _), ea_on_addr_event(_, _, _)

(* A link's address changes: the events the address proxy listens to.       *)
EaRaise(E, event, a) == ea_on_addr_event(E, event, a)

(* The first and the second of n links raise the first and second event.    *)
EaCounted(E, n, events, a) == IF n \in {1, 2} THEN EaRaise(E, events[n], a) ELSE E

EaBind(E, a, l) ==
  IF l[1] \in {"c", "out"}
  THEN LET F == [E EXCEPT !.rl[a] = IF Contains(@, l) THEN @ ELSE Append(@, l)]
       IN EaCounted(F, Len(F.rl[a]), <<"became local dest", "two dest">>, a)
  ELSE LET F == [E EXCEPT !.il[a] = Append(@, l)]
           source == <<"became source", "two source">>
           and_fallback(G) ==
             IF FallbackOf(a) = {} THEN G
             ELSE EaCounted(G, Len(G.il[a]) + Len(G.il["f"]), source, "f")
       IN and_fallback(EaCounted(F, Sources(F, a), source, a))

(* With one producer left on the pair, no event is raised for the fallback: *)
(* it would drop the fallback's uplink.                                      *)
EaUnbind(E, a, l) ==
  IF l[1] \in {"c", "out"}
  THEN LET F == [E EXCEPT !.rl[a] = SelectSeq(@, LAMBDA x : x # l)]
       IN CASE Len(F.rl[a]) = 0 -> EaRaise(F, "no longer local dest", a)
            [] Len(F.rl[a]) = 1 -> EaRaise(F, "one local dest", a)
            [] OTHER -> F
  ELSE IF ~Contains(E.il[a], l) THEN E
  ELSE LET F == [E EXCEPT !.il[a] = SelectSeq(@, LAMBDA x : x # l)]
           n == Sources(F, a)
           G == IF n = 0 THEN EaRaise(F, "no longer source", a)
                ELSE IF n = 1 THEN EaRaise(F, "one source", a) ELSE F
       IN IF FallbackOf(a) # {} /\ Len(G.il[a]) + Len(G.il["f"]) = 0
          THEN EaRaise(G, "no longer source", "f") ELSE G

add_inlink(E, a) ==
  IF E.inlink[a] # EaNoLink THEN E
  ELSE LET F == qdr_create_edge_link(E, "in", a)
           l == Last(F.links)
       IN [EaBind(F, a, l) EXCEPT !.inlink[a] = l]

del_inlink(E, a) ==
  IF E.inlink[a] = EaNoLink THEN E
  ELSE LET l == E.inlink[a] IN EaDetachLink(EaUnbind([E EXCEPT !.inlink[a] = EaNoLink], a, l), l)

(* The outgoing link is not bound to the address: the interior router says  *)
(* when it has destinations.                                                 *)
add_outlink(E, a) ==
  IF E.outlink[a] # EaNoLink THEN E
  ELSE LET F == qdr_create_edge_link(E, "out", a) IN [F EXCEPT !.outlink[a] = Last(F.links)]

del_outlink(E, a) ==
  IF E.outlink[a] = EaNoLink THEN E
  ELSE LET l == E.outlink[a]
           F == [E EXCEPT !.outlink[a] = EaNoLink]
       IN EaDetachLink(EaUnbind(F, a, l), l)

HeadOnEdge(seq) == seq # <<>> /\ OnEdgeConn(Head(seq))

ea_on_addr_event(E, event, a) ==
  IF ~E.est THEN E
  ELSE CASE event = "became local dest" -> IF HeadOnEdge(E.rl[a]) THEN E ELSE add_inlink(E, a)
         [] event = "no longer local dest" -> del_inlink(E, a)
         [] event = "one local dest" -> IF HeadOnEdge(E.rl[a]) THEN del_inlink(E, a) ELSE E
         [] event = "two dest" -> add_inlink(E, a)
         [] event = "became source" -> IF HeadOnEdge(E.il[a]) THEN E ELSE add_outlink(E, a)
         [] event = "no longer source" -> del_outlink(E, a)
         [] event = "two source" -> add_outlink(E, a)
         [] event = "one source" -> IF E.il[a] = <<>> \/ HeadOnEdge(E.il[a]) THEN del_outlink(E, a) ELSE E

(* A link of the edge connection is detached: the address forgets it, if the *)
(* link knows its address.                                                   *)
ea_on_link_event(E, l) ==
  LET a == l[2] IN
  CASE l[1] = "out" /\ Contains(E.rl[a], l) /\ E.outlink[a] = l -> [E EXCEPT !.outlink[a] = EaNoLink]
    [] l[1] = "in" /\ Contains(E.il[a], l) /\ E.inlink[a] = l -> [E EXCEPT !.inlink[a] = EaNoLink]
    [] OTHER -> E

EaInboundDetach(E, l) ==
  LET F == [ea_on_link_event(E, l) EXCEPT !.links = SelectSeq(@, LAMBDA x : x # l),
                                          !.uplink = SelectSeq(@, LAMBDA x : x # l)] IN
  IF l[1] \notin {"in", "out"} THEN F
  ELSE IF Contains(E.rl[l[2]], l) \/ Contains(E.il[l[2]], l) THEN EaUnbind(F, l[2], l) ELSE F

(* The walk over the addresses when the edge connection is established.     *)
EaLocal(seq) == Len(seq) > 1 \/ (Len(seq) = 1 /\ ~HeadOnEdge(seq))
EaEstablish(E, a) ==
  LET F == IF EaLocal(E.rl[a]) THEN add_inlink(E, a) ELSE E
  IN IF ~EaLocal(F.il[a]) THEN F
     ELSE LET G == add_outlink(F, a) IN IF FallbackOf(a) # {} THEN add_outlink(G, "f") ELSE G

ea_on_conn_established(E) ==
  LET F == qdr_create_edge_link([E EXCEPT !.est = TRUE], "anon", "")
      G == qdr_create_edge_link([F EXCEPT !.uplink = Append(@, Last(F.links))], "down", "")
  IN FoldLeft(EaEstablish, qdr_create_edge_link(G, "track", ""), SelectSeq(<<"a0", "a1", "f">>, LAMBDA a : a \in EaAddrs))

(* The links of the connection that remain are cleaned up without an event; *)
(* then the connection is lost.                                              *)
ea_on_conn_lost(E) ==
  [E EXCEPT !.est = FALSE, !.links = <<>>, !.work = <<>>, !.st = "down", !.uplink = <<>>,
            !.rl = [a \in EaAddrs |-> SelectSeq(E.rl[a], LAMBDA l : ~OnEdgeConn(l))],
            !.il = [a \in EaAddrs |-> SelectSeq(E.il[a], LAMBDA l : ~OnEdgeConn(l))]]

(* A tracking message: bind the outgoing link, or unbind it.                *)
ea_on_transfer(E, a, dest) ==
  LET l == E.outlink[a] IN
  IF l = EaNoLink THEN E
  ELSE LET F == [E EXCEPT !.freed = @ \/ ~Contains(E.links, l)]
       IN IF dest THEN EaBind(F, a, l) ELSE EaUnbind(F, a, l)

-----------------------------------------------------------------------------
(* The interior router.  I is its record; an entry of its link lists is       *)
(* <<link, edge router>>, with no edge router for its own consumer.           *)

qdrc_can_send_address(I, a, e) ==
  Len(I.rl[a]) > 1 \/ I.rn[a] > 0 \/ (Len(I.rl[a]) = 1 /\ Head(I.rl[a])[2] # e)

qdrc_send_message(I, a, e, insert) ==
  IF I.conn[e] = "up" THEN [I EXCEPT !.down[e] = Append(@, <<a, insert>>)] ELSE I

EaTracked(I, x) == x \in I.ctx /\ I.trk[x[2]].st # "closed"
EaTell(I, a, xs, insert) == FoldLeft(LAMBDA J, x : qdrc_send_message(J, a, x[2], insert), I, xs)

(* The first tracked link from the connection of the only, or first, local  *)
(* destination.                                                              *)
EaOwn(I, a) == SelectSeq(I.il[a], LAMBDA x : EaTracked(I, x) /\ x[2] = Head(I.rl[a])[2])
EaTellOwn(I, a, insert) ==
  LET xs == EaOwn(I, a) IN IF xs = <<>> THEN I ELSE EaTell(I, a, <<Head(xs)>>, insert)

eat_on_addr_event_Silent(I, event, a) ==
  LET able == SelectSeq(I.il[a], LAMBDA x : EaTracked(I, x) /\ qdrc_can_send_address(I, a, x[2]))
      all  == SelectSeq(I.il[a], LAMBDA x : EaTracked(I, x))
  IN CASE event = "became local dest" -> IF I.rn[a] = 0 THEN EaTell(I, a, able, TRUE) ELSE I
       [] event = "became dest" -> EaTell(I, a, able, TRUE)
       [] event \in {"no longer dest", "no longer local dest"} -> IF I.rn[a] = 0 THEN EaTell(I, a, all, FALSE) ELSE I
       [] event = "one local dest" -> EaTellOwn(I, a, FALSE)
       [] event = "two dest" -> I
eat_on_addr_event(I, event, a) ==
  LET able == SelectSeq(I.il[a], LAMBDA x : EaTracked(I, x) /\ qdrc_can_send_address(I, a, x[2]))
      all  == SelectSeq(I.il[a], LAMBDA x : EaTracked(I, x))
  IN CASE event = "became local dest" -> IF I.rn[a] = 0 THEN EaTell(I, a, able, TRUE) ELSE I
       [] event = "became dest" -> EaTell(I, a, able, TRUE)
       [] event \in {"no longer dest", "no longer local dest"} -> IF I.rn[a] = 0 THEN EaTell(I, a, all, FALSE) ELSE I
       [] event = "one local dest" -> EaTellOwn(I, a, FALSE)
       [] event = "two dest" -> EaTellOwn(I, a, TRUE)

(* Destinations of the interior's address come and go.                       *)
EaAddDest(I, a, x) ==
  LET J == [I EXCEPT !.rl[a] = Append(@, x)] IN
  IF Len(J.rl[a]) = 1 THEN eat_on_addr_event(J, "became local dest", a)
  ELSE IF Len(J.rl[a]) = 2 /\ J.rn[a] = 0 THEN eat_on_addr_event(J, "two dest", a)
  ELSE J

EaDelDest(I, a, x) ==
  LET J == [I EXCEPT !.rl[a] = SelectSeq(@, LAMBDA y : y # x)] IN
  IF Len(J.rl[a]) = 0 THEN eat_on_addr_event(J, "no longer local dest", a)
  ELSE IF Len(J.rl[a]) = 1 /\ J.rn[a] = 0 THEN eat_on_addr_event(J, "one local dest", a)
  ELSE J

EaRemoteAdd(I, a) ==
  LET J == [I EXCEPT !.rn[a] = 1] IN
  IF Len(J.rl[a]) = 0 THEN eat_on_addr_event(J, "became dest", a)
  ELSE IF Len(J.rl[a]) = 1 THEN eat_on_addr_event(J, "two dest", a)
  ELSE J

EaRemoteDel(I, a) ==
  LET J == [I EXCEPT !.rn[a] = 0] IN
  IF Len(J.rl[a]) = 0 THEN eat_on_addr_event(J, "no longer dest", a)
  ELSE IF Len(J.rl[a]) = 1 THEN eat_on_addr_event(J, "one local dest", a)
  ELSE J

(* A producing link of an edge router attaches: it is tracked if the         *)
(* tracking endpoint of its connection is there, and told at once.           *)
eat_on_link_attached(I, a, x) ==
  LET e == x[2] IN
  IF I.trk[e].st = "none" THEN I
  ELSE LET J == [I EXCEPT !.ctx = @ \cup {x}, !.trk[e].refs = @ + 1]
       IN IF qdrc_can_send_address(J, a, e) THEN qdrc_send_message(J, a, e, TRUE) ELSE J

EaFreeState(I, e) ==
  IF I.trk[e].st = "closed" /\ I.trk[e].refs = 0 THEN [I EXCEPT !.trk[e].st = "none"] ELSE I

eat_on_link_detached(I, x) ==
  IF x \notin I.ctx THEN I
  ELSE EaFreeState([I EXCEPT !.ctx = @ \ {x}, !.trk[x[2]].refs = @ - 1], x[2])

qdrc_address_endpoint_first_attach(I, e) == [I EXCEPT !.trk[e].st = "open"]
qdrc_address_endpoint_cleanup(I, e) == EaFreeState([I EXCEPT !.trk[e].st = "closed"], e)

(* The downlink is the way to the addresses of the edge router itself.      *)
qdr_attach_link_downlink_CT(I, e) == [I EXCEPT !.summary[e] = @ + 1]

EaFirstAttach(I, e, l, cap) ==
  LET a == EaLookup(cap, l[1])
      x == <<l, e>>
  IN CASE l[1] = "anon"  -> I
       [] l[1] = "down"  -> qdr_attach_link_downlink_CT(I, e)
       [] l[1] = "track" -> qdrc_address_endpoint_first_attach(I, e)
       [] l[1] = "in"    -> EaAddDest(I, a, x)
       [] l[1] = "out"   -> eat_on_link_attached([I EXCEPT !.il[a] = Append(@, x)], a, x)

EaLinkGone(I, e, l) ==
  LET x == <<l, e>>
      a == CHOOSE b \in EaAddrs : Contains(I.rl[b], x) \/ Contains(I.il[b], x)
  IN CASE l[1] = "anon"  -> I
       [] l[1] = "down"  -> [I EXCEPT !.summary[e] = @ - 1]
       [] l[1] = "track" -> qdrc_address_endpoint_cleanup(I, e)
       [] l[1] = "in"    -> EaDelDest(I, a, x)
       [] l[1] = "out"   -> eat_on_link_detached([I EXCEPT !.il[a] = SelectSeq(@, LAMBDA y : y # x)], x)

-----------------------------------------------------------------------------
EaInit ==
  /\ eacfg \in EaConfigs
  /\ ea = [edge |-> [e \in EaEdges |->
                [st |-> "down", est |-> FALSE, links |-> <<>>, work |-> <<>>, next |-> 1, conns |-> 0, lost |-> <<>>,
                 uplink |-> <<>>, freed |-> FALSE,
                 rl |-> [a \in EaAddrs |-> <<>>], il |-> [a \in EaAddrs |-> <<>>],
                 inlink |-> [a \in EaAddrs |-> EaNoLink], outlink |-> [a \in EaAddrs |-> EaNoLink]]],
           core |-> [rl |-> [a \in EaAddrs |-> <<>>], rn |-> [a \in EaAddrs |-> 0], il |-> [a \in EaAddrs |-> <<>>],
                     ctx |-> {}, trk |-> [e \in EaEdges |-> [st |-> "none", refs |-> 0]],
                     summary |-> [e \in EaEdges |-> 0], conn |-> [e \in EaEdges |-> "down"],
                     links |-> [e \in EaEdges |-> <<>>], down |-> [e \in EaEdges |-> <<>>]],
           moves |-> 0]

EaEdge(e) == ea.edge[e]
EaSetEdge(e, E) == ea' = [ea EXCEPT !.edge[e] = E]
EaMove == ea.moves < eacfg.moves
EaSteady(e) == eacfg.loss = "any" \/ EaEdge(e).st # "dying"

EaQuiet(e) == EaEdge(e).st = "up" /\ EaEdge(e).work = <<>> /\ ea.core.down[e] = <<>>
Bound(E, a) == E.outlink[a] # EaNoLink /\ Contains(E.rl[a], E.outlink[a])

(* Clients of the edge routers attach and detach.                           *)
EaClients == {<<"c", 1>>, <<"p", 1>>} \cup (IF eacfg.clients = 2 THEN {<<"c", 2>>, <<"p", 2>>} ELSE {})
EaHas(E, a, k) == Contains(E.rl[a], k) \/ Contains(E.il[a], k)

EaClientAttach(e, a, k) ==
  /\ EaMove /\ EaSteady(e) /\ ~EaHas(EaEdge(e), a, k) /\ <<a, k[1]>> \in eacfg.uses
  /\ ea' = [ea EXCEPT !.edge[e] = EaBind(@, a, k), !.moves = @ + 1]
  /\ UNCHANGED eacfg

EaClientDetach(e, a, k) ==
  /\ EaSteady(e) /\ EaHas(EaEdge(e), a, k)
  /\ EaSetEdge(e, EaUnbind(EaEdge(e), a, k))
  /\ UNCHANGED eacfg

(* The interior router's own consumer, and the other routers' addresses.    *)
EaOwnConsumer == <<<<"c", "", 0>>, "">>
EaInteriorDest(a) ==
  /\ IF Contains(ea.core.rl[a], EaOwnConsumer)
     THEN ea' = [ea EXCEPT !.core = EaDelDest(@, a, EaOwnConsumer)]
     ELSE EaMove /\ ea' = [ea EXCEPT !.core = EaAddDest(@, a, EaOwnConsumer), !.moves = @ + 1]
  /\ UNCHANGED eacfg

EaRemoteDest(a) ==
  /\ IF ea.core.rn[a] = 1
     THEN ea' = [ea EXCEPT !.core = EaRemoteDel(@, a)]
     ELSE EaMove /\ ea' = [ea EXCEPT !.core = EaRemoteAdd(@, a), !.moves = @ + 1]
  /\ UNCHANGED eacfg

EaOpened(e) ==
  /\ EaEdge(e).st = "down" /\ ea.core.conn[e] = "down" /\ EaEdge(e).conns < eacfg.conns
  /\ ea' = [ea EXCEPT !.edge[e] = ea_on_conn_established([@ EXCEPT !.st = "up", !.conns = @ + 1]), !.core.conn[e] = "up"]
  /\ UNCHANGED eacfg

(* The interior takes the next attach or detach of the connection.          *)
EaInteriorTakes(e) ==
  /\ EaEdge(e).st = "up" /\ EaEdge(e).work # <<>>
  /\ LET m == Head(EaEdge(e).work)
         I == IF m[1] = "attach" THEN EaFirstAttach([ea.core EXCEPT !.links[e] = Append(@, m[2])], e, m[2], m[3])
              ELSE EaLinkGone([ea.core EXCEPT !.links[e] = SelectSeq(@, LAMBDA l : l # m[2])], e, m[2])
     IN ea' = [ea EXCEPT !.edge[e].work = Tail(@), !.core = I]
  /\ UNCHANGED eacfg

EaEdgeTakes(e) ==
  /\ EaEdge(e).st = "up" /\ ea.core.down[e] # <<>>
  /\ LET m == Head(ea.core.down[e])
     IN ea' = [ea EXCEPT !.edge[e] = ea_on_transfer(@, m[1], m[2]), !.core.down[e] = Tail(@)]
  /\ UNCHANGED eacfg

(* The connection drops.  The edge router's I/O thread reports the loss of   *)
(* the links it has seen, in order, then of the connection; so does the      *)
(* interior's.                                                               *)
EaSeen(E, n) ==
  SelectSeq(E.links, LAMBDA l : ~\E i \in n + 1..Len(E.work) : E.work[i][1] = "attach" /\ E.work[i][2] = l)
EaDrops(e) ==
  /\ EaEdge(e).st = "up" /\ eacfg.loss # "none"
  /\ eacfg.loss = "bound" => EaQuiet(e) /\ \A a \in EaAddrs : EaEdge(e).outlink[a] = EaNoLink \/ Bound(EaEdge(e), a)
  /\ \E n \in 0..Len(EaEdge(e).work) :
       ea' = [ea EXCEPT !.edge[e].st = "dying", !.edge[e].lost = EaSeen(EaEdge(e), n),
                        !.core.conn[e] = "dying", !.core.down[e] = <<>>]
  /\ UNCHANGED eacfg

EaEdgeLosesLink(e) ==
  /\ EaEdge(e).st = "dying" /\ EaEdge(e).lost # <<>>
  /\ EaSetEdge(e, LET E == [EaEdge(e) EXCEPT !.lost = Tail(@)]
                      l == Head(EaEdge(e).lost)
                  IN IF Contains(E.links, l) THEN EaInboundDetach(E, l) ELSE E)
  /\ UNCHANGED eacfg

EaEdgeConnClosed(e) ==
  /\ EaEdge(e).st = "dying" /\ EaEdge(e).lost = <<>>
  /\ EaSetEdge(e, ea_on_conn_lost(EaEdge(e)))
  /\ UNCHANGED eacfg

EaInteriorLosesLink(e) ==
  /\ ea.core.conn[e] = "dying" /\ ea.core.links[e] # <<>>
  /\ ea' = [ea EXCEPT !.core = EaLinkGone([@ EXCEPT !.links[e] = Tail(@)], e, Head(ea.core.links[e]))]
  /\ UNCHANGED eacfg

EaInteriorConnClosed(e) ==
  /\ ea.core.conn[e] = "dying" /\ ea.core.links[e] = <<>>
  /\ ea' = [ea EXCEPT !.core.conn[e] = "down"]
  /\ UNCHANGED eacfg

EaNext ==
  \/ \E e \in EaEdges : \/ EaOpened(e) \/ EaInteriorTakes(e) \/ EaEdgeTakes(e) \/ EaDrops(e)
                        \/ EaEdgeLosesLink(e) \/ EaEdgeConnClosed(e)
                        \/ EaInteriorLosesLink(e) \/ EaInteriorConnClosed(e)
  \/ \E e \in EaEdges, a \in EaAddrs, k \in EaClients : EaClientAttach(e, a, k) \/ EaClientDetach(e, a, k)
  \/ \E a \in EaAddrs : EaInteriorDest(a) \/ EaRemoteDest(a)

EaSpec == EaInit /\ [][EaNext]_eavars

-----------------------------------------------------------------------------
EaConsumers(E, a) == {k \in ToSet(E.rl[a]) : k[1] = "c"}
EaProducers(E, a) == {k \in ToSet(E.il[a]) : k[1] = "p"}

(* While the edge connection is up, the edge router has an incoming link for *)
(* exactly the addresses with local consumers and an outgoing one for        *)
(* exactly those with local producers (the fallback counts the producers of  *)
(* the address it serves), and no address refers to a link that is gone      *)
(* (addr_proxy.c).                                                           *)
EaProxied ==
  \A e \in EaEdges : LET E == EaEdge(e) IN
    /\ ~E.freed
    /\ E.st = "up" =>
         /\ Len(E.uplink) = 1
         /\ \A a \in EaAddrs :
              /\ E.inlink[a] # EaNoLink <=> EaConsumers(E, a) # {}
              /\ E.inlink[a] # EaNoLink => Contains(E.links, E.inlink[a])
              /\ E.outlink[a] # EaNoLink => Contains(E.links, E.outlink[a])
              /\ EaProducers(E, a) # {} => E.outlink[a] # EaNoLink
              /\ (E.outlink[a] # EaNoLink /\ a # "f") => EaProducers(E, a) # {}
              /\ \A b \in FallbackOf(a) : EaProducers(E, a) # {} => E.outlink[b] # EaNoLink

(* The interior router's view: every data link of an edge router is on the   *)
(* phase it has at the edge, tracked through the connection's one endpoint   *)
(* state, which lives as long as links refer to it; and once nothing is in   *)
(* flight every address a producer's edge router can reach is bound there    *)
(* (edge_addr_tracking.c).                                                   *)
EaTrackedRight ==
  LET I == ea.core IN
  /\ \A e \in EaEdges :
       /\ I.trk[e].refs = Cardinality({x \in I.ctx : x[2] = e})
       /\ I.trk[e].st = "none" => I.trk[e].refs = 0
       /\ I.conn[e] = "down" => I.trk[e].st = "none" /\ I.summary[e] = 0
  /\ \A a \in EaAddrs : \A x \in ToSet(I.il[a]) : x \in I.ctx
  /\ \A e \in EaEdges : EaQuiet(e) =>
       /\ I.summary[e] = 1
       /\ \A a \in EaAddrs : LET E == EaEdge(e) IN
            /\ \A x \in ToSet(I.rl[a]) : x[2] = e => x[1] = E.inlink[a]
            /\ \A x \in ToSet(I.il[a]) : x[2] = e => x[1] = E.outlink[a]
            /\ E.inlink[a] # EaNoLink => Contains(I.rl[a], <<E.inlink[a], e>>)
            /\ E.outlink[a] # EaNoLink => Contains(I.il[a], <<E.outlink[a], e>>)
            /\ (E.outlink[a] # EaNoLink /\ qdrc_can_send_address(I, a, e)) => Bound(E, a)

(* The edge router's links to the interior and the interior's view of them *)
(* agree (addr_proxy.c, edge_addr_tracking.c).                             *)
EdgeAddressesSound == EaProxied /\ EaTrackedRight

====
