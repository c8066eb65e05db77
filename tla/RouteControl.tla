---------------------------- MODULE RouteControl ----------------------------
(***************************************************************************)
(* Link routes and auto links, src/router_core/route_control.c: management *)
(* adds and deletes them, connections of route containers open and close,  *)
(* and the links that the router attaches for its auto links are accepted, *)
(* refused and lost.  Everything here runs in the core thread except that  *)
(* an I/O thread sends attaches and detaches and reports what it receives. *)
(* An identifier of connections (qdr_conn_identifier_t) is the key under   *)
(* which it is declared: "L" and a connection's name, or "C" and a         *)
(* container's; management refuses routes that give both.                  *)
(***************************************************************************)
EXTENDS Integers, Sequences, SequencesExt, FiniteSetsExt

CONSTANTS
  RcConfigs,    \* what happens in a behaviour: which connections there are, at most how many
                \* link routes, connection routes, auto links and links, the keys that routes are
                \* given (NoKey for none), and whether peers refuse links
  RcLabel,      \* the name of a connection, or NoKey
  RcContainer,  \* the container at its other end
  FirstRetry,   \* AUTO_LINK_FIRST_RETRY_INTERVAL
  Retry         \* AUTO_LINK_RETRY_INTERVAL

VARIABLES
  rccf,   \* one of RcConfigs
  rc      \* cids: the identifiers, with connection_refs, link_route_refs and auto_link_refs
          \* conns: for each connection "closed", "open", or "lost" (its end is on the way)
          \* lrs, als: link routes and auto links; links: the links of auto links
          \* addrs: the addresses, with ref_count, conns and the links bound to them
          \* local: the addresses announced as having a local destination

rcvars == <<rccf, rc>>

NoKey == "none"     \* no key, no address
NoId == 0           \* no connection, link or auto link
NoTimer == -1
RcLrAddrs == {"route"}
RcAlAddrs == {"queue"}

FreshCid == [conns |-> <<>>, lrs |-> <<>>, als |-> <<>>]
FreshRcAddr == [ref |-> 0, conns |-> <<>>, bound |-> {}]

RcWithout(f, x) == [y \in DOMAIN f \ {x} |-> f[y]]
RcWith(f, x, v) == [y \in DOMAIN f \cup {x} |-> IF y = x THEN v ELSE f[y]]
RcNewId(f) == CHOOSE i \in 1..Cardinality(DOMAIN f) + 1 : i \notin DOMAIN f

-----------------------------------------------------------------------------
(* Identifiers of connections.                                              *)

qdr_route_declare_id_CT(s, key) ==
    IF key \in DOMAIN s.cids THEN s ELSE [s EXCEPT !.cids = RcWith(@, key, FreshCid)]

qdr_route_check_id_for_deletion_CT(s, key) ==
    IF s.cids[key] = FreshCid THEN [s EXCEPT !.cids = RcWithout(@, key)] ELSE s

-----------------------------------------------------------------------------
(* Addresses.                                                               *)

\* The address is looked up, or created with its pattern mapped, and referenced.
RcAddressRef(s, a) ==
    LET old == IF a \in DOMAIN s.addrs THEN s.addrs[a] ELSE FreshRcAddr
    IN  [s EXCEPT !.addrs = RcWith(@, a, [old EXCEPT !.ref = @ + 1])]

\* Local destinations, subscriptions and remote routers aside, which other modules cover.
RcCheckAddr(s, a) ==
    IF s.addrs[a].ref = 0 /\ s.addrs[a].bound = {}
    THEN [s EXCEPT !.addrs = RcWithout(@, a)] ELSE s

RcAddressUnref(s, a) ==
    LET t == [s EXCEPT !.addrs[a].ref = @ - 1]
    IN  IF t.addrs[a].ref = 0 THEN RcCheckAddr(t, a) ELSE t

qdr_del_connection_ref(cs, c) == RemoveFirst(cs, c)

qdr_core_bind_address_conn_CT(s, a, c) ==
    LET t == [s EXCEPT !.addrs[a].conns = Append(@, c)]
    IN  IF Len(t.addrs[a].conns) = 1 THEN [t EXCEPT !.local = @ \cup {a}] ELSE t

qdr_core_unbind_address_conn_CT(s, a, c) ==
    LET t == [s EXCEPT !.addrs[a].conns = qdr_del_connection_ref(@, c)]
    IN  IF t.addrs[a].conns = <<>> THEN [t EXCEPT !.local = @ \ {a}] ELSE t

RcOutgoing(s, a) == {l \in s.addrs[a].bound : s.links[l].dir = "out"}

\* A second link of a local destination tells the modules nothing they do not know.
RcBindLink(s, a, l) ==
    LET t == [s EXCEPT !.addrs[a].bound = @ \cup {l}, !.links[l].addr = a]
    IN  IF s.links[l].dir = "out" /\ Cardinality(RcOutgoing(t, a)) = 1
        THEN [t EXCEPT !.local = @ \cup {a}] ELSE t

RcUnbindLink(s, a, l) ==
    LET t == [s EXCEPT !.addrs[a].bound = @ \ {l}, !.links[l].addr = NoKey]
    IN  IF s.links[l].dir = "out" /\ RcOutgoing(t, a) = {}
        THEN [t EXCEPT !.local = @ \ {a}] ELSE t

-----------------------------------------------------------------------------
(* Links.  count, received and sent are detach_count, detach_received and   *)
(* detach_send_done; wire: the I/O thread has sent the first attach; up:    *)
(* the second attach was received.                                          *)

qdr_create_link_CT(s, c, n) ==
    LET l == RcNewId(s.links)
    IN  [s EXCEPT !.links = RcWith(@, l, [conn |-> c, al |-> n, dir |-> s.als[n].dir,
                                        addr |-> NoKey, count |-> 0, received |-> FALSE,
                                        sent |-> FALSE, wire |-> FALSE, up |-> FALSE]),
                  !.als[n].link = l, !.als[n].state = "attaching"]

qdr_link_outbound_detach_CT(s, l) == [s EXCEPT !.links[l].count = @ + 1]

qdr_link_cleanup_CT(s, l) ==
    LET a == s.links[l].addr
        t == IF a = NoKey THEN s ELSE [s EXCEPT !.addrs[a].bound = @ \ {l}]
    IN  [t EXCEPT !.links = RcWithout(@, l)]

-----------------------------------------------------------------------------
(* Activation on a connection.                                              *)

qdr_link_route_activate_CT(s, r, c) ==
    [qdr_core_bind_address_conn_CT(s, s.lrs[r].addr, c) EXCEPT !.lrs[r].active = TRUE]

qdr_link_route_deactivate_CT(s, r, c) ==
    [qdr_core_unbind_address_conn_CT(s, s.lrs[r].addr, c) EXCEPT !.lrs[r].active = FALSE]

\* The address of an auto link is in the hash table: it has a key.
qdr_auto_link_activate_CT(s, n, c) == qdr_create_link_CT(s, c, n)

qdr_auto_link_deactivate_CT(s, n, c) ==
    LET l == s.als[n].link
        t == IF l = NoId THEN s
             ELSE [qdr_link_outbound_detach_CT(s, l) EXCEPT !.links[l].al = NoId,
                                                            !.als[n].link = NoId]
    IN  [t EXCEPT !.als[n].state = "inactive"]

\* Op on every member of a list, from its head on.
RcRouteOnAll(s, r, cs) == FoldLeft(LAMBDA t, c : qdr_link_route_activate_CT(t, r, c), s, cs)
RcLinkOnAll(s, n, cs) == FoldLeft(LAMBDA t, c : qdr_auto_link_activate_CT(t, n, c), s, cs)

activate_route_connection(s, c, key) ==
    LET t == FoldLeft(LAMBDA u, r : qdr_link_route_activate_CT(u, r, c), s, s.cids[key].lrs)
    IN  FoldLeft(LAMBDA u, n : qdr_auto_link_activate_CT(u, n, c), t, s.cids[key].als)

deactivate_route_connection(s, c, key) ==
    LET t == FoldLeft(LAMBDA u, r : qdr_link_route_deactivate_CT(u, r, c), s, s.cids[key].lrs)
        v == FoldLeft(LAMBDA u, n : qdr_auto_link_deactivate_CT(u, n, c), t, s.cids[key].als)
    IN  qdr_route_check_id_for_deletion_CT([v EXCEPT !.cids[key].conns = qdr_del_connection_ref(@, c)], key)

-----------------------------------------------------------------------------
(* Management.                                                              *)

qdr_route_add_link_route_CT(s, a, key) ==
    LET r == RcNewId(s.lrs)
        t == RcAddressRef([s EXCEPT !.lrs = RcWith(@, r, [addr |-> a, key |-> key, conn |-> NoId,
                                                        active |-> FALSE])], a)
        u == qdr_route_declare_id_CT(t, key)
    IN  IF key = NoKey THEN t
        ELSE RcRouteOnAll([u EXCEPT !.cids[key].lrs = Append(@, r)], r, u.cids[key].conns)

\* qdr_core_delete_link_route
RcDeleteLinkRoute(s, r) ==
    LET lr == s.lrs[r]
        t == IF lr.key = NoKey THEN s
             ELSE qdr_route_check_id_for_deletion_CT([s EXCEPT !.cids[lr.key].lrs = Remove(@, r)],
                                                     lr.key)
    IN  RcAddressUnref([t EXCEPT !.lrs = RcWithout(@, r)], lr.addr)

qdr_route_del_link_route_CT(s, r) ==
    LET key == s.lrs[r].key
        cs == IF key = NoKey THEN <<>> ELSE s.cids[key].conns
    IN  RcDeleteLinkRoute(FoldLeft(LAMBDA t, c : qdr_link_route_deactivate_CT(t, r, c), s, cs), r)

qdr_route_add_conn_route_CT(s, c, a) ==
    LET r == RcNewId(s.lrs)
    IN  qdr_link_route_activate_CT(
            RcAddressRef([s EXCEPT !.lrs = RcWith(@, r, [addr |-> a, key |-> NoKey, conn |-> c,
                                                       active |-> FALSE])], a), r, c)

qdr_route_del_conn_route_CT(s, r) ==
    RcDeleteLinkRoute(qdr_link_route_deactivate_CT(s, r, s.lrs[r].conn), r)

qdr_route_add_auto_link_CT(s, a, key, dir) ==
    LET n == RcNewId(s.als)
        t == RcAddressRef([s EXCEPT !.als = RcWith(@, n,
                 [addr |-> a, key |-> key, dir |-> dir, state |-> "inactive", link |-> NoId,
                  timer |-> NoTimer, retried |-> FALSE])], a)
        u == qdr_route_declare_id_CT(t, key)
    IN  IF key = NoKey THEN t
        ELSE RcLinkOnAll([u EXCEPT !.cids[key].als = Append(@, n)], n, u.cids[key].conns)

qdr_core_delete_auto_link(s, n) ==
    LET al == s.als[n]
        t == IF al.key = NoKey THEN s
             ELSE qdr_route_check_id_for_deletion_CT([s EXCEPT !.cids[al.key].als = Remove(@, n)],
                                                     al.key)
    IN  RcAddressUnref([t EXCEPT !.als = RcWithout(@, n)], al.addr)

qdr_route_del_auto_link_CT(s, n) ==
    LET key == s.als[n].key
        cs == IF key = NoKey THEN <<>> ELSE s.cids[key].conns
    IN  qdr_core_delete_auto_link(
            FoldLeft(LAMBDA t, c : qdr_auto_link_deactivate_CT(t, n, c), s, cs), n)

qdra_config_link_route_create_CT ==
    /\ Cardinality({r \in DOMAIN rc.lrs : rc.lrs[r].conn = NoId}) < rccf.routes
    /\ \E a \in RcLrAddrs, key \in rccf.keys : rc' = qdr_route_add_link_route_CT(rc, a, key)

qdra_config_link_route_delete_CT ==
    \E r \in DOMAIN rc.lrs : rc.lrs[r].conn = NoId /\ rc' = qdr_route_del_link_route_CT(rc, r)

\* Only over a connection, and only while the core knows it.
qdra_conn_link_route_create_CT ==
    /\ Cardinality({r \in DOMAIN rc.lrs : rc.lrs[r].conn # NoId}) < rccf.connroutes
    /\ \E c \in rccf.conns, a \in RcLrAddrs :
          /\ rc.conns[c] # "closed"
          /\ rc' = qdr_route_add_conn_route_CT(rc, c, a)

qdra_conn_link_route_delete_CT ==
    \E r \in DOMAIN rc.lrs :
        /\ rc.lrs[r].conn # NoId
        /\ rc' = qdr_route_del_conn_route_CT(rc, r)

\* The bound on links: of what has new links made, only the retries do not wait for room.
RcRoom == rccf.autos > 0 => Cardinality(DOMAIN rc.links) < rccf.links

qdra_config_auto_link_create_CT ==
    /\ Cardinality(DOMAIN rc.als) < rccf.autos
    /\ \E a \in RcAlAddrs, key \in rccf.keys, dir \in {"in", "out"} :
          RcRoom /\ rc' = qdr_route_add_auto_link_CT(rc, a, key, dir)

\* Only when no other link refers to the auto link: such a link would go on referring to it.
qdra_config_auto_link_delete_CT ==
    \E n \in DOMAIN rc.als :
        /\ \A l \in DOMAIN rc.links : rc.links[l].al = n => rc.als[n].link = l
        /\ rc' = qdr_route_del_auto_link_CT(rc, n)

-----------------------------------------------------------------------------
(* Connections of route containers.                                         *)

\* conn_id and alt_conn_id
RcConnKeys(c) ==
    IF RcLabel[c] = NoKey THEN <<RcContainer[c]>>
    ELSE IF RcContainer[c] = NoKey THEN <<RcLabel[c]>> ELSE <<RcLabel[c], RcContainer[c]>>

qdr_route_connection_opened_CT(s, c) ==
    FoldLeft(LAMBDA t, key :
                activate_route_connection(
                    [qdr_route_declare_id_CT(t, key) EXCEPT !.cids[key].conns = Append(@, c)], c, key),
             s, RcConnKeys(c))

qdr_route_connection_closed_CT(s, c) ==
    LET own == SetToSortSeq({r \in DOMAIN s.lrs : s.lrs[r].conn = c}, <)
        t == FoldLeft(qdr_route_del_conn_route_CT, s, own)
    IN  FoldLeft(LAMBDA u, key : deactivate_route_connection(u, c, key), t, RcConnKeys(c))

RcConnectionOpened(c) ==
    /\ rc.conns[c] = "closed"
    /\ RcRoom
    /\ rc' = qdr_route_connection_opened_CT([rc EXCEPT !.conns[c] = "open"], c)

\* The I/O thread reports the end of every link that is known to the peer, and then the end of the
\* connection.
RcConnectionLost(c) ==
    /\ rc.conns[c] = "open" /\ RcRoom
    /\ rc' = [rc EXCEPT !.conns[c] = "lost"]

RcConnectionClosed(c) ==
    /\ rc.conns[c] = "lost"
    /\ \A l \in DOMAIN rc.links : rc.links[l].conn = c /\ rc.links[l].wire => rc.links[l].received
    /\ LET s == qdr_route_connection_closed_CT([rc EXCEPT !.conns[c] = "closed"], c)
           left == SetToSortSeq({l \in DOMAIN s.links : s.links[l].conn = c}, <)
           \* qdr_route_auto_link_closed_CT
           Closed(t, l) == LET n == t.links[l].al
                               u == IF n = NoId THEN t ELSE [t EXCEPT !.als[n].timer = NoTimer]
                           IN  qdr_link_cleanup_CT(u, l)
       IN  rc' = FoldLeft(Closed, s, left)

-----------------------------------------------------------------------------
(* The links of auto links.                                                 *)

RcFirstAttachSent(l) ==
    /\ rc.conns[rc.links[l].conn] = "open"
    /\ ~rc.links[l].wire
    /\ rc' = [rc EXCEPT !.links[l].wire = TRUE]

\* The peer answers with a terminus, or without one when it is about to refuse.
qdr_link_inbound_second_attach_CT(l) ==
    /\ rc.conns[rc.links[l].conn] = "open"
    /\ rc.links[l].wire /\ ~rc.links[l].up /\ ~rc.links[l].received
    /\ LET s == [rc EXCEPT !.links[l].up = TRUE]
           n == rc.links[l].al
       IN  \/ n # NoId /\ rc' = RcBindLink([s EXCEPT !.als[n].state = "active"], rc.als[n].addr, l)
           \/ (rccf.refusals \/ n = NoId) /\ rc' = s

\* (mutant: only the first failure has the attach tried again)
qdr_route_auto_link_detached_CT_Once(s, n) ==
    IF s.als[n].retried THEN s
    ELSE [s EXCEPT !.als[n].timer = FirstRetry, !.als[n].retried = TRUE]

qdr_route_auto_link_detached_CT(s, n) ==
    IF s.als[n].retried THEN [s EXCEPT !.als[n].timer = Retry]
    ELSE [s EXCEPT !.als[n].timer = FirstRetry, !.als[n].retried = TRUE]

\* A detach by the peer, or the loss of the connection.
qdr_link_inbound_detach_CT(l) ==
    /\ rc.links[l].wire /\ ~rc.links[l].received
    /\ LET lost == rc.conns[rc.links[l].conn] = "lost"
           n == rc.links[l].al
           a == rc.links[l].addr
           s1 == [rc EXCEPT !.links[l].received = TRUE, !.links[l].count = @ + 1]
           s2 == IF n = NoId THEN s1
                 ELSE qdr_route_auto_link_detached_CT(
                          [s1 EXCEPT !.als[n].link = NoId, !.als[n].state = "failed"], n)
           s3 == IF a = NoKey THEN s2 ELSE RcUnbindLink(s2, a, l)
           s4 == IF s3.links[l].count = 1
                 THEN IF lost THEN qdr_link_cleanup_CT(s3, l) ELSE qdr_link_outbound_detach_CT(s3, l)
                 ELSE IF s3.links[l].sent THEN qdr_link_cleanup_CT(s3, l) ELSE s3
       IN  /\ \/ lost
              \/ rc.links[l].up /\ rc.links[l].count = 1
              \/ rc.links[l].up /\ rccf.refusals /\ RcRoom
           /\ rc' = IF a = NoKey THEN s4 ELSE RcCheckAddr(s4, a)

\* The I/O thread has sent the detach that the core asked for.
qdr_link_detach_sent_CT(l) ==
    /\ rc.conns[rc.links[l].conn] = "open"
    /\ rc.links[l].wire /\ ~rc.links[l].sent
    /\ rc.links[l].count = IF rc.links[l].received THEN 2 ELSE 1
    /\ LET s == [rc EXCEPT !.links[l].sent = TRUE]
       IN  rc' = IF s.links[l].received THEN qdr_link_cleanup_CT(s, l) ELSE s

\* A tick of the core's timers: those that are due attach their auto links again.
RcTick ==
    /\ \E n \in DOMAIN rc.als : rc.als[n].timer # NoTimer
    /\ LET due == {n \in DOMAIN rc.als : rc.als[n].timer = 0}
           s == [rc EXCEPT !.als = [n \in DOMAIN @ |->
                    [@[n] EXCEPT !.timer = IF @ = NoTimer THEN @ ELSE @ - 1]]]
           \* qdr_route_attempt_auto_link_CT
           Again(t, n) == RcLinkOnAll(t, n, t.cids[t.als[n].key].conns)
       IN  rc' = FoldLeft(Again, s, SetToSortSeq(due, <))

-----------------------------------------------------------------------------
RcInit ==
    /\ rccf \in RcConfigs
    /\ rc = [cids |-> [k \in {} |-> FreshCid], conns |-> [c \in DOMAIN RcLabel |-> "closed"],
             lrs |-> <<>>, als |-> <<>>, links |-> <<>>,
             addrs |-> [a \in {} |-> FreshRcAddr], local |-> {}]

RcNext ==
    /\ UNCHANGED rccf
    /\ \/ qdra_config_link_route_create_CT \/ qdra_config_link_route_delete_CT
       \/ qdra_conn_link_route_create_CT \/ qdra_conn_link_route_delete_CT
       \/ qdra_config_auto_link_create_CT \/ qdra_config_auto_link_delete_CT
       \/ \E c \in rccf.conns : RcConnectionOpened(c) \/ RcConnectionLost(c) \/ RcConnectionClosed(c)
       \/ \E l \in DOMAIN rc.links : \/ RcFirstAttachSent(l) \/ qdr_link_inbound_second_attach_CT(l)
                                     \/ qdr_link_inbound_detach_CT(l) \/ qdr_link_detach_sent_CT(l)
       \/ RcTick
\* What an auto link waits for: the core's timer.
RcFairness == WF_rcvars(RcTick /\ UNCHANGED rccf)

RcSpec == RcInit /\ [][RcNext]_rcvars /\ RcFairness

-----------------------------------------------------------------------------
(* Properties.                                                              *)

\* The connection is reached over the link route.
RoutedTo(r, c) ==
    \/ rc.lrs[r].conn = c
    \/ rc.lrs[r].key # NoKey /\ c \in ToSet(rc.cids[rc.lrs[r].key].conns)

\* An address lists a connection once for every link route that leads to it there, in whatever
\* order routes and connections came and went: the destinations that a routed attach may choose.
ConnsExact ==
    \A a \in DOMAIN rc.addrs, c \in rccf.conns :
        Len(SelectSeq(rc.addrs[a].conns, LAMBDA d : d = c))
            = Cardinality({r \in DOMAIN rc.lrs : rc.lrs[r].addr = a /\ RoutedTo(r, c)})

\* An identifier exists exactly while a connection or a route refers to it, and refers to each of
\* them once.
IdsExact ==
    \A k \in (Range(RcLabel) \cup Range(RcContainer) \cup rccf.keys) \ {NoKey} :
        LET cs == {c \in rccf.conns : rc.conns[c] # "closed" /\ k \in ToSet(RcConnKeys(c))}
            rs == {r \in DOMAIN rc.lrs : rc.lrs[r].key = k}
            ns == {n \in DOMAIN rc.als : rc.als[n].key = k}
        IN  /\ (k \in DOMAIN rc.cids) <=> (cs \cup rs \cup ns # {})
            /\ k \in DOMAIN rc.cids =>
                  LET i == rc.cids[k]
                  IN  /\ ToSet(i.conns) = cs /\ Len(i.conns) = Cardinality(cs)
                      /\ ToSet(i.lrs) = rs /\ Len(i.lrs) = Cardinality(rs)
                      /\ ToSet(i.als) = ns /\ Len(i.als) = Cardinality(ns)

\* An address lives exactly as long as a route names it or a link is bound to it, and the rest of
\* the network knows it as a destination here exactly while a connection or a consumer's link is.
AddressesExact ==
    /\ \A a \in RcLrAddrs \cup RcAlAddrs :
          LET users == Cardinality({r \in DOMAIN rc.lrs : rc.lrs[r].addr = a})
                       + Cardinality({n \in DOMAIN rc.als : rc.als[n].addr = a})
              bound == {l \in DOMAIN rc.links : rc.links[l].addr = a}
          IN  /\ (a \in DOMAIN rc.addrs) <=> (users > 0 \/ bound # {})
              /\ a \in DOMAIN rc.addrs => rc.addrs[a].ref = users /\ rc.addrs[a].bound = bound
    /\ rc.local = {a \in DOMAIN rc.addrs : rc.addrs[a].conns # <<>> \/ RcOutgoing(rc, a) # {}}

\* (qdr_route_*_CT, qdr_core_bind_address_conn_CT, qdr_check_addr_CT)
RoutesExact == ConnsExact /\ IdsExact /\ AddressesExact

\* An auto link that has failed does not stay so: the attach is tried again, or its connection or
\* the auto link itself goes (qdr_route_auto_link_detached_CT).
FailedIsRetried ==
    \A n \in 1..2 : (n \in DOMAIN rc.als /\ rc.als[n].state = "failed")
                       ~> (n \in DOMAIN rc.als => rc.als[n].state # "failed")

\* Both: the routes are those configured for the connections there are, and failures are retried.
RoutesCorrect == []RoutesExact /\ FailedIsRetried
=============================================================================
