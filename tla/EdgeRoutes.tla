----------------------------- MODULE EdgeRoutes -----------------------------
(* The link routes of an edge router.  Every link route that becomes active   *)
(* on the edge router gets a proxy on the interior router: a link route       *)
(* scoped to the edge connection, created and deleted by management requests  *)
(* (link_route_proxy.c, edge_mgmt.c, agent_conn_link_route.c).                *)
(*                                                                           *)
(* A link route is [chars, prefix]: its address as a sequence of characters   *)
(* and whether it is a prefix.  Proxies are numbered by the order in which    *)
(* they were made; requests carry the proxy's number as their context.        *)
EXTENDS Integers, Sequences, FiniteSets, SequencesExt

CONSTANT ErConfigs

VARIABLES ercfg, er

ervars == <<ercfg, er>>

ErLive(s) == {s.proxies[i].n : i \in DOMAIN s.proxies}
ErIdx(s, n) == CHOOSE i \in DOMAIN s.proxies : s.proxies[i].n = n
ErSet(s, n, st) == [s EXCEPT !.proxies[ErIdx(s, n)].st = st]
ErFree(s, n) == [s EXCEPT !.proxies = SelectSeq(@, LAMBDA p : p.n # n)]
ErState(s, n) == s.proxies[ErIdx(s, n)].st

ErInit ==
  /\ ercfg \in ErConfigs
  /\ er = [active |-> {}, proxies |-> <<>>, next |-> 1, credit |-> 0, conn |-> "down", client |-> "none", conns |-> 0,
           pending |-> {}, requests |-> <<>>, replies |-> <<>>, req |-> 1, wild |-> FALSE, errors |-> 0, moves |-> 0,
           interior |-> {}, ident |-> 1, allow |-> TRUE, denied |-> {}, stray |-> {}, doubled |-> {}]

(* What was met on the way, for the properties: the link routes denied by the *)
(* interior since they became active, those with a proxy that their going no  *)
(* longer deletes, and those whose creation the edge gave up on while the     *)
(* interior may have done it.                                                *)
ErMark(s, marks, n) == [s EXCEPT ![marks] = @ \cup {s.proxies[ErIdx(s, n)].r}]

-----------------------------------------------------------------------------
(* The edge router.                                                          *)

_free_link_route_proxy(s, n) == ErFree(s, n)

(* The proxy's address: patterns only, so a prefix gets a trailing "/#".     *)
ProxyAddress(r) == IF r.prefix THEN r.chars \o <<"/", "#">> ELSE r.chars

qdrc_client_request_CT_er(s, n, op) ==
  LET p == s.proxies[ErIdx(s, n)]
      q == [id |-> s.req, n |-> n, op |-> op, address |-> p.address, ident |-> p.ident]
  IN [s EXCEPT !.req = @ + 1, !.pending = @ \cup {q}, !.requests = Append(@, q)]

qcm_edge_mgmt_request_CT(s, n, op) == qdrc_client_request_CT_er(s, n, op)

(* One step of the walk over the proxies, while there is credit.            *)
ErSyncOne(s, n) ==
  IF s.credit = 0 THEN s
  ELSE CASE ErState(s, n) = "new" ->
              [qcm_edge_mgmt_request_CT(ErSet(s, n, "creating"), n, "CREATE") EXCEPT !.credit = @ - 1]
         [] ErState(s, n) = "deleted" ->
              [qcm_edge_mgmt_request_CT(ErSet(s, n, "deleting"), n, "DELETE") EXCEPT !.credit = @ - 1]
         [] OTHER -> s
_sync_interior_proxies(s) == FoldLeft(ErSyncOne, s, [i \in DOMAIN s.proxies |-> s.proxies[i].n])

_on_create_reply_CT_Forgets(s, n, status, ident) ==
  IF status # 201 THEN _free_link_route_proxy(s, n)
  ELSE ErSet([s EXCEPT !.proxies[ErIdx(s, n)].ident = ident], n, "created")
_on_create_reply_CT(s, n, status, ident) ==
  IF status # 201 THEN _free_link_route_proxy(ErMark(s, "denied", n), n)
  ELSE LET t == [s EXCEPT !.proxies[ErIdx(s, n)].ident = ident]
       IN IF ErState(t, n) = "cancelled" THEN _sync_interior_proxies(ErSet(t, n, "deleted"))
          ELSE ErSet(t, n, "created")

(* A proxy that was cancelled is made after all.                            *)
_on_create_error_CT(s, n) ==
  ErSet(IF ErState(s, n) = "cancelled" THEN ErMark(s, "stray", n) ELSE s, n, "new")
_on_delete_reply_CT(s, n) == _free_link_route_proxy(s, n)
_on_delete_error_CT(s, n) == ErSet(s, n, "deleted")

_link_route_added_CT(s, r) ==
  [s EXCEPT !.next = @ + 1,
            !.proxies = Append(@, [n |-> s.next, r |-> r, address |-> ProxyAddress(r), st |-> "new", ident |-> 0])]

(* The proxy is found by the beginning of its address: the address of a      *)
(* prefix route is shortened by two characters first.                       *)
ErFound(s, r) ==
  LET len == Len(r.chars) - (IF r.prefix THEN 2 ELSE 0)
      c   == {i \in DOMAIN s.proxies : /\ Len(s.proxies[i].address) >= len
                                       /\ SubSeq(s.proxies[i].address, 1, len) = SubSeq(r.chars, 1, len)}
  IN IF c = {} THEN {} ELSE {s.proxies[CHOOSE i \in c : \A j \in c : i <= j].n}
_link_route_deleted_CT(s, r) ==
  IF ErFound(s, r) = {} THEN s
  ELSE LET n == CHOOSE x \in ErFound(s, r) : TRUE
       IN CASE ErState(s, n) = "new"      -> _free_link_route_proxy(s, n)
            [] ErState(s, n) = "created"  -> ErSet(s, n, "deleted")
            [] ErState(s, n) = "creating" -> ErSet(s, n, "cancelled")
            [] OTHER -> ErMark(s, "stray", n)

_on_addr_event(s, r, event) ==
  _sync_interior_proxies(IF event = "became local dest" THEN _link_route_added_CT(s, r) ELSE _link_route_deleted_CT(s, r))

(* The interior forgets the proxies with the connection.                    *)
_on_conn_event(s) ==
  [s EXCEPT !.proxies =
     LET kept == SelectSeq(s.proxies, LAMBDA p : p.st \notin {"cancelled", "deleted", "deleting"})
     IN [i \in DOMAIN kept |-> [kept[i] EXCEPT !.st = "new", !.ident = 0]]]

qcm_edge_link_route_proxy_state_CT(s, active) ==
  IF ~active THEN [s EXCEPT !.credit = 0]
  ELSE IF s.credit > 0 THEN _sync_interior_proxies(s) ELSE s

qcm_edge_link_route_proxy_flow_CT(s, n, drain) ==
  LET t == _sync_interior_proxies([s EXCEPT !.credit = @ + n]) IN IF drain THEN [t EXCEPT !.credit = 0] ELSE t

-----------------------------------------------------------------------------
(* The management client: replies, errors and their callbacks.  A callback   *)
(* for a proxy that has gone would use freed memory.                         *)

_extract_mgmt_status(m) == m.status

ErWild(s, q) == [s EXCEPT !.wild = TRUE]
_mgmt_on_reply_cb_CT(s, q, m) ==
  IF q.n \notin ErLive(s) THEN ErWild(s, q)
  ELSE IF q.op = "CREATE" THEN _on_create_reply_CT(s, q.n, _extract_mgmt_status(m), m.ident)
  ELSE _on_delete_reply_CT(s, q.n)

_mgmt_on_error(s, q) ==
  IF q.n \notin ErLive(s) THEN ErWild(s, q)
  ELSE IF q.op = "CREATE" THEN _on_create_error_CT(s, q.n) ELSE _on_delete_error_CT(s, q.n)

(* The error callback runs once: on the disposition, or when the request is  *)
(* done.                                                                     *)
_mgmt_on_ack_cb_CT(s, q) == _mgmt_on_error(s, q)
_mgmt_on_done_cb_CT(s, q, error, acked) ==
  LET t == [s EXCEPT !.pending = @ \ {q}]
      u == IF q.op = "CREATE" /\ q.n \in ErLive(s) THEN ErMark(t, "doubled", q.n) ELSE t
  IN  IF error /\ ~acked THEN _mgmt_on_error(u, q) ELSE t

(* Every request of the client fails when its links go.                      *)
ErFailAll(s) ==
  FoldLeft(LAMBDA t, q : _mgmt_on_done_cb_CT(t, q, TRUE, FALSE), s,
           SetToSortSeq(s.pending, LAMBDA p, q : p.id < q.id))

_conn_event_CT(s, event) ==
  IF event = "established" THEN [s EXCEPT !.client = "attaching"] ELSE [s EXCEPT !.client = "none"]

_mgmt_on_state_cb_CT(s, active) == qcm_edge_link_route_proxy_state_CT(s, active)
_mgmt_on_flow_cb_CT(s, n, drain) == qcm_edge_link_route_proxy_flow_CT(s, n, drain)

-----------------------------------------------------------------------------
(* The interior router.                                                      *)

_find_link_route_CT(s, ident) == {x \in s.interior : x.ident = ident}

(* The policy of the connection may not allow link routes to be created.  A  *)
(* refusal for want of the connection has nobody left to read it, and no     *)
(* proxy sends a pattern that does not parse.                                *)
qdra_conn_link_route_create_CT(s, q) ==
  IF ~s.allow THEN [s EXCEPT !.replies = Append(@, [q |-> q, status |-> 403, ident |-> 0])] ELSE
  [s EXCEPT !.interior = @ \cup {[ident |-> s.ident, address |-> q.address]}, !.ident = @ + 1,
            !.replies = Append(@, [q |-> q, status |-> 201, ident |-> s.ident])]

qdra_conn_link_route_delete_CT(s, q) ==
  LET x == _find_link_route_CT(s, q.ident) IN
  [s EXCEPT !.interior = @ \ x, !.replies = Append(@, [q |-> q, status |-> IF x = {} THEN 404 ELSE 204, ident |-> 0])]

-----------------------------------------------------------------------------
ErStep(s) == er' = s /\ UNCHANGED ercfg
ErMove == er.moves < ercfg.moves
ErMoved(s) == [s EXCEPT !.moves = @ + 1]
ErErr == er.errors < ercfg.errors
ErFailed(s) == [s EXCEPT !.errors = @ + 1]

RouteActivated(r) ==
  /\ ErMove /\ r \notin er.active
  /\ ErStep(ErMoved(_on_addr_event([er EXCEPT !.active = @ \cup {r}, !.denied = @ \ {r}], r,
                                   "became local dest")))

RouteDeactivated(r) ==
  /\ r \in er.active
  /\ ErStep(_on_addr_event([er EXCEPT !.active = @ \ {r}], r, "no longer local dest"))

ErOpened(allow) ==
  /\ er.conn = "down" /\ er.conns < ercfg.conns
  /\ allow \/ ErErr
  /\ LET s == _conn_event_CT([er EXCEPT !.conn = "up", !.conns = @ + 1, !.allow = allow], "established")
     IN ErStep(IF allow THEN s ELSE ErFailed(s))

ErActive ==
  /\ er.client = "attaching"
  /\ ErStep(_mgmt_on_state_cb_CT([er EXCEPT !.client = "active"], TRUE))

ErFlow(drain) ==
  /\ er.client = "active" /\ er.credit + Cardinality(er.pending) < ercfg.window
  /\ drain => ErErr
  /\ ErStep(LET s == _mgmt_on_flow_cb_CT(er, 1, drain) IN IF drain THEN ErFailed(s) ELSE s)

ErInteriorTakes ==
  /\ er.requests # <<>>
  /\ LET q == Head(er.requests)
         s == [er EXCEPT !.requests = Tail(@)]
     IN ErStep(IF q.op = "CREATE" THEN qdra_conn_link_route_create_CT(s, q) ELSE qdra_conn_link_route_delete_CT(s, q))

(* A reply to a request that is no longer held is released.                  *)
ErReply ==
  /\ er.replies # <<>> /\ er.client = "active"
  /\ LET m == Head(er.replies)
         s == [er EXCEPT !.replies = Tail(@)]
     IN ErStep(IF m.q \in er.pending THEN _mgmt_on_done_cb_CT(_mgmt_on_reply_cb_CT(s, m.q, m), m.q, FALSE, FALSE) ELSE s)

(* The interior does not accept the request.                                 *)
ErRefused ==
  /\ er.requests # <<>> /\ ErErr
  /\ LET q == Head(er.requests)
         s == ErFailed([er EXCEPT !.requests = Tail(@)])
     IN ErStep(IF q \in er.pending THEN _mgmt_on_done_cb_CT(_mgmt_on_ack_cb_CT(s, q), q, TRUE, TRUE) ELSE s)

ErTimeout ==
  /\ ErErr
  /\ \E q \in er.pending : ErStep(ErFailed(_mgmt_on_done_cb_CT(er, q, TRUE, FALSE)))

(* The client's links are detached: its requests fail and nothing more is    *)
(* sent on this connection.                                                  *)
ErLinksLost ==
  /\ er.client = "active" /\ ErErr
  /\ ErStep(ErFailed(ErFailAll(_mgmt_on_state_cb_CT([er EXCEPT !.client = "lost"], FALSE))))

(* The loss of the connection first cleans the client's links up.           *)
ErLost ==
  /\ er.conn = "up"
  /\ LET s == ErFailAll(_mgmt_on_state_cb_CT([er EXCEPT !.requests = <<>>, !.replies = <<>>], FALSE))
     IN ErStep([_on_conn_event(_conn_event_CT(s, "lost")) EXCEPT !.conn = "down", !.interior = {}, !.doubled = {}])

ErNext ==
  \/ \E r \in ercfg.routes : RouteActivated(r) \/ RouteDeactivated(r)
  \/ \E drain \in BOOLEAN : ErFlow(drain)
  \/ \E allow \in BOOLEAN : ErOpened(allow)
  \/ ErActive \/ ErInteriorTakes \/ ErReply \/ ErRefused \/ ErTimeout \/ ErLinksLost \/ ErLost

ErSpec == ErInit /\ [][ErNext]_ervars

-----------------------------------------------------------------------------
ErQuiet ==
  /\ er.client = "active" /\ er.pending = {} /\ er.requests = <<>> /\ er.replies = <<>>
  /\ \A i \in DOMAIN er.proxies : er.proxies[i].st \notin {"new", "deleted"}

(* The going of another link route may delete this one's proxy, or the other  *)
(* way round: the address it is found by begins the proxy's.                 *)
ErCollides(r) ==
  \E q \in ercfg.routes \ {r} :
    LET Finds(a, b) == IsPrefix(SubSeq(a.chars, 1, Len(a.chars) - IF a.prefix THEN 2 ELSE 0), ProxyAddress(b))
    IN  Finds(q, r) \/ Finds(r, q)

(* No callback meets a proxy that was freed, and at most one request per      *)
(* proxy is outstanding.  Once no request is outstanding or due, whatever     *)
(* was refused, lost, timed out or crossed before: the interior router has a  *)
(* proxy, known to the edge by its identity, for every link route that is     *)
(* active, unless its policy denied one; and it has no second one and none    *)
(* for a link route that is not active, unless the creation of one failed     *)
(* without the interior's having refused it, and the connection is still the  *)
(* same, or unless the link route went while the edge was cancelling a proxy  *)
(* of it whose creation failed then, or deleting one (link_route_proxy.c:246, *)
(* :357).  Nothing of this is claimed for link routes whose addresses         *)
(* collide (:353).                                                           *)
EdgeRoutesSound ==
  /\ ~er.wild
  /\ \A p, q \in er.pending : p.n = q.n => p = q
  /\ \A q \in er.pending : q.n \in ErLive(er) /\ ErState(er, q.n) \in {"creating", "cancelled", "deleting"}
  /\ ErQuiet => \A r \in {x \in ercfg.routes : ~ErCollides(x)} :
       LET there == {x \in er.interior : x.address = ProxyAddress(r)}
           known == {i \in DOMAIN er.proxies :
                       /\ er.proxies[i].r = r /\ er.proxies[i].st = "created"
                       /\ _find_link_route_CT(er, er.proxies[i].ident) \cap there # {}}
       IN  /\ r \in er.active /\ r \notin er.denied => known # {}
           /\ r \notin er.stray \cup er.doubled =>
                 Cardinality(there) <= IF r \in er.active THEN 1 ELSE 0

====
