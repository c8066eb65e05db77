---------------------------- MODULE AddressLookup ----------------------------
(***************************************************************************)
(* How an edge router answers an attach: it asks the interior router, over *)
(* the active edge connection, whether the address is a link route.        *)
(* Modelled: the choice of the active edge connection                      *)
(* (edge_router/connection_manager.c), the core's link endpoints           *)
(* (core_link_endpoint.c), the request/reply client built on them          *)
(* (core_client_api.c), the lookup client (address_lookup_client.c) and    *)
(* the server in the interior router (address_lookup_server.c).            *)
(*                                                                         *)
(* A request is known by the attaching link (user "lookup") or by its      *)
(* number (user "test": requests with any combination of acknowledgement,  *)
(* reply and timer).  What a local search finds is Addresses'.             *)
(***************************************************************************)
EXTENDS Integers, Sequences, FiniteSets, SequencesExt

CONSTANT AlConfigs   \* [user, reqs, conns, window, losses, detaches, drains, early]

VARIABLES alcfg, al

alvars == <<alcfg, al>>

AlReqs == DOMAIN alcfg.reqs
IsLookup == alcfg.user = "lookup"

(* A fresh client: nothing up, no credit (qdrc_client_CT).                 *)
qdrc_client_CT == [live |-> TRUE, sender |-> TRUE, receiver |-> TRUE, sup |-> FALSE, rup |-> FALSE,
                   reply_to |-> FALSE, tx |-> 0, active |-> FALSE]
NoClient == [qdrc_client_CT EXCEPT !.live = FALSE, !.sender = FALSE, !.receiver = FALSE]

AlInit ==
  /\ alcfg \in AlConfigs
  /\ al = [open |-> <<>>, edge |-> "none", api |-> NoClient,
           ep |-> [s |-> "none", r |-> "none"],
           sendq |-> <<>>, unsettled |-> <<>>, replies |-> <<>>, timers |-> {}, keys |-> {},
           on |-> FALSE, credit |-> 0, pending |-> <<>>, sent |-> <<>>, conn |-> "none",
           link |-> [r \in AlReqs |-> [st |-> "new", answers |-> 0, how |-> "none"]],
           done |-> [r \in AlReqs |-> 0], acked |-> {}, freed |-> {},
           atserver |-> <<>>, flow |-> 0, answers |-> {}, server |-> "none",
           null |-> {}, lost |-> 0, went |-> 0, drains |-> 0]

Without(seq, r) == SelectSeq(seq, LAMBDA x : x # r)

-----------------------------------------------------------------------------
(* The answers an attach can get.  A link that has been freed gets none.   *)

AlAnswer(s, r, how) == [s EXCEPT !.link[r].answers = @ + 1, !.link[r].how = how]

AlLocalSearch(s, r) == IF s.link[r].st = "gone" THEN s ELSE AlAnswer(s, r, "local")

-----------------------------------------------------------------------------
(* The end of a request: off every list, its timer and correlation gone,   *)
(* and the user told, with an error or without.                            *)

on_request_done(s, r, error) ==
  LET t == IF error THEN AlLocalSearch(s, r) ELSE s IN [t EXCEPT !.sent = Without(@, r)]

_free_request_CT(s, r, error) ==
  LET t == [s EXCEPT !.timers = @ \ {r}, !.sendq = Without(@, r), !.unsettled = Without(@, r),
                     !.replies = Without(@, r), !.keys = @ \ {r}, !.freed = @ \cup {r}]
      u == IF IsLookup THEN on_request_done(t, r, error) ELSE t
  IN [u EXCEPT !.done[r] = @ + 1]

FreeAll(s, rs, error) == FoldLeft(LAMBDA x, r : _free_request_CT(x, r, error), s, rs)

-----------------------------------------------------------------------------
(* Sending.  A request that wants a reply waits for the reply-to; one that *)
(* wants nothing is finished when it is sent.                              *)

WantsReply(r) == alcfg.reqs[r].reply
WantsAck(r)   == alcfg.reqs[r].ack

_create_message_CT(s, r) == IF WantsReply(r) THEN [s EXCEPT !.keys = @ \cup {r}] ELSE s

qdrc_endpoint_send_CT(s, r) ==
  IF s.api.sender THEN [s EXCEPT !.atserver = Append(@, r)] ELSE [s EXCEPT !.null = @ \cup {"sender"}]

SendHead(s) ==
  LET r == Head(s.sendq)
      t == qdrc_endpoint_send_CT(_create_message_CT(s, r), r)
      u == [t EXCEPT !.sendq = Tail(@), !.api.tx = @ - 1,
                     !.unsettled = IF WantsAck(r) THEN Append(@, r) ELSE @,
                     !.replies = IF WantsReply(r) THEN Append(@, r) ELSE @]
  IN IF WantsAck(r) \/ WantsReply(r) THEN u ELSE _free_request_CT(u, r, FALSE)

RECURSIVE _flush_send_queue_CT(_)
_flush_send_queue_CT(s) ==
  IF s.sendq = <<>> \/ s.api.tx <= 0 \/ (WantsReply(Head(s.sendq)) /\ ~s.api.reply_to) THEN s
  ELSE _flush_send_queue_CT(SendHead(s))

_send_request_CT(s, r) == _flush_send_queue_CT([s EXCEPT !.sendq = Append(@, r)])

qdrc_client_request_CT(s, r) ==
  _send_request_CT(IF alcfg.reqs[r].timer THEN [s EXCEPT !.timers = @ \cup {r}] ELSE s, r)

-----------------------------------------------------------------------------
(* The lookup client.                                                      *)

RECURSIVE qcm_addr_lookup_process_pending_requests_CT(_)
qcm_addr_lookup_process_pending_requests_CT(s) ==
  IF s.credit <= 0 \/ s.pending = <<>> THEN s
  ELSE LET r == Head(s.pending)
           counted(t) == [t EXCEPT !.sent = Append(t.sent, r), !.credit = t.credit - 1]
       IN qcm_addr_lookup_process_pending_requests_CT(
            counted(qdrc_client_request_CT([s EXCEPT !.pending = Tail(@)], r)))

on_state(s, active) ==
  IF active THEN [s EXCEPT !.on = TRUE]
  ELSE LET t == [s EXCEPT !.on = FALSE, !.credit = 0, !.pending = <<>>] IN
       FoldLeft(LAMBDA x, r : AlLocalSearch(x, r), t, s.pending)

on_flow(s, more, drain) ==
  LET drained(t) == IF drain THEN [t EXCEPT !.credit = 0] ELSE t IN
  drained(qcm_addr_lookup_process_pending_requests_CT([s EXCEPT !.credit = @ + more]))

(* Only a reply with status OK says anything about the address.            *)
qcm_link_route_lookup_decode(m) ==
  [status |-> m.status, lr |-> m.status = "ok" /\ m.lr, dests |-> m.status = "ok" /\ m.dests]

AlForwarded(s, r) ==
  AlAnswer(IF s.conn = "none" THEN [s EXCEPT !.null = @ \cup {"conn"}] ELSE s, r, "forwarded")

on_reply(s, r, reply) ==
  LET m == qcm_link_route_lookup_decode(reply) IN
  IF s.link[r].st = "gone" THEN s
  ELSE IF m.status # "ok" \/ ~m.lr THEN AlLocalSearch(s, r)
  ELSE IF ~m.dests THEN AlAnswer(s, r, "rejected")
  ELSE AlForwarded(s, r)

qcm_addr_lookup_CT(s, r) ==
  LET t == [s EXCEPT !.link[r].st = "open"] IN
  IF t.on /\ ~alcfg.reqs[r].local
  THEN qcm_addr_lookup_process_pending_requests_CT([t EXCEPT !.pending = Append(@, r)])
  ELSE AlLocalSearch(t, r)

-----------------------------------------------------------------------------
(* The handlers of the client's two endpoints.                             *)

OnFlow(s, n, drain) == IF IsLookup THEN on_flow(s, n, drain) ELSE s
OnState(s, active) == IF IsLookup THEN on_state(s, active) ELSE s

_state_updated_CT(s) ==
  LET up == s.api.sup /\ s.api.rup
      flows(t) == IF up /\ t.api.tx > 0 THEN OnFlow(t, t.api.tx, FALSE) ELSE t
  IN IF up = s.api.active THEN s ELSE flows(OnState([s EXCEPT !.api.active = up], up))

_sender_second_attach_CT(s) == IF s.api.sup THEN s ELSE _state_updated_CT([s EXCEPT !.api.sup = TRUE])

_receiver_second_attach_CT(s) ==
  IF s.api.rup THEN s ELSE _state_updated_CT([s EXCEPT !.api.rup = TRUE, !.api.reply_to = TRUE])

_sender_flow_CT(s, n, drain) ==
  LET flows(t) == IF t.api.active THEN OnFlow(t, t.api.tx, drain) ELSE t
      drained(u) == IF drain THEN [u EXCEPT !.api.tx = 0] ELSE u
  IN drained(flows(_flush_send_queue_CT([s EXCEPT !.api.tx = @ + n])))

(* The request may have gone: its reply came first, or its timer.          *)
_sender_update_CT(s, r, accepted) ==
  IF r \notin ToSet(s.unsettled) THEN s
  ELSE LET t == [s EXCEPT !.acked = @ \cup {r}, !.unsettled = Without(@, r)] IN
       IF r \notin ToSet(t.replies) \/ ~accepted THEN _free_request_CT(t, r, FALSE) ELSE t

_receiver_transfer_CT(s, r, reply) ==
  IF r \notin s.keys THEN s
  ELSE LET t == [s EXCEPT !.keys = @ \ {r}, !.replies = Without(@, r)] IN
       _free_request_CT(IF IsLookup THEN on_reply(t, r, reply) ELSE t, r, FALSE)

_sender_detached_CT(s) ==
  LET t == [s EXCEPT !.api.sup = FALSE, !.api.tx = 0]
      u == FreeAll(t, t.sendq, TRUE)
  IN [IF s.api.sup THEN _state_updated_CT(FreeAll(u, u.unsettled, TRUE)) ELSE s
      EXCEPT !.api.sender = FALSE]

_receiver_detached_CT(s) ==
  LET t == [s EXCEPT !.api.rup = FALSE, !.api.reply_to = FALSE] IN
  [IF s.api.rup THEN _state_updated_CT(FreeAll(t, t.replies, TRUE)) ELSE s
   EXCEPT !.api.receiver = FALSE]

_sender_cleanup_CT(s)   == _sender_detached_CT(s)
_receiver_cleanup_CT(s) == _receiver_detached_CT(s)

qdrc_client_free_CT(s) ==
  LET t == FreeAll(s, s.sendq, FALSE)
      u == FreeAll(t, t.unsettled, FALSE)
  IN [FreeAll(u, u.replies, FALSE) EXCEPT !.api = NoClient]

-----------------------------------------------------------------------------
(* Endpoints.  The client answers no detach: its endpoint stays until the  *)
(* connection goes.                                                        *)

qdrc_endpoint_create_link_CT(s) == [s EXCEPT !.ep = [s |-> "attaching", r |-> "attaching"]]

qdrc_endpoint_do_second_attach_CT(s, e) ==
  LET t == [s EXCEPT !.ep[e] = "up"] IN
  IF e = "s" THEN _sender_second_attach_CT(t) ELSE _receiver_second_attach_CT(t)

qdrc_endpoint_do_detach_CT(s, e) ==
  LET t == [s EXCEPT !.ep[e] = "detached"] IN
  IF e = "s" THEN _sender_detached_CT(t) ELSE _receiver_detached_CT(t)

qdrc_endpoint_do_cleanup_CT(s, e) ==
  LET t == [s EXCEPT !.ep[e] = "none"] IN
  IF s.ep[e] = "none" THEN s ELSE IF e = "s" THEN _sender_cleanup_CT(t) ELSE _receiver_cleanup_CT(t)

-----------------------------------------------------------------------------
(* Edge connections: the lookup client follows the active one.             *)

AlOnConnEvent(s, event, k) ==
  IF event = "established"
  THEN qdrc_endpoint_create_link_CT([s EXCEPT !.conn = k, !.credit = 0, !.api = qdrc_client_CT])
  ELSE [qdrc_client_free_CT([s EXCEPT !.conn = "none", !.credit = 0])
        EXCEPT !.server = "none", !.atserver = <<>>, !.flow = 0, !.answers = {}]

CmOnOpened(s, k) ==
  IF s.edge # "none" THEN s ELSE AlOnConnEvent([s EXCEPT !.edge = k], "established", k)

(* The first other edge connection that is open takes over.                *)
CmOnClosed(s, k) ==
  LET others == Without(s.open, k)
      taken_over(t) ==
        IF others = <<>> THEN [t EXCEPT !.edge = "none"]
        ELSE AlOnConnEvent([t EXCEPT !.edge = Head(others)], "established", Head(others))
  IN IF s.edge # k THEN s ELSE taken_over(AlOnConnEvent(s, "lost", k))

(* The links of the connection are cleaned up before the event is raised.  *)
AlConnectionClosed(s, k) ==
  LET closed(t) == [t EXCEPT !.open = Without(t.open, k)]
  IN closed(CmOnClosed(IF s.edge # k THEN s
                       ELSE qdrc_endpoint_do_cleanup_CT(qdrc_endpoint_do_cleanup_CT(s, "s"), "r"), k))

-----------------------------------------------------------------------------
(* The server: one request in, one reply out, one credit back.             *)

_on_first_attach(s) == [s EXCEPT !.server = "up", !.flow = alcfg.window]

(* A reply needs an address to go to and a correlation.                    *)
_send_reply(s, r, m) == IF WantsReply(r) THEN [s EXCEPT !.answers = @ \cup {<<r, m>>}] ELSE s

_do_link_route_lookup(s, r) ==
  LET f == alcfg.reqs[r].found IN
  _send_reply(s, r, [status |-> IF f = "none" THEN "not found" ELSE "ok", lr |-> f # "none", dests |-> f = "dests"])

_on_transfer_NoCredit(s) ==
  LET r == Head(s.atserver) IN
  [IF alcfg.reqs[r].valid THEN _do_link_route_lookup(s, r) ELSE s EXCEPT !.atserver = Tail(@)]
_on_transfer(s) ==
  LET r == Head(s.atserver) IN
  [IF alcfg.reqs[r].valid THEN _do_link_route_lookup(s, r) ELSE s EXCEPT !.atserver = Tail(@), !.flow = @ + 1]

-----------------------------------------------------------------------------
AlSame == UNCHANGED alcfg

EdgeOpened(k) ==
  /\ k \notin ToSet(al.open) /\ al.went + Len(al.open) < alcfg.edges
  /\ al' = [CmOnOpened(al, k) EXCEPT !.open = Append(@, k)]
  /\ AlSame

EdgeClosed(k) ==
  /\ k \in ToSet(al.open)
  /\ al' = [AlConnectionClosed(al, k) EXCEPT !.went = @ + 1]
  /\ AlSame

SecondAttach(e) ==
  /\ al.ep[e] = "attaching"
  /\ al' = LET t == IF e = "s" THEN _on_first_attach(al) ELSE al IN qdrc_endpoint_do_second_attach_CT(t, e)
  /\ AlSame

EndpointDetached(e) ==
  /\ al.ep[e] \in {"attaching", "up"} /\ al.lost < alcfg.detaches
  /\ al' = qdrc_endpoint_do_detach_CT([al EXCEPT !.lost = @ + 1], e)
  /\ AlSame

(* Credit arrives, one flow at a time or several at once.                  *)
qdrc_endpoint_do_flow_CT(drain) ==
  /\ al.ep.s = "up" /\ (al.flow > 0 \/ drain)
  /\ drain => al.drains < alcfg.drains
  /\ \E n \in {k \in 0..al.flow : k > 0 \/ drain} :
        al' = _sender_flow_CT([al EXCEPT !.flow = @ - n, !.drains = IF drain THEN @ + 1 ELSE @], n, drain)
  /\ AlSame

ServerTakes ==
  /\ al.atserver # <<>> /\ al.server = "up"
  /\ al' = _on_transfer(al)
  /\ AlSame

(* The reply arrives, or found no way back to the edge router.             *)
qdrc_endpoint_do_deliver_CT ==
  \E a \in al.answers :
     /\ al.ep.r = "up"
     /\ al' = _receiver_transfer_CT([al EXCEPT !.answers = @ \ {a}], a[1], a[2])
     /\ AlSame

ReplyLost ==
  \E a \in al.answers :
     /\ al.lost < alcfg.detaches
     /\ al' = [al EXCEPT !.answers = @ \ {a}, !.lost = @ + 1]
     /\ AlSame

qdrc_endpoint_do_update_CT(r, accepted) ==
  /\ r \in ToSet(al.unsettled) /\ r \notin ToSet(al.atserver) /\ al.ep.s = "up"
  /\ al' = _sender_update_CT(al, r, accepted)
  /\ AlSame

_timer_expired(r) ==
  /\ r \in al.timers
  /\ al' = _free_request_CT([al EXCEPT !.timers = @ \ {r}], r, TRUE)
  /\ AlSame

(* An attach on a connection of a client.                                  *)
AlAttach(r) ==
  /\ IsLookup /\ al.link[r].st = "new"
  /\ al' = qcm_addr_lookup_CT(al, r)
  /\ AlSame

LinkDetached(r) ==
  /\ IsLookup /\ al.link[r].st = "open"
  /\ al' = [al EXCEPT !.link[r].st = "closing"]
  /\ AlSame

LinkFreed(r) ==
  /\ IsLookup /\ al.link[r].st = "closing"
  /\ al' = [al EXCEPT !.link[r].st = "gone"]
  /\ AlSame

TestRequest(r) ==
  /\ ~IsLookup /\ al.api.live /\ al.link[r].st = "new"
  /\ (al.api.active \/ (alcfg.early /\ ~al.api.sup))
  /\ al' = qdrc_client_request_CT([al EXCEPT !.link[r].st = "open"], r)
  /\ AlSame

AlNext ==
  \/ \E k \in alcfg.conns : EdgeOpened(k) \/ EdgeClosed(k)
  \/ \E e \in {"s", "r"} : SecondAttach(e) \/ EndpointDetached(e)
  \/ \E drain \in BOOLEAN : qdrc_endpoint_do_flow_CT(drain)
  \/ ServerTakes \/ qdrc_endpoint_do_deliver_CT \/ ReplyLost
  \/ \E r \in AlReqs : \/ AlAttach(r) \/ LinkDetached(r) \/ LinkFreed(r) \/ TestRequest(r) \/ _timer_expired(r)
                     \/ \E accepted \in BOOLEAN : qdrc_endpoint_do_update_CT(r, accepted)

(* The interior router takes requests and returns credit, and timers fire. *)
AlFair ==
  /\ WF_alvars(ServerTakes)
  /\ WF_alvars(qdrc_endpoint_do_flow_CT(FALSE))
  /\ \A r \in 1..2 : WF_alvars(r \in AlReqs /\ _timer_expired(r))

AlSpec == AlInit /\ [][AlNext]_alvars /\ AlFair

-----------------------------------------------------------------------------
AlHeld(r) == r \in ToSet(al.sendq) \cup ToSet(al.unsettled) \cup ToSet(al.replies)

(* The lists of the client agree, whatever order replies, timeouts, credit *)
(* and the loss of links and connections take: a request is on a list      *)
(* until its user is told it is done, and never after; its timer and its   *)
(* correlation live as long as it does; requests end once; no message is   *)
(* sent without a sender; a freed client leaves nothing behind.            *)
ClientSound ==
  /\ \A r \in AlReqs :
        /\ al.done[r] <= 1
        /\ AlHeld(r) => al.done[r] = 0 /\ r \notin al.freed
        /\ (~AlHeld(r) /\ al.done[r] = 0) => r \notin al.timers \cup al.keys
        /\ r \in al.timers => AlHeld(r)
        /\ r \in al.keys <=> r \in ToSet(al.replies)
        /\ r \in ToSet(al.sendq) => r \notin ToSet(al.unsettled) \cup ToSet(al.replies)
        /\ (~IsLookup /\ al.link[r].st = "open") => AlHeld(r) \/ al.done[r] = 1
  /\ al.null = {}
  /\ ~al.api.live => al.sendq = <<>> /\ al.unsettled = <<>> /\ al.replies = <<>>

(* Every attach the lookup client accepted is answered exactly once, by    *)
(* the reply, by the timer, or by the loss of the links or of the          *)
(* connection: until then it is either pending or sent, and sent exactly   *)
(* when the request client holds it.                                       *)
AnsweredOnce ==
  IsLookup => \A r \in AlReqs :
     /\ al.link[r].answers <= 1
     /\ (al.link[r].st = "open" /\ al.link[r].answers = 0) =>
           (r \in ToSet(al.pending)) # (r \in ToSet(al.sent))
     /\ r \in ToSet(al.sent) <=> AlHeld(r)
     /\ r \in ToSet(al.pending) => al.on /\ al.conn # "none"

(* The client's lists agree and no attach is answered twice (see above;     *)
(* core_client_api.c, address_lookup_client.c).                            *)
LookupSound == ClientSound /\ AnsweredOnce

(* An attach is answered in the end unless its link goes first: a lookup   *)
(* whose reply never comes is ended by the timer, one that waits for       *)
(* credit by the server's next flow.                                       *)
LookupEnds ==
  \A r \in 1..2 : (IsLookup /\ r \in AlReqs /\ al.link[r].st = "open" /\ al.link[r].answers = 0)
                  ~> (r \in AlReqs /\ (al.link[r].st # "open" \/ al.link[r].answers = 1))

(* Every attach that needs a lookup is answered, and answered once.        *)
LookupCorrect == []LookupSound /\ LookupEnds
=============================================================================
