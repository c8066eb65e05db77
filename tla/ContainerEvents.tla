-------------------------- MODULE ContainerEvents --------------------------
(***************************************************************************)
(* One AMQP connection of the router, from the events Proton hands to an   *)
(* I/O thread (server.c, container.c) through the AMQP adaptor             *)
(* (router_node.c) to the core thread and back.                            *)
(*                                                                         *)
(* A link has three objects that point at each other: Proton's pn_link,    *)
(* the container's qd_link and the core's qdr_link.  Two threads take them *)
(* apart, in pieces, whichever end goes first: the peer detaches, ends the *)
(* session, closes or drops the connection; the core rejects or detaches.  *)
(* What is modelled is who frees what, when the remaining pointers are     *)
(* cleared, and the policy's counts of sessions and links.                 *)
(*                                                                         *)
(* Proton is external.  Its collector is the queue evq: input frames set   *)
(* the remote state at once and their events are handled later, in order;  *)
(* closing an endpoint locally queues an event too.  A batch of events     *)
(* ends when the queue is empty.                                           *)
(***************************************************************************)
EXTENDS Integers, Sequences, FiniteSets, SequencesExt

CONSTANT CeConfigs   \* the connections the model may start with

VARIABLES cecfg,     \* the sessions, links and policy of this connection
          ce         \* Proton's, the container's and the core's objects

cevars == <<cecfg, ce>>

CeSess == DOMAIN cecfg.sess
CeLinks == DOMAIN cecfg.links
SessOf(l) == cecfg.links[l].sess
LinksOf(s) == {l \in CeLinks : SessOf(l) = s}
IsOut(l) == cecfg.links[l].dir = "out"
ByRouter(l) == cecfg.links[l].by = "router"

\* The links in the order Proton's pn_link_head/pn_link_next visits them.
LinkOrder == SetToSeq(CeLinks)

E(t, x) == [t |-> t, x |-> x]
D(t, x, dt) == [t |-> t, x |-> x, dt |-> dt]
W(t, close) == [t |-> t, close |-> close]

NoLink == [st |-> "none", pn |-> FALSE, ctx |-> FALSE, q3 |-> FALSE]
NoCoreLink == [st |-> "none", ctx |-> FALSE, count |-> 0, received |-> FALSE,
               sent |-> FALSE, work |-> <<>>]

CeInit ==
  /\ cecfg \in CeConfigs
  /\ ce = [pc |-> [loc |-> "uninit", rem |-> "uninit"],
           ps |-> [s \in CeSess |-> [loc |-> "uninit", rem |-> "uninit"]],
           pl |-> [l \in CeLinks |-> [loc |-> "uninit", rem |-> "uninit", off |-> FALSE, ctx |-> FALSE]],
           gone |-> {}, evq |-> <<>>, at |-> "idle", wake |-> FALSE,
           ql |-> [l \in CeLinks |-> NoLink], qs |-> {}, classes |-> {}, free |-> <<>>,
           defer |-> <<>>, alive |-> TRUE, closed |-> FALSE, opened |-> FALSE, ctx |-> FALSE,
           nss |-> 0, ns |-> 0, nr |-> 0, twice |-> {},
           rl |-> [l \in CeLinks |-> NoCoreLink], core |-> "none", kill |-> FALSE,
           work |-> <<>>, acts |-> <<>>, calls |-> 0, sends |-> 0]

-----------------------------------------------------------------------------
(* Proton                                                                  *)

Emit(st, e) == [st EXCEPT !.evq = Append(@, e)]
CePost(st, a) == [st EXCEPT !.acts = Append(@, a)]

pn_link_close(st, l) ==
  IF st.pl[l].loc = "closed" THEN st
  ELSE Emit([st EXCEPT !.pl[l].loc = "closed"], E("link_local_close", l))

\* A detach that does not close leaves the state of the link's end as it is; off says that the
\* peer has sent one.
pn_link_detach(st, l) == Emit(st, E("link_local_close", l))

pn_session_close(st, s) ==
  IF st.ps[s].loc = "closed" THEN st
  ELSE Emit([st EXCEPT !.ps[s].loc = "closed"], E("session_local_close", s))

\* pn_session_free frees the session's remaining links with it.
pn_session_free(st, s) == [st EXCEPT !.gone = @ \cup {s} \cup LinksOf(s)]

\* The links pn_link_head(conn, 0) finds.
PnLinks(st) ==
  SelectSeq(LinkOrder,
            LAMBDA l : l \notin st.gone
                       /\ (st.pl[l].loc # "uninit" \/ st.pl[l].rem # "uninit"))

-----------------------------------------------------------------------------
(* The container's objects (container.c)                                   *)

cleanup_link(st, l) ==
  [st EXCEPT !.pl[l].ctx = IF st.ql[l].pn THEN FALSE ELSE @,
             !.ql[l] = [NoLink EXCEPT !.st = "freed"]]

qd_link_free(st, l) == cleanup_link(st, l)

\* The Q3-blocked links of the session are unblocked before it is freed.
qd_session_free(st, s) ==
  IF s \notin st.qs THEN st
  ELSE [st EXCEPT !.qs = @ \ {s},
                  !.ql = [l \in CeLinks |-> IF SessOf(l) = s THEN [@[l] EXCEPT !.q3 = FALSE]
                                            ELSE @[l]]]

qd_session_cleanup(st) ==
  FoldLeft(qd_session_free, st, SetToSeq(CeSess \ st.gone))

\* The core's pointer to the qd_link is a safe pointer: null once the qd_link is freed.
qdr_link_get_context(st, l) == st.rl[l].ctx /\ st.ql[l].st = "live"

qdr_link_set_context(st, l, set) == [st EXCEPT !.rl[l].ctx = set]

qdr_link_detach(st, l, dt) == CePost(st, D("link_detach", l, dt))

\* A detach of the core's link is the last thing the adaptor tells the core of it.  The qd_link
\* goes with it when the connection or session is lost, or when the core has let go already.
AMQP_link_detach_handler(st, l, dt) ==
  IF ~st.ql[l].pn \/ ~st.ql[l].ctx THEN st
  ELSE LET last == [st EXCEPT !.ql[l].ctx = FALSE]
           free == dt = "lost" \/ ~qdr_link_get_context(st, l)
       IN  qdr_link_detach(IF free THEN qd_link_free(qdr_link_set_context(last, l, FALSE), l)
                           ELSE last, l, dt)

close_links(st) ==
  FoldLeft(LAMBDA s, l : IF ~s.pl[l].ctx THEN s
                         ELSE IF ~s.ql[l].ctx THEN qd_link_free([s EXCEPT !.pl[l].ctx = FALSE], l)
                         ELSE AMQP_link_detach_handler(s, l, "lost"),
           st, PnLinks(st))

qdr_connection_closed(st) == CePost(st, E("connection_closed", "conn"))

\* The core's connection is cut off from this one and told.
AMQP_closed_handler(st) ==
  IF ~st.ctx THEN st ELSE qdr_connection_closed([st EXCEPT !.ctx = FALSE])

notify_closed(st) == AMQP_closed_handler(st)

add_to_free_list(st, x) ==
  IF x \in ToSet(st.free) THEN st ELSE [st EXCEPT !.free = Append(@, x)]

-----------------------------------------------------------------------------
(* Events of the connection and of its sessions (qd_container_handle_event) *)

qdr_connection_opened(st) == [st EXCEPT !.ctx = TRUE, !.core = "open"]

AMQP_opened_handler(st) == qdr_connection_opened(st)

notify_opened(st) == AMQP_opened_handler(st)

\* Policy admits the connection or closes it.
OnRemoteOpen(st) ==
  IF ~cecfg.admitted THEN [st EXCEPT !.pc.loc = "closed"]
  ELSE notify_opened([st EXCEPT !.pc.loc = "active", !.opened = TRUE])

OnRemoteClose(st) ==
  LET down == qd_session_cleanup(close_links([st EXCEPT !.closed = TRUE])) IN
  CASE st.pc.loc = "active" -> [down EXCEPT !.pc.loc = "closed", !.free = <<>>]
    [] st.pc.loc = "closed" -> [notify_closed(down) EXCEPT !.free = <<>>]
    [] OTHER                -> [st EXCEPT !.closed = TRUE]

OnSessionRemoteOpen(st, s) ==
  IF st.pc.loc = "closed" \/ st.ps[s].loc # "uninit" THEN st
  ELSE IF cecfg.policy /\ s \in cecfg.denied THEN pn_session_close(st, s)
  ELSE [st EXCEPT !.nss = IF cecfg.policy THEN @ + 1 ELSE @,
                  !.qs = @ \cup {s}, !.ps[s].loc = "active"]

\* A session both ends have closed is freed at the end of the batch.
FreeSession(st, s) ==
  IF st.ps[s].loc = "closed" /\ st.ps[s].rem = "closed"
    THEN add_to_free_list(qd_session_free(st, s), s) ELSE st

OnSessionLocalClose(st, s) ==
  LET cut == [st EXCEPT !.classes = @ \ {s},
                        !.ql = [l \in CeLinks |->
                                  IF l \in LinksOf(s) /\ st.pl[l].loc = "active"
                                     /\ st.pl[l].rem = "closed" /\ st.pl[l].ctx
                                    THEN [@[l] EXCEPT !.pn = FALSE] ELSE @[l]]]
  IN  FreeSession(cut, s)

Uncount(st, l) ==
  IF ~cecfg.policy THEN st
  ELSE IF IsOut(l) THEN [st EXCEPT !.nr = @ - 1] ELSE [st EXCEPT !.ns = @ - 1]

Count(st, l) ==
  IF ~cecfg.policy THEN st
  ELSE IF IsOut(l) THEN [st EXCEPT !.nr = @ + 1] ELSE [st EXCEPT !.ns = @ + 1]

SweepLink_LostOnly(st, l) ==
  IF st.pl[l].loc = "active" /\ st.pl[l].rem = "active" /\ st.pl[l].ctx
    THEN AMQP_link_detach_handler(Uncount(st, l), l, "lost") ELSE st

\* One link of a session the peer has ended: links open at both ends are lost, and no qd_link
\* keeps its pointer to a link of the session, one that has just been freed included.  A link that
\* the peer has detached without closing counts as open, and is uncounted once more: twice.
SweepLink(st, l) ==
  LET open == st.pl[l].loc = "active" /\ st.pl[l].rem = "active" /\ st.pl[l].ctx
      less == [Uncount(st, l) EXCEPT !.twice = IF st.pl[l].off THEN @ \cup {l} ELSE @]
      lost == IF open THEN AMQP_link_detach_handler(less, l, "lost") ELSE st
  IN  IF st.pl[l].ctx THEN [lost EXCEPT !.ql[l].pn = FALSE] ELSE lost

OnSessionRemoteClose(st, s) ==
  LET cut   == [st EXCEPT !.classes = @ \ {s}]
      mine  == SelectSeq(PnLinks(st), LAMBDA l : SessOf(l) = s)
      swept == FoldLeft(SweepLink, cut, mine)
  IN  IF st.pc.loc = "closed" THEN cut
      ELSE IF st.ps[s].loc = "active"
        THEN pn_session_close([swept EXCEPT !.nss = IF cecfg.policy THEN @ - 1 ELSE @], s)
      ELSE FreeSession(cut, s)

-----------------------------------------------------------------------------
(* Events of the links                                                     *)

qdr_link_first_attach(st, l) ==
  CePost([st EXCEPT !.rl[l] = [NoCoreLink EXCEPT !.st = "new"]], E("link_first_attach", l))

\* qd_link_connection finds no connection once its policy has closed it.
qd_link_connection(st) == st.alive /\ st.opened

\* The three objects of a link the peer attaches are tied together.
AMQP_incoming_link_handler(st, l) ==
  IF ~qd_link_connection(st) THEN st
  ELSE [qdr_link_set_context(qdr_link_first_attach(st, l), l, TRUE) EXCEPT !.ql[l].ctx = TRUE]

AMQP_outgoing_link_handler(st, l) ==
  IF ~qd_link_connection(st) THEN st
  ELSE [qdr_link_set_context(qdr_link_first_attach(st, l), l, TRUE) EXCEPT !.ql[l].ctx = TRUE]

NewLink(st, l) == [st EXCEPT !.ql[l] = [NoLink EXCEPT !.st = "live", !.pn = TRUE], !.pl[l].ctx = TRUE]

setup_incoming_link(st, l) == AMQP_incoming_link_handler(NewLink(st, l), l)

setup_outgoing_link(st, l) == AMQP_outgoing_link_handler(NewLink(st, l), l)

qdr_link_second_attach(st, l) == CePost(st, E("link_second_attach", l))

AMQP_link_attach_handler(st, l) == qdr_link_second_attach(st, l)

\* The peer's answer to a link of the router.
handle_link_open(st, l) == IF st.pl[l].ctx THEN AMQP_link_attach_handler(st, l) ELSE st

OnLinkRemoteOpen(st, l) ==
  IF st.pc.loc = "closed" THEN st
  ELSE CASE st.pl[l].loc = "uninit" ->
              IF cecfg.policy /\ l \in cecfg.denied THEN pn_link_close(st, l)
              ELSE IF IsOut(l) THEN setup_outgoing_link(Count(st, l), l)
              ELSE setup_incoming_link(Count(st, l), l)
         [] st.pl[l].loc = "active" -> handle_link_open(st, l)
         [] OTHER -> st

OnLinkRemoteDetach(st, l, dt) ==
  IF st.pc.loc = "closed" THEN st
  ELSE IF ~st.pl[l].ctx THEN add_to_free_list(st, l)
  ELSE LET less == Uncount(st, l)
           both == IF st.pl[l].loc = "closed" THEN add_to_free_list(less, l) ELSE less
       IN  AMQP_link_detach_handler(both, l, dt)

OnLinkLocalClose(st, l) ==
  IF st.pl[l].loc = "closed" /\ st.pl[l].rem = "closed" THEN add_to_free_list(st, l) ELSE st

\* A flow tells the core of the credit and unblocks the session's links held by Q3.
AMQP_link_flow_handler(st, l) ==
  IF ~st.pl[l].ctx THEN st
  ELSE LET told == IF st.ql[l].ctx THEN CePost(st, E("link_flow", l)) ELSE st
           held == {k \in LinksOf(SessOf(l)) : st.ql[k].q3}
           tell == SetToSeq({k \in held \ {l} : st.ql[k].ctx})
       IN  FoldLeft(LAMBDA s, k : CePost(s, E("link_flow", k)),
                    [told EXCEPT !.ql = [k \in CeLinks |-> [@[k] EXCEPT !.q3 = @ /\ k \notin held]]],
                    tell)

-----------------------------------------------------------------------------
(* The core's work, done by the I/O thread (qdr_connection_process)        *)

\* The session of the link's class is made with its first link.
qd_link(st, l) ==
  LET s == SessOf(l) IN
  NewLink([st EXCEPT !.ps[s].loc = "active", !.qs = @ \cup {s}, !.classes = @ \cup {s}], l)

CORE_link_first_attach(st, l) ==
  [qdr_link_set_context(qd_link(st, l), l, TRUE) EXCEPT !.ql[l].ctx = TRUE, !.pl[l].loc = "active"]

CORE_link_second_attach(st, l) ==
  IF qdr_link_get_context(st, l) /\ st.ql[l].pn THEN [st EXCEPT !.pl[l].loc = "active"] ELSE st

qd_link_close(st, l) == IF st.ql[l].pn THEN pn_link_close(st, l) ELSE st

qd_link_detach(st, l) == IF st.ql[l].pn THEN pn_link_close(pn_link_detach(st, l), l) ELSE st

CORE_link_detach(st, l, first, close) ==
  IF ~qdr_link_get_context(st, l) \/ ~st.ql[l].pn THEN st
  ELSE LET out  == IF close THEN qd_link_close(st, l) ELSE qd_link_detach(st, l)
           shut == qdr_link_set_context(out, l, FALSE)
       IN  IF first THEN shut ELSE qd_link_free(shut, l)

\* The connection's work names its link by a plain pointer, which may be to a freed link.
ConnectionWork(st, w) ==
  IF w.t = "first_attach" THEN CORE_link_first_attach(st, w.x)
  ELSE CORE_link_second_attach(st, w.x)

\* (The session is looked up and must be there: PointersLive.)
qd_link_q3_block(st, l) == [st EXCEPT !.ql[l].q3 = TRUE]

\* A link's work: detaches; after them the core is told that they are out.  A delivery that
\* finds the session's buffer full blocks the link on Q3.
LinkWork(st, l) ==
  LET ws   == st.rl[l].work
      each == FoldLeft(LAMBDA s, w : CASE w.t = "deliver" ->
                                            IF qdr_link_get_context(s, l) /\ s.ql[l].pn
                                              THEN qd_link_q3_block(s, l) ELSE s
                                       [] OTHER -> CORE_link_detach(s, l, w.t = "first_detach", w.close),
                       [st EXCEPT !.rl[l].work = <<>>], ws)
  IN  IF \E i \in DOMAIN ws : ws[i].t # "deliver" THEN CePost(each, E("link_detach_sent", l))
      ELSE each

\* A connection deleted by management drops its transport instead.
CORE_close_connection(st) ==
  IF \E i \in DOMAIN st.evq : st.evq[i].t = "transport_closed" THEN st
  ELSE Emit(st, E("transport_closed", "conn"))

qdr_connection_process(st) ==
  IF st.kill THEN CORE_close_connection(st)
  ELSE FoldLeft(LinkWork, FoldLeft(ConnectionWork, [st EXCEPT !.work = <<>>], st.work), LinkOrder)

AMQP_writable_conn_handler(st) == IF st.ctx THEN qdr_connection_process(st) ELSE st

writable_handler(st) == AMQP_writable_conn_handler(st)

-----------------------------------------------------------------------------
(* The I/O thread (thread_run)                                             *)

\* Frees what the batch put on the free list, in order, then lets the core's work out.
FreeOne(st, x) ==
  IF x \in CeSess THEN pn_session_free(st, x)
  ELSE [st EXCEPT !.ql[x].pn = IF st.pl[x].ctx THEN FALSE ELSE @,
                  !.pl[x].ctx = FALSE, !.gone = @ \cup {x}]

qd_conn_event_batch_complete(st) ==
  writable_handler([FoldLeft(FreeOne, st, st.free) EXCEPT !.free = <<>>])

\* The transport is gone: everything of the connection goes, deferred calls are discarded.
close_handler(st) == notify_closed(qd_session_cleanup(close_links([st EXCEPT !.closed = TRUE])))

qd_connection_free(st) ==
  [st EXCEPT !.defer = <<>>, !.alive = FALSE, !.evq = <<>>, !.wake = FALSE, !.classes = {}]

OnTransportClosed(st) == qd_connection_free([close_handler(st) EXCEPT !.free = <<>>])

\* A deferred call finds its link through a safe pointer and reads on.
invoke_deferred_calls(st) == [st EXCEPT !.defer = <<>>]

\* Deferred calls run first; then, on a connection still open, the core's work.
OnWake(st) ==
  LET ran == invoke_deferred_calls(st) IN
  IF st.closed THEN ran ELSE writable_handler(ran)

qd_container_handle_event(st, e) ==
  CASE e.t = "connection_remote_open"  -> OnRemoteOpen(st)
    [] e.t = "connection_remote_close" -> OnRemoteClose(st)
    [] e.t = "session_remote_open"     -> OnSessionRemoteOpen(st, e.x)
    [] e.t = "session_local_close"     -> OnSessionLocalClose(st, e.x)
    [] e.t = "session_remote_close"    -> OnSessionRemoteClose(st, e.x)
    [] e.t = "link_remote_open"        -> OnLinkRemoteOpen(st, e.x)
    [] e.t = "link_remote_detach"      -> OnLinkRemoteDetach(st, e.x, e.dt)
    [] e.t = "link_local_close"        -> OnLinkLocalClose(st, e.x)
    [] e.t = "link_flow_event"         -> AMQP_link_flow_handler(st, e.x)
    [] e.t = "transport_closed"        -> OnTransportClosed(st)

IoEvent ==
  /\ ce.alive /\ ce.evq # <<>>
  /\ ce' = qd_container_handle_event([ce EXCEPT !.evq = Tail(@), !.at = "batch"], Head(ce.evq))
  /\ UNCHANGED cecfg

IoWake ==
  /\ ce.alive /\ ce.wake /\ ce.at = "idle"
  /\ ce' = OnWake([ce EXCEPT !.wake = FALSE, !.at = "batch"])
  /\ UNCHANGED cecfg

IoBatchComplete ==
  /\ ce.alive /\ ce.at = "batch" /\ ce.evq = <<>>
  /\ ce' = qd_conn_event_batch_complete([ce EXCEPT !.at = "idle"])
  /\ UNCHANGED cecfg

\* Another thread has freed space in a message this link's receiver waits for.
qd_connection_invoke_deferred(l) ==
  /\ ce.alive /\ ce.ql[l].st = "live" /\ ~IsOut(l) /\ ce.calls < cecfg.calls
  /\ ce' = [ce EXCEPT !.defer = Append(@, l), !.wake = TRUE, !.calls = @ + 1]
  /\ UNCHANGED cecfg

-----------------------------------------------------------------------------
(* The core thread                                                         *)

Activate(st) == [st EXCEPT !.wake = @ \/ (st.ctx /\ st.alive)]

\* Work added to a list that is not empty activates nobody: the I/O thread is due already.
qdr_connection_enqueue_work_CT(st, w) ==
  LET more == [st EXCEPT !.work = Append(@, w)] IN
  IF Len(more.work) = 1 THEN Activate(more) ELSE more

qdr_link_outbound_detach_CT(st, l, close) ==
  Activate([st EXCEPT !.rl[l].count = @ + 1,
                      !.rl[l].work = Append(@, W(IF st.rl[l].count = 0 THEN "first_detach"
                                                 ELSE "second_detach", close))])

qdr_link_cleanup_CT(st, l) == [st EXCEPT !.rl[l] = [NoCoreLink EXCEPT !.st = "freed"]]

\* The address lookup accepts or rejects the link.
qdr_link_inbound_first_attach_CT(st, l, accept) ==
  LET known == [st EXCEPT !.rl[l].st = "live"] IN
  IF accept THEN qdr_connection_enqueue_work_CT(known, E("second_attach", l))
  ELSE qdr_link_outbound_detach_CT(known, l, TRUE)

qdr_link_inbound_detach_CT(st, l, dt) ==
  IF st.rl[l].received THEN st
  ELSE LET got == [st EXCEPT !.rl[l].received = TRUE, !.rl[l].count = @ + 1] IN
       CASE got.rl[l].count = 1 /\ dt # "lost" -> qdr_link_outbound_detach_CT(got, l, dt = "closed")
         [] got.rl[l].count = 1 /\ dt = "lost" -> qdr_link_cleanup_CT(got, l)
         [] got.rl[l].count # 1 -> IF st.rl[l].sent THEN qdr_link_cleanup_CT(got, l) ELSE got

qdr_link_detach_sent_CT(st, l) ==
  IF st.rl[l].received THEN qdr_link_cleanup_CT(st, l) ELSE [st EXCEPT !.rl[l].sent = TRUE]

\* Every link of the connection goes, and the work that is left.
qdr_connection_closed_CT(st) ==
  [FoldLeft(LAMBDA s, l : IF s.rl[l].st \in {"live"} THEN qdr_link_cleanup_CT(s, l) ELSE s,
            st, LinkOrder)
   EXCEPT !.core = "gone", !.work = <<>>]

\* A safe pointer to a link or connection that is gone makes the action void.
CoreAct(st, a, accept) ==
  IF st.core # "open" \/ (a.t # "connection_closed" /\ st.rl[a.x].st = "freed") THEN st
  ELSE CASE a.t = "link_first_attach"  -> qdr_link_inbound_first_attach_CT(st, a.x, accept)
         [] a.t = "link_detach"        -> qdr_link_inbound_detach_CT(st, a.x, a.dt)
         [] a.t = "link_detach_sent"   -> qdr_link_detach_sent_CT(st, a.x)
         [] a.t = "connection_closed"  -> qdr_connection_closed_CT(st)
         [] OTHER                      -> st

CeCoreAction ==
  /\ ce.acts # <<>>
  /\ \E accept \in BOOLEAN :
       /\ accept \/ Head(ce.acts).t = "link_first_attach"
       /\ ce' = CoreAct([ce EXCEPT !.acts = Tail(@)], Head(ce.acts), accept)
  /\ UNCHANGED cecfg

\* The core makes a link of its own (an auto link, a link to another router).
CoreCreate(l) ==
  /\ ByRouter(l) /\ ce.core = "open" /\ ce.rl[l].st = "none"
  /\ ce' = qdr_connection_enqueue_work_CT([ce EXCEPT !.rl[l].st = "live"], E("first_attach", l))
  /\ UNCHANGED cecfg

\* The core detaches a link for a reason of its own; one that is connected to another link may be
\* detached without being closed.
CoreDetach(l, close) ==
  /\ ce.core = "open" /\ ce.rl[l].st = "live" /\ ce.rl[l].count = 0 /\ l \in cecfg.detaches
  /\ close \/ l \in cecfg.plain
  /\ ce' = qdr_link_outbound_detach_CT(ce, l, close)
  /\ UNCHANGED cecfg

\* The core forwards a delivery to an outgoing link; it will fill the session's buffer.
CoreDeliver(l) ==
  /\ ce.sends < cecfg.sends /\ IsOut(l) /\ ce.core = "open" /\ ce.rl[l].st = "live" /\ ~ce.rl[l].received
  /\ W("deliver", FALSE) \notin ToSet(ce.rl[l].work) /\ ~ce.ql[l].q3
  /\ ce' = Activate([ce EXCEPT !.rl[l].work = Append(@, W("deliver", FALSE)), !.sends = @ + 1])
  /\ UNCHANGED cecfg

\* Management deletes the connection.
qdr_close_connection_CT ==
  /\ cecfg.kills /\ ce.core = "open" /\ ~ce.kill
  /\ ce' = Activate([ce EXCEPT !.kill = TRUE])
  /\ UNCHANGED cecfg

-----------------------------------------------------------------------------
(* The peer.  Proton reads its frames between batches.                     *)

\* At most cecfg.frames events wait when the peer sends another frame.
Talks == ce.alive /\ ce.at = "idle" /\ ce.pc.rem = "active" /\ Len(ce.evq) < cecfg.frames
         /\ ~\E i \in DOMAIN ce.evq : ce.evq[i].t = "transport_closed"

PeerOpen ==
  /\ ce.alive /\ ce.pc.rem = "uninit" /\ ce.at = "idle"
  /\ ce' = Emit([ce EXCEPT !.pc.rem = "active"], E("connection_remote_open", "conn"))
  /\ UNCHANGED cecfg

PeerBegin(s) ==
  /\ Talks /\ ce.ps[s].rem = "uninit"
  /\ cecfg.sess[s] = "router" => ce.ps[s].loc # "uninit"
  /\ ce' = Emit([ce EXCEPT !.ps[s].rem = "active"], E("session_remote_open", s))
  /\ UNCHANGED cecfg

PeerAttach(l) ==
  /\ Talks /\ ce.pl[l].rem = "uninit"
  /\ ce.ps[SessOf(l)] = [loc |-> "active", rem |-> "active"]
  /\ ByRouter(l) => ce.pl[l].loc # "uninit"
  /\ ce' = Emit([ce EXCEPT !.pl[l].rem = "active"], E("link_remote_open", l))
  /\ UNCHANGED cecfg

\* The peer has attached the link and not detached it.
Attached(l) == ce.pl[l].rem = "active" /\ ~ce.pl[l].off

PeerDetach(l) ==
  /\ Talks /\ Attached(l) /\ ce.ps[SessOf(l)].rem = "active"
  /\ \/ ce' = Emit([ce EXCEPT !.pl[l].rem = "closed"], D("link_remote_detach", l, "closed"))
     \/ /\ l \in cecfg.plain
        /\ ce' = Emit([ce EXCEPT !.pl[l].off = TRUE], D("link_remote_detach", l, "detached"))
  /\ UNCHANGED cecfg

PeerFlow(l) ==
  /\ Talks /\ IsOut(l) /\ Attached(l) /\ ce.ps[SessOf(l)].rem = "active"
  /\ E("link_flow_event", l) \notin ToSet(ce.evq) /\ \E k \in LinksOf(SessOf(l)) : ce.ql[k].q3
  /\ ce' = Emit(ce, E("link_flow_event", l))
  /\ UNCHANGED cecfg

PeerEnd(s) ==
  /\ Talks /\ ce.ps[s].rem = "active" /\ ce.ps[s].loc # "uninit"
  /\ ce' = Emit([ce EXCEPT !.ps[s].rem = "closed"], E("session_remote_close", s))
  /\ UNCHANGED cecfg

PeerClose ==
  /\ Talks
  /\ ce' = Emit([ce EXCEPT !.pc.rem = "closed"], E("connection_remote_close", "conn"))
  /\ UNCHANGED cecfg

\* The transport closes: the peer dropped it, or both ends have closed the connection.
Drop ==
  /\ ce.alive /\ ce.at = "idle" /\ ce.pc.rem # "uninit"
  /\ ~\E i \in DOMAIN ce.evq : ce.evq[i].t = "transport_closed"
  /\ ce' = Emit(ce, E("transport_closed", "conn"))
  /\ UNCHANGED cecfg

CeNext ==
  \/ IoEvent \/ IoWake \/ IoBatchComplete
  \/ CeCoreAction \/ qdr_close_connection_CT
  \/ PeerOpen \/ PeerClose \/ Drop
  \/ \E s \in CeSess : PeerBegin(s) \/ PeerEnd(s)
  \/ \E l \in CeLinks :
       \/ PeerAttach(l) \/ PeerDetach(l) \/ PeerFlow(l)
       \/ CoreCreate(l) \/ CoreDeliver(l) \/ \E close \in BOOLEAN : CoreDetach(l, close)
       \/ qd_connection_invoke_deferred(l)

CeSpec == CeInit /\ [][CeNext]_cevars

-----------------------------------------------------------------------------
(* Properties                                                              *)

\* An event of this link would still find its qd_link.
Reached(l) == ce.alive /\ ce.pl[l].ctx /\ l \notin ce.gone

\* No pointer between the three objects of a link outlives what it points to.
PointersLive ==
  \A l \in CeLinks :
    /\ Reached(l) => ce.ql[l].st = "live"
    /\ ce.ql[l].pn => l \notin ce.gone /\ ce.alive
    /\ Reached(l) /\ ce.ql[l].ctx => ce.rl[l].st \in {"new", "live"}
    /\ ce.ql[l].q3 => SessOf(l) \in ce.qs

\* The adaptor tells the core nothing of a link after its detach (router_node.c:1105).
DetachIsLast ==
  LET Told(l, i) == ce.acts[i].x = l /\ ce.acts[i].t \in {"link_second_attach", "link_flow", "link_detach"}
      Gone(l, i) == \/ ce.rl[l].received
                    \/ \E j \in 1..(i - 1) : ce.acts[j].t = "link_detach" /\ ce.acts[j].x = l
  IN  \A l \in CeLinks : \A i \in DOMAIN ce.acts : Told(l, i) => ~Gone(l, i)

\* What waits to be freed is not free, waits once, and no link waits behind its session.
FreedOnce ==
  /\ \A i \in DOMAIN ce.free : ce.free[i] \notin ce.gone
  /\ \A i, j \in DOMAIN ce.free :
       i < j => ce.free[i] # ce.free[j] /\ ~(ce.free[j] \in CeLinks /\ ce.free[i] = SessOf(ce.free[j]))

\* The links of one direction that are counted and not yet given back.
Owed(out) ==
  {l \in CeLinks : /\ IsOut(l) = out /\ ce.pl[l].ctx /\ l \notin ce.gone
                   /\ \/ Attached(l) /\ ce.ps[SessOf(l)].rem # "closed"
                      \/ \E i \in DOMAIN ce.evq : ce.evq[i].t = "link_remote_detach" /\ ce.evq[i].x = l}

\* The policy counts never fall short of the open links but for those uncounted twice, and are
\* exact while no session with links was ended by the peer.  A link is uncounted twice when the
\* peer detaches it without closing it and ends its session before the core has answered.
CountsHold ==
  LET Twice(out) == {l \in ce.twice : IsOut(l) = out} IN
  cecfg.policy /\ ~ce.closed /\ ce.alive =>
    /\ ce.nr + Cardinality(Twice(TRUE)) >= Cardinality(Owed(TRUE))
    /\ ce.ns + Cardinality(Twice(FALSE)) >= Cardinality(Owed(FALSE))
    /\ (\A s \in CeSess : ce.ps[s].rem # "closed")
         => ce.nr = Cardinality(Owed(TRUE)) /\ ce.ns = Cardinality(Owed(FALSE))

\* When nobody has anything left to do, no work or deferred call is stuck, a link the peer has
\* detached is gone from the core and one it has closed from Proton too (one detached without
\* being closed stays there until its session goes), and a lost connection has left nothing.
RestIsClean ==
  ce.evq = <<>> /\ ce.acts = <<>> /\ ~ce.wake /\ ce.at = "idle" =>
    /\ ce.work = <<>> /\ (ce.alive => ce.defer = <<>>)
    /\ \A l \in CeLinks :
         /\ ~ce.closed /\ ce.pc.loc = "active" =>
              /\ ce.pl[l].rem = "closed" => l \in ce.gone
              /\ ce.pl[l].rem = "closed" \/ ce.pl[l].off => ce.rl[l].st \in {"none", "freed"}
         /\ ~ce.alive => ce.rl[l].st \in {"none", "freed"} /\ ce.qs = {}

\* The three objects of a link stay consistent whoever takes them apart: no dangling pointer,
\* nothing freed twice, nothing said to the core after the detach, and the counts of the
\* connection's policy cover the open links; and once everybody rests, nothing is left of what went away
\* (container.c, router_node.c).
ContainerSound == PointersLive /\ DetachIsLast /\ FreedOnce /\ CountsHold /\ RestIsClean
=============================================================================
