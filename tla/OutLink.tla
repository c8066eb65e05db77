------------------------------- MODULE OutLink -------------------------------
(***************************************************************************)
(* One outgoing link: the deliveries the core queues on it, the work items *)
(* that represent them, credit and drain from the consumer, backpressure   *)
(* from the transport, and the detach handshake (transfer.c, forwarder.c,  *)
(* connections.c and the link handlers of router_node.c).                  *)
(*                                                                         *)
(* The core thread runs the queue olq and its own decisions; the I/O       *)
(* thread of the connection runs qdr_connection_process, whose steps (pc)  *)
(* end where it releases the work lock, and the handlers proton calls.     *)
(* The consumer and proton are the environment.                            *)
(***************************************************************************)
EXTENDS Integers, Sequences, FiniteSetsExt, Functions

CONSTANT OLConfigs     \* the situations considered, see OLConfig

OLConfig ==
  [n          : Nat,            \* deliveries 1..n are forwarded to the link, in this order
   presettled : SUBSET Nat,     \* the settled ones
   streaming  : SUBSET Nat,     \* the ones forwarded before they are fully received
   capacity   : Nat,            \* link->capacity
   credit     : Nat,            \* the credit the consumer gives in all
   drains     : Nat,            \* the drains the consumer asks for
   q3         : BOOLEAN,        \* the transport may push back
   detach     : SUBSET {"router", "consumer", "lost"}]   \* who may end the link

ASSUME OLAssumption == OLConfigs \subseteq OLConfig

VARIABLES
  olcf,     \* the situation of this behaviour
  olq,      \* the core's action queue
  ol,       \* the link, shared by the threads
  olio,     \* the I/O thread
  olpn      \* proton's link and what the consumer has done

olvars == <<olcf, olq, ol, olio, olpn>>

Dlv == 1..olcf.n

OLInit ==
    /\ olcf \in OLConfigs
    /\ olq = <<>>
    /\ ol = [undelivered |-> {}, link_work |-> [d \in Dlv |-> 0],
             work_list |-> <<>>, item |-> [w \in {} |-> 0],
             links_with_work |-> FALSE, processing |-> FALSE, ready_to_free |-> FALSE,
             drain_mode |-> FALSE, stalled_outbound |-> TRUE, credit_to_core |-> 0,
             detach_received |-> FALSE, detach_count |-> 0, detach_send_done |-> FALSE,
             bound |-> TRUE, alive |-> TRUE, activate |-> FALSE,
             forwarded |-> 0, whole |-> Dlv \ olcf.streaming,
             wasDrain |-> FALSE, flowing |-> FALSE]
    /\ olio = [pc |-> "idle", work |-> 0, credit |-> 0, dlv |-> 0, count |-> 0,
               detach_sent |-> FALSE]
    /\ olpn = [credit |-> 0, queued |-> 0, drain |-> FALSE, q3 |-> FALSE, given |-> 0,
               drains |-> 0, context |-> TRUE, attached |-> TRUE, closed |-> FALSE,
               stalls |-> {}]

-----------------------------------------------------------------------------
(* Work items and lists (the link l is the record ol) *)

\* Deliveries are numbered in the order in which they are forwarded.  The undelivered
\* list is only appended to: its order is that of the numbers, and its head the lowest.
DlvHead(l) == Min(l.undelivered)

\* qdr_link_work: a name not in use.
NewItem(l) == CHOOSE w \in 1..(Cardinality(DOMAIN l.item) + 1) : w \notin DOMAIN l.item

\* qdr_link_work_release: the item is freed with its last reference, which the
\* work list, the I/O thread (processing) and the deliveries hold.
Referenced(l, w) ==
    \/ w \in Range(l.work_list) \/ l.item[w].processing
    \/ \E d \in Dlv : l.link_work[d] = w

Released(l) ==
    [l EXCEPT !.item = Restrict(l.item, {w \in DOMAIN l.item : Referenced(l, w)})]

\* qdr_add_link_ref(links_with_work) with qdr_connection_activate_CT.
Activated(l) == [l EXCEPT !.links_with_work = TRUE, !.activate = TRUE]

\* An item at the tail of the work list.  "after" remembers how many deliveries had been
\* forwarded by then.
WorkItem(kind, value, after) ==
    [kind |-> kind, value |-> value, processing |-> FALSE, after |-> after]

Enqueued(l, kind, value) ==
    LET w == NewItem(l) IN
    [l EXCEPT !.work_list = Append(@, w),
              !.item = [x \in DOMAIN l.item \cup {w} |->
                          IF x = w THEN WorkItem(kind, value, l.forwarded) ELSE l.item[x]]]

\* A list without some of its members: the k-th of those that stay.
Without(list, gone) ==
    LET stay == {i \in DOMAIN list : list[i] \notin gone} IN
    [k \in 1..Cardinality(stay) |->
       list[CHOOSE i \in stay : Cardinality({j \in stay : j <= i}) = k]]

-----------------------------------------------------------------------------
(* The core thread *)

\* qdr_forward_drop_presettled_CT_LH: every settled delivery but the first is dropped,
\* unless its work item is being processed.
Droppable(l) ==
    {d \in l.undelivered :
        /\ d # DlvHead(l) /\ d \in olcf.presettled
        /\ l.link_work[d] # 0
        /\ ~l.item[l.link_work[d]].processing}

qdr_forward_drop_presettled_CT_LH(l) ==
    LET drop == Droppable(l)
        value(w) == l.item[w].value - Cardinality({d \in drop : l.link_work[d] = w})
        dead == {w \in DOMAIN l.item : value(w) = 0 /\ \E d \in drop : l.link_work[d] = w}
    IN  Released([l EXCEPT
          !.undelivered = @ \ drop,
          !.item = [w \in DOMAIN l.item |-> [l.item[w] EXCEPT !.value = value(w)]],
          !.work_list = Without(@, dead),
          !.link_work = [d \in Dlv |-> IF d \in drop THEN 0 ELSE l.link_work[d]]])

\* The new delivery joins the delivery item at the tail of the work list, or gets one.
WorkTail(l) == l.work_list[Len(l.work_list)]

JoinWork(l, d) ==
    IF l.work_list # <<>> /\ l.item[WorkTail(l)].kind = "delivery"
    THEN [l EXCEPT !.item[WorkTail(l)].value = @ + 1, !.link_work[d] = WorkTail(l)]
    ELSE [Enqueued(l, "delivery", 1) EXCEPT !.link_work[d] = NewItem(l)]

\* qdr_forward_deliver_CT: the address forwards its next message to this link.
qdr_forward_deliver_CT ==
    /\ ~ol.flowing /\ ol.alive /\ ol.bound
    /\ ol.forwarded < olcf.n
    /\ LET d == ol.forwarded + 1
           l0 == IF /\ d \in olcf.presettled /\ olcf.capacity > 0
                    /\ Cardinality(ol.undelivered) >= olcf.capacity
                 THEN qdr_forward_drop_presettled_CT_LH(ol) ELSE ol
           l1 == [l0 EXCEPT !.undelivered = @ \cup {d}, !.forwarded = d]
       IN ol' = Activated(JoinWork(l1, d))
    /\ UNCHANGED <<olcf, olq, olio, olpn>>

\* qdr_delivery_continue_peers_CT for the last part of a streaming message.
qdr_delivery_continue_peers_CT(d) ==
    /\ ~ol.flowing /\ d \notin ol.whole /\ d <= ol.forwarded
    /\ LET w == ol.link_work[d]
           l == [ol EXCEPT !.whole = @ \cup {d}]
       IN ol' = IF /\ ol.alive /\ w # 0
                   /\ \/ ol.item[w].processing
                      \/ ol.work_list # <<>> /\ w = Head(ol.work_list)
                THEN Activated(l) ELSE l
    /\ UNCHANGED <<olcf, olq, olio, olpn>>

\* qdr_link_flow_CT reads drain_mode, which the I/O thread clears without a lock ...
FlowRead ==
    /\ ~ol.flowing /\ ol.alive /\ olq # <<>> /\ Head(olq).op = "flow"
    /\ ol' = [ol EXCEPT !.flowing = TRUE,
                        !.wasDrain = ~ol.drain_mode /\ Head(olq).drain]
    /\ UNCHANGED <<olcf, olq, olio, olpn>>

\* Mutant: nobody is woken.
Resume_Asleep(l) == [l EXCEPT !.stalled_outbound = FALSE]

\* The link stalled on the transport is resumed.
Resume(l) ==
    LET r == [l EXCEPT !.stalled_outbound = FALSE] IN
    IF l.stalled_outbound /\ l.undelivered # {} THEN Activated(r) ELSE r

\* ... and writes it; the rest of the action.
qdr_link_flow_CT ==
    /\ ol.flowing
    /\ LET a == Head(olq)
           l0 == Resume([ol EXCEPT !.flowing = FALSE, !.wasDrain = FALSE,
                                   !.drain_mode = a.drain])
           l1 == IF ol.wasDrain THEN Enqueued(l0, "flow", 0) ELSE l0
       IN ol' = IF \/ ol.wasDrain
                   \/ a.credit > 0 /\ ol.undelivered # {}
                THEN Activated(l1) ELSE l1
    /\ olq' = Tail(olq)
    /\ UNCHANGED <<olcf, olio, olpn>>

\* qdr_link_cleanup_deliveries_CT: what is left on the link is released to its senders.
qdr_link_cleanup_deliveries_CT(l) ==
    Released([l EXCEPT !.undelivered = {}, !.link_work = [d \in Dlv |-> 0]])

qdr_link_cleanup_CT(l) ==
    [qdr_link_cleanup_deliveries_CT([l EXCEPT !.work_list = <<>>])
       EXCEPT !.links_with_work = FALSE, !.alive = FALSE]

\* qdr_link_cleanup_protected_CT: not while the I/O thread is processing the link.
qdr_link_cleanup_protected_CT(l) ==
    IF l.processing
    THEN [l EXCEPT !.links_with_work = FALSE, !.ready_to_free = TRUE]
    ELSE qdr_link_cleanup_CT([l EXCEPT !.links_with_work = FALSE])

qdr_link_outbound_detach_CT(l) ==
    LET kind == IF l.detach_count = 0 THEN "first_detach" ELSE "second_detach" IN
    Activated(Enqueued([l EXCEPT !.detach_count = @ + 1], kind, 0))

\* The router ends the link by itself, as qdr_route_auto_link_deactivate_CT does.
RouterDetach ==
    /\ ~ol.flowing /\ ol.alive /\ "router" \in olcf.detach /\ ol.detach_count = 0
    /\ ol' = qdr_link_outbound_detach_CT(ol)
    /\ UNCHANGED <<olcf, olq, olio, olpn>>

\* qdr_link_inbound_detach_CT for a link to an address: the link is unbound, and
\* the router's own detach is sent if it has not been yet.
Detached(l, dt) ==
    LET r == [l EXCEPT !.detach_received = TRUE, !.detach_count = @ + 1, !.bound = FALSE]
        c == qdr_link_cleanup_deliveries_CT(r)
    IN  CASE l.detach_received -> l
          [] ~l.detach_received /\ l.detach_count = 0 /\ dt # "lost" ->
                qdr_link_outbound_detach_CT(c)
          [] ~l.detach_received /\ l.detach_count = 0 /\ dt = "lost" ->
                qdr_link_cleanup_protected_CT(c)
          [] ~l.detach_received /\ l.detach_count > 0 /\ l.detach_send_done ->
                qdr_link_cleanup_protected_CT(r)
          [] OTHER -> r

\* qdr_link_detach_sent_CT
DetachSent(l) ==
    LET r == [l EXCEPT !.detach_send_done = TRUE] IN
    IF l.detach_received THEN qdr_link_cleanup_protected_CT(r) ELSE r

\* The next action of the queue other than a flow.  The actions hold safe
\* pointers: nothing is done for a link that has been freed.
CoreAction ==
    /\ ~ol.flowing /\ olq # <<>>
    /\ Head(olq).op = "flow" => ~ol.alive
    /\ LET a == Head(olq) IN
       ol' = CASE ~ol.alive -> ol
               [] ol.alive /\ a.op = "detach" -> Detached(ol, a.dt)
               [] ol.alive /\ a.op = "detach_sent" -> DetachSent(ol)
               [] ol.alive /\ a.op \in {"processing_complete", "connection_closed"} ->
                     qdr_link_cleanup_CT(ol)
    /\ olq' = Tail(olq)
    /\ UNCHANGED <<olcf, olio, olpn>>

-----------------------------------------------------------------------------
(* The I/O thread: qdr_connection_process *)

\* The links with work become the thread's own list.  Any event of the connection
\* calls qdr_connection_process, not only an activation by the core.
Process ==
    /\ olio.pc = "idle" /\ (ol.activate \/ ol.links_with_work)
    /\ ol' = [ol EXCEPT !.activate = FALSE, !.links_with_work = FALSE,
                        !.processing = ol.links_with_work]
    /\ olio' = IF ol.links_with_work
               THEN [olio EXCEPT !.pc = "take", !.detach_sent = FALSE] ELSE olio
    /\ UNCHANGED <<olcf, olq, olpn>>

\* The head of the work list is taken off and marked, under the work lock.
Taken(l, io) ==
    IF l.work_list = <<>>
    THEN [l |-> l, io |-> [io EXCEPT !.pc = "end", !.work = 0, !.count = 0]]
    ELSE LET w == Head(l.work_list) IN
         [l |-> [l EXCEPT !.work_list = Tail(@), !.item[w].processing = TRUE],
          io |-> [io EXCEPT !.pc = "work", !.work = w, !.count = 0]]

Take ==
    /\ olio.pc = "take"
    /\ ol' = Taken(ol, olio).l
    /\ olio' = Taken(ol, olio).io
    /\ UNCHANGED <<olcf, olq, olpn>>

\* CORE_link_push and the start of qdr_link_process_deliveries: as many deliveries as
\* the item stands for and the consumer has credit for.
CORE_link_push ==
    /\ olio.pc = "work" /\ ol.item[olio.work].kind = "delivery"
    /\ LET value == ol.item[olio.work].value
           credit == IF olpn.credit > value THEN value ELSE olpn.credit
       IN olio' = IF olpn.context /\ credit > 0 /\ ~ol.detach_received
                  THEN [olio EXCEPT !.pc = "send", !.credit = credit]
                  ELSE [olio EXCEPT !.pc = "put"]
    /\ UNCHANGED <<olcf, olq, ol, olpn>>

\* The loop of qdr_link_process_deliveries: the head of the undelivered list ...
NextDelivery ==
    /\ olio.pc = "send"
    /\ olio' = IF olio.credit > 0 /\ ol.undelivered # {}
               THEN [olio EXCEPT !.pc = "deliver", !.dlv = DlvHead(ol)]
               ELSE [olio EXCEPT !.pc = "put"]
    /\ UNCHANGED <<olcf, olq, ol, olpn>>

\* ... is handed to CORE_link_deliver without the lock.  A whole message is
\* sent and proton's link advances; of a message still arriving, what there is
\* is sent; the transport may refuse more (Q3), once per message here.
Deliver ==
    /\ olio.pc = "deliver"
    /\ IF olio.dlv \in ol.whole
       THEN /\ olpn' = [olpn EXCEPT !.credit = @ - 1, !.queued = @ + 1]
            /\ olio' = [olio EXCEPT !.pc = "sent"]
       ELSE /\ olio' = [olio EXCEPT !.pc = "put", !.dlv = 0]
            /\ UNCHANGED olpn
    /\ UNCHANGED <<olcf, olq, ol>>

DeliverStalled ==
    /\ olio.pc = "deliver" /\ olcf.q3 /\ olio.dlv \notin olpn.stalls
    /\ olpn' = [olpn EXCEPT !.q3 = TRUE, !.stalls = @ \cup {olio.dlv}]
    /\ ol' = [ol EXCEPT !.stalled_outbound = TRUE]
    /\ olio' = [olio EXCEPT !.pc = "put", !.dlv = 0]
    /\ UNCHANGED <<olcf, olq>>

\* Under the lock again: the delivery leaves the undelivered list, which the core may
\* have emptied meanwhile (DISPATCH-1153).
Sent ==
    /\ olio.pc = "sent"
    /\ LET l == [ol EXCEPT !.credit_to_core = @ - 1]
           io == [olio EXCEPT !.count = @ + 1, !.credit = @ - 1, !.dlv = 0]
       IN IF ol.undelivered = {}
          THEN /\ ol' = l
               /\ olio' = [io EXCEPT !.pc = "put"]
          ELSE /\ ol' = Released([l EXCEPT !.undelivered = @ \ {DlvHead(ol)},
                                           !.link_work[olio.dlv] = 0])
               /\ olio' = [io EXCEPT !.pc = "send"]
    /\ UNCHANGED <<olcf, olq, olpn>>

\* CORE_link_drained and qdr_link_set_drained.
CORE_link_drained ==
    /\ olio.pc = "work" /\ ol.item[olio.work].kind = "flow"
    /\ IF olpn.context
       THEN /\ olpn' = [olpn EXCEPT !.credit = IF olpn.drain THEN 0 ELSE @]
            /\ ol' = [ol EXCEPT !.drain_mode = FALSE, !.credit_to_core = 0]
       ELSE UNCHANGED <<ol, olpn>>
    /\ olio' = [olio EXCEPT !.pc = "put"]
    /\ UNCHANGED <<olcf, olq>>

\* CORE_link_detach: the last event of the link towards proton.
CORE_link_detach ==
    /\ olio.pc = "work" /\ ol.item[olio.work].kind \in {"first_detach", "second_detach"}
    /\ olpn' = [olpn EXCEPT !.attached = IF olpn.context THEN FALSE ELSE @, !.context = FALSE]
    /\ olio' = [olio EXCEPT !.pc = "put", !.detach_sent = TRUE]
    /\ UNCHANGED <<olcf, olq, ol>>

\* Mutant: the item goes to the tail of the list.
PutBack_Tail(l, w, value) ==
    [l EXCEPT !.work_list = Append(@, w), !.item[w].value = value, !.item[w].processing = FALSE]

\* A delivery item that is not finished goes back to the head of the list and ends
\* the work on the link; after any other the next item is taken.
PutBack(l, w, value) ==
    [l EXCEPT !.work_list = <<w>> \o @, !.item[w].value = value, !.item[w].processing = FALSE]

Put ==
    /\ olio.pc = "put"
    /\ LET w == olio.work
           value == ol.item[w].value - olio.count
           done == Released([ol EXCEPT !.item[w].value = value, !.item[w].processing = FALSE])
       IN IF ol.item[w].kind = "delivery" /\ value > 0 /\ ~ol.detach_received
          THEN /\ ol' = PutBack(ol, w, value)
               /\ olio' = [olio EXCEPT !.pc = "end", !.work = 0, !.count = 0]
          ELSE /\ ol' = Taken(done, olio).l
               /\ olio' = Taken(done, olio).io
    /\ UNCHANGED <<olcf, olq, olpn>>

\* qdr_link_detach_sent, then the end of qdr_connection_process: processing is over,
\* and the core is told of a link it wants to free.
End ==
    /\ olio.pc = "end"
    /\ olq' = olq \o (IF olio.detach_sent THEN <<[op |-> "detach_sent"]>> ELSE <<>>)
    /\ olio' = [olio EXCEPT !.pc = "complete", !.detach_sent = FALSE]
    /\ UNCHANGED <<olcf, ol, olpn>>

Complete ==
    /\ olio.pc = "complete"
    /\ ol' = [ol EXCEPT !.processing = FALSE]
    /\ olq' = olq \o (IF ol.ready_to_free THEN <<[op |-> "processing_complete"]>> ELSE <<>>)
    /\ olio' = [olio EXCEPT !.pc = "idle"]
    /\ UNCHANGED <<olcf, olpn>>

-----------------------------------------------------------------------------
(* Proton's events for the link, handled by the I/O thread *)

\* qdr_link_flow: the absolute credit becomes an increment.
qdr_link_flow(p) ==
    LET absolute == p.credit - p.queued
        increment == IF absolute > ol.credit_to_core THEN absolute - ol.credit_to_core ELSE 0
        leaving == ol.drain_mode /\ ~p.drain
    IN  /\ olq' = Append(olq, [op |-> "flow", drain |-> p.drain,
                               credit |-> IF leaving THEN absolute ELSE increment])
        /\ ol' = [ol EXCEPT !.credit_to_core = IF leaving THEN 0 ELSE @ + increment]

\* The consumer gives credit, asks for a drain or ends one.  While it drains it gives
\* no more credit: two drains in a row may race with CORE_link_drained over drain_mode
\* and leave the second one unanswered.
ConsumerFlow(k, drain) ==
    /\ olio.pc = "idle" /\ ~olpn.closed
    /\ olpn.given + k <= olcf.credit
    /\ drain => ~olpn.drain /\ olpn.drains < olcf.drains
    /\ k > 0 \/ drain # olpn.drain
    /\ LET p == [olpn EXCEPT !.credit = @ + k, !.given = @ + k, !.drain = drain,
                             !.drains = IF drain THEN @ + 1 ELSE @]
       IN olpn' = p /\ qdr_link_flow(p)
    /\ UNCHANGED <<olcf, olio>>

\* Proton has written what was queued: another flow event, and the end of Q3.
Written ==
    /\ olio.pc = "idle" /\ (olpn.queued > 0 \/ olpn.q3)
    /\ LET p == [olpn EXCEPT !.queued = 0, !.q3 = FALSE] IN
       /\ olpn' = p
       /\ IF olpn.closed THEN UNCHANGED <<ol, olq>> ELSE qdr_link_flow(p)
    /\ UNCHANGED <<olcf, olio>>

\* AMQP_link_detach_handler: the consumer detaches, by itself or in answer.
ConsumerDetach ==
    /\ olio.pc = "idle" /\ ~olpn.closed
    /\ "consumer" \in olcf.detach \/ ~olpn.attached
    /\ olpn' = [olpn EXCEPT !.closed = TRUE]
    /\ olq' = Append(olq, [op |-> "detach", dt |-> "closed"])
    /\ UNCHANGED <<olcf, ol, olio>>

\* The connection is lost: AMQP_link_detach_handler(QD_LOST) if the link is still known,
\* then AMQP_closed_handler.
ConnectionLost ==
    /\ olio.pc = "idle" /\ "lost" \in olcf.detach
    /\ olpn' = [olpn EXCEPT !.closed = TRUE, !.context = FALSE, !.attached = FALSE]
    /\ olq' = olq \o (IF olpn.closed THEN <<>> ELSE <<[op |-> "detach", dt |-> "lost"]>>)
                  \o <<[op |-> "connection_closed"]>>
    /\ olio' = [olio EXCEPT !.pc = "gone"]
    /\ UNCHANGED <<olcf, ol>>

-----------------------------------------------------------------------------

IOStep == Take \/ CORE_link_push \/ NextDelivery \/ Deliver \/ DeliverStalled \/ Sent
          \/ CORE_link_drained \/ CORE_link_detach \/ Put \/ End \/ Complete

CoreStep == FlowRead \/ qdr_link_flow_CT \/ CoreAction

OLNext ==
    \/ qdr_forward_deliver_CT
    \/ \E d \in Dlv : qdr_delivery_continue_peers_CT(d)
    \/ RouterDetach
    \/ CoreStep
    \/ Process
    \/ IOStep
    \/ \E k \in {0, 1, 2}, drain \in BOOLEAN : ConsumerFlow(k, drain)
    \/ Written
    \/ ConsumerDetach
    \/ ConnectionLost

\* The core thread empties its queue, the I/O thread finishes what it has started and runs
\* when the core has activated the connection, and the transport writes.
OLFairness ==
    /\ WF_olvars(CoreStep)
    /\ WF_olvars(IOStep)
    /\ WF_olvars(Process /\ ol.activate)
    /\ WF_olvars(Written)

OLSpec == OLInit /\ [][OLNext]_olvars /\ OLFairness

-----------------------------------------------------------------------------
(* Properties *)

\* The deliveries a work item stands for.
Stands(w) == {d \in Dlv : ol.link_work[d] = w}

\* The value of every delivery item is the number of undelivered deliveries that refer
\* to it, however sends, joins (qdr_forward_deliver_CT) and drops of presettled
\* deliveries interleave: the I/O thread's limit and the end of the item depend on it.
WorkMatches ==
    ol.alive /\ ~ol.detach_received =>
       \A w \in DOMAIN ol.item : ol.item[w].kind = "delivery" =>
          /\ ol.item[w].value - (IF olio.work = w THEN olio.count ELSE 0)
                = Cardinality(Stands(w))
          /\ Stands(w) \subseteq ol.undelivered

\* The assertions of qdr_link_process_deliveries and qdr_connection_process: the delivery
\* just sent is still the head of the undelivered list, unless the list was
\* emptied, and no more deliveries are completed than the item stands for.
SentIsHead ==
    /\ olio.pc = "sent" /\ ol.undelivered # {} => DlvHead(ol) = olio.dlv
    /\ olio.work # 0 => olio.count <= ol.item[olio.work].value

\* The consumer's drain is answered (CORE_link_drained) only when every
\* delivery that was forwarded before the core recorded the drain has left
\* the undelivered list.
DrainAfterOlder ==
    /\ olio.pc = "work" /\ ol.item[olio.work].kind = "flow"
    /\ ~ol.detach_received
    => \A d \in ol.undelivered : d > ol.item[olio.work].after

\* No wakeup is lost (qdr_link_flow_CT, qdr_delivery_continue_peers_CT, Q3): a link with
\* credit and a complete message at the head of its undelivered list does not
\* stay so.
Starved ==
    /\ olpn.context /\ ~olpn.closed /\ olpn.credit > 0
    /\ ol.undelivered # {} /\ DlvHead(ol) \in ol.whole

Served == []<>~Starved

\* A consumer that drains is answered: its credit is used up or taken back
\* (DrainMessagesHandler and the other tests of system_tests_drain.py).  A message that
\* is still arriving at the head of the list holds the answer up.
Draining ==
    /\ olpn.context /\ ~olpn.closed /\ olpn.drain /\ olpn.credit > 0
    /\ ol.undelivered \subseteq ol.whole

DrainAnswered == []<>~Draining

\* "If the detach occurred via protocol, send a detach back" (qdr_link_inbound_detach_CT):
\* the detach of the consumer is answered and the link is freed.
DetachAnswered == olpn.closed ~> (~olpn.attached /\ ~ol.alive)

\* What the consumer asks of the link is answered.
RequestsAnswered == DrainAnswered /\ DetachAnswered

\* The work list and the undelivered list tell the same of every delivery.
WorkExact == WorkMatches /\ SentIsHead

\* The core and the I/O thread agree on the work of a link, and answer a drain in its turn.
OutLinkSound == WorkExact /\ DrainAfterOlder

\* A consumer with credit is served, and its drains and its detach are answered.
OutLinkAnswers == Served /\ RequestsAnswered
=============================================================================
