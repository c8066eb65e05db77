------------------------------ MODULE Delivery ------------------------------
(***************************************************************************)
(* The life of one message in the router core (delivery.c, with the parts  *)
(* of transfer.c, forwarder.c, connections.c and router_node.c that touch  *)
(* deliveries): the inbound delivery In, the outbound delivery of every    *)
(* link it is forwarded to (the elements of Out), their reference counts,  *)
(* settlement and outcomes.  A delivery is named by its link: every link   *)
(* carries this one message.                                               *)
(*                                                                         *)
(* Processes: the core thread, which runs the actions queued in q one      *)
(* after the other, and one I/O thread per link, which receives, sends and *)
(* hands the updates pushed by the core to proton.  The core's handlers    *)
(* are split (variable ct) where an I/O thread that is sending can see     *)
(* them half done.  c holds the state the threads share; pn is what proton *)
(* and the remote peer know of each delivery; io is the I/O threads'.      *)
(***************************************************************************)
EXTENDS Integers, Sequences, FiniteSets

CONSTANTS
  In,           \* the inbound delivery and its link
  Out,          \* the outbound links, each with its delivery of the message
  Configs       \* the situations considered: sets of records, see Config

\* The fields of a situation.
Config ==
  [multicast   : BOOLEAN,         \* the treatment of the address is multicast
   endpoint    : BOOLEAN,         \* the inbound link is an endpoint's, not another router's
   streaming   : BOOLEAN,         \* the message may be forwarded before it is fully received
   presettled  : SUBSET BOOLEAN,  \* the values the sender may give to "settled"
   outcomes    : SUBSET {"accepted", "rejected", "released", "modified", "received", "declared"},
                                  \* the delivery states a receiver may report
   bareSettle  : BOOLEAN,         \* receivers may settle without reporting any state
   sndSettled  : SUBSET Out,      \* the links whose remote sender settle mode is "settled"
   subscribers : BOOLEAN,         \* an in-process subscriber may be the destination
   receivers   : SUBSET Out,      \* the links that serve the address
   mayDetach   : SUBSET ({In} \cup Out)]  \* the links that may be closed or lost

ASSUME DeliveryAssumption ==
  /\ In \notin Out /\ IsFiniteSet(Out)
  /\ Configs \subseteq Config

VARIABLES c, ct, pn, io

vars == <<c, ct, pn, io>>

D == {In} \cup Out

\* The situation of this behaviour.
Multicast   == c.cf.multicast
Endpoint    == c.cf.endpoint
Outcomes    == c.cf.outcomes
BareSettle  == c.cf.bareSettle
SndSettled  == c.cf.sndSettled

\* A delivery state; "none" is 0.
Terminal == {"accepted", "rejected", "released", "modified", "declared"}
States == Terminal \cup {"none", "received"}

NoDelivery == [made |-> FALSE, freed |-> FALSE, ref |-> 0, where |-> "nowhere",
               settled |-> FALSE, presettled |-> FALSE, disp |-> "none",
               rdisp |-> "none", mdisp |-> "none", multicast |-> FALSE, link |-> TRUE]

Action(op, d, disp, settled, more) ==
  [op |-> op, d |-> d, disp |-> disp, settled |-> settled, more |-> more]

Init ==
  /\ \E cf \in Configs :
       c = [cf |-> cf, dlv |-> [d \in D |-> NoDelivery], peers |-> {}, upd |-> [d \in D |-> 0],
            q |-> <<>>, credit |-> 0, work |-> 0, subs |-> 0, lnk |-> [d \in D |-> "up"],
            rcv |-> "none", aborted |-> FALSE, discard |-> FALSE]
  /\ ct = [pc |-> "idle"]
  /\ pn = [d \in D |-> [ctx |-> FALSE, tag |-> FALSE, sent |-> FALSE, local |-> "none",
                        lset |-> FALSE, rdisp |-> "none", rset |-> FALSE]]
  /\ io = [d \in D |-> [pc |-> "idle", n |-> 0, disp |-> "none", seen |-> FALSE]]

-----------------------------------------------------------------------------
(* Reference counting and the lists a delivery can be on.                  *)

qdr_action_enqueue(s, a) == [s EXCEPT !.q = Append(@, a)]

qdr_delivery_incref(s, d) == [s EXCEPT !.dlv[d].ref = @ + 1]

\* Mutant: the last reference is dropped and nobody deletes the delivery.
qdr_delivery_decref_Forgets(s, d) == [s EXCEPT !.dlv[d].ref = @ - 1]

\* In an I/O thread: the last reference leaves the deletion to the core.
qdr_delivery_decref(s, d) ==
  LET e == [s EXCEPT !.dlv[d].ref = @ - 1]
  IN  IF s.dlv[d].ref = 1
      THEN qdr_action_enqueue(e, Action("delete", d, "none", FALSE, FALSE))
      ELSE e

\* In the core thread: dropping the last reference deletes at once.
DropRefs(r, n) == [r EXCEPT !.ref = @ - n, !.freed = @ \/ (n > 0 /\ r.ref = n)]

qdr_delivery_decref_CT(s, d) == [s EXCEPT !.dlv[d] = DropRefs(@, 1)]

DecrefIf(cond, s, d) == IF cond THEN qdr_delivery_decref_CT(s, d) ELSE s

\* qdr_delivery_link: the delivery's safe pointer to its link is still valid.
HasLink(s, d) == s.dlv[d].link /\ s.lnk[d] # "freed"

\* Whether qdr_delivery_settled_CT takes d off its link's unsettled list.
Moves(s, d) == HasLink(s, d) /\ s.dlv[d].where = "unsettled"

qdr_delivery_settled_CT(s, d) ==
  IF Moves(s, d)
  THEN [s EXCEPT !.dlv[d].where = "nowhere",
                 !.credit = IF d = In /\ Endpoint THEN @ + 1 ELSE @]
  ELSE s

\* Mutant: the list of updated deliveries holds no reference.
qdr_delivery_push_CT_NoRef(s, d) ==
  IF HasLink(s, d) /\ s.dlv[d].where # "undelivered" THEN [s EXCEPT !.upd[d] = @ + 1] ELSE s

qdr_delivery_push_CT(s, d) ==
  IF HasLink(s, d) /\ s.dlv[d].where # "undelivered"
  THEN [qdr_delivery_incref(s, d) EXCEPT !.upd[d] = @ + 1]
  ELSE s

PushIf(cond, s, d) == IF cond THEN qdr_delivery_push_CT(s, d) ELSE s

qdr_delivery_unlink_peers_CT(s, p) ==
  qdr_delivery_decref_CT(qdr_delivery_decref_CT([s EXCEPT !.peers = @ \ {p}], In), p)

\* The peers of a delivery: In has the linked outbound ones, those have In.
Peers(s, d) == IF d = In THEN s.peers ELSE {x \in {In} : d \in s.peers}

\* Unlinking the peers of In one after the other.
UnlinkAll(s) ==
  [s EXCEPT !.peers = {},
            !.dlv = [d \in D |-> DropRefs(s.dlv[d], Cardinality(Peers(s, d)))]]

\* The common body of release, fail and reject.
SettleAs(s, d, disp) ==
  LET moved == Moves(s, d)
      push  == s.dlv[d].disp # disp
      e     == qdr_delivery_settled_CT([s EXCEPT !.dlv[d].disp = disp, !.dlv[d].settled = TRUE], d)
  IN  DecrefIf(moved, PushIf(push \/ moved, e, d), d)

qdr_delivery_release_CT(s, d) ==
  IF s.dlv[d].presettled THEN qdr_delivery_push_CT(s, d) ELSE SettleAs(s, d, "released")

qdr_delivery_failed_CT(s, d) == SettleAs(s, d, "modified")

qdr_delivery_reject_CT(s, d) == SettleAs(s, d, "rejected")

-----------------------------------------------------------------------------
(* Multicast: the outcomes of the receivers are reconciled.                *)

priority == [accepted |-> 2, rejected |-> 3, released |-> 0, modified |-> 1]

\* Mutant: the last outcome wins.
mcast_outbound_disposition_LastWins(s, p, new_disp) ==
  LET disp == IF new_disp = "declared" THEN "rejected" ELSE new_disp
      e    == [s EXCEPT !.dlv[p].rdisp = disp]
      all  == \A x \in e.peers : e.dlv[x].rdisp \in Terminal
  IN  IF disp \notin Terminal THEN [s |-> e, push |-> FALSE]
      ELSE [s    |-> [e EXCEPT !.dlv[In].mdisp = disp, !.dlv[In].disp = IF all THEN disp ELSE @],
            push |-> all]

qdr_delivery_mcast_outbound_disposition_CT(s, p, new_disp) ==
  LET disp  == IF new_disp = "declared" THEN "rejected" ELSE new_disp
      old   == s.dlv[In].mdisp
      mdisp == IF old = "none" \/ priority[disp] > priority[old] THEN disp ELSE old
      e     == [s EXCEPT !.dlv[p].rdisp = disp]
      all   == \A x \in e.peers : e.dlv[x].rdisp \in Terminal
  IN  IF disp \notin Terminal THEN [s |-> e, push |-> FALSE]
      ELSE [s    |-> [e EXCEPT !.dlv[In].mdisp = mdisp,
                               !.dlv[In].disp = IF all THEN mdisp ELSE @],
            push |-> all]

\* The last receiver to settle settles the inbound delivery.
qdr_delivery_mcast_outbound_settled_CT(s, p) ==
  LET last == s.peers = {p}
      e == IF last THEN qdr_delivery_settled_CT([s EXCEPT !.dlv[In].settled = TRUE], In) ELSE s
      f == [e EXCEPT !.dlv[p].settled = TRUE]
      g == DecrefIf(Moves(f, p), qdr_delivery_settled_CT(f, p), p)
  IN  [s |-> qdr_delivery_unlink_peers_CT(g, p), push |-> last, moved |-> last /\ Moves(s, In)]

qdr_delivery_mcast_outbound_update_CT(s, p, disp, settled) ==
  LET d  == qdr_delivery_mcast_outbound_disposition_CT(s, p, disp)
      e  == qdr_delivery_incref(d.s, In)
      f  == IF settled THEN qdr_delivery_mcast_outbound_settled_CT(e, p)
                       ELSE [s |-> e, push |-> FALSE, moved |-> FALSE]
      g  == PushIf(d.push \/ f.push, f.s, In)
  IN  qdr_delivery_decref_CT(DecrefIf(f.moved, g, In), In)

-----------------------------------------------------------------------------
(* The core thread: link_deliver and forwarding.                           *)

Complete(s) == s.rcv = "all" \/ s.aborted

NextAction(op) == ct.pc = "idle" /\ c.q # <<>> /\ Head(c.q).op = op
Dequeued == [c EXCEPT !.q = Tail(@)]

AddCredit(s) == [s EXCEPT !.credit = @ + 1]

\* No path to the target of the link: released, and the credit is drained and
\* kept as pending until a path appears.
ForwardNoPath ==
  /\ NextAction("deliver")
  /\ c' = AddCredit(qdr_delivery_decref_CT(qdr_delivery_release_CT(Dequeued, In), In))
  /\ UNCHANGED <<ct, pn, io>>

\* The address is unknown and its treatment is "unavailable"; the link is anonymous
\* (one with a target would have been refused when it attached).
ForwardUnavailable ==
  /\ NextAction("deliver")
  /\ LET e == IF Endpoint THEN qdr_delivery_reject_CT(Dequeued, In)
                          ELSE qdr_delivery_release_CT(Dequeued, In)
     IN  c' = qdr_delivery_decref_CT(AddCredit(e), In)
  /\ UNCHANGED <<ct, pn, io>>

\* The forwarder found no destination.
ForwardNowhere ==
  /\ NextAction("deliver")
  /\ LET s == [Dequeued EXCEPT !.dlv[In].multicast = Multicast]
         e == IF s.dlv[In].settled THEN s ELSE qdr_delivery_release_CT(s, In)
     IN  c' = AddCredit(qdr_delivery_decref_CT(e, In))
  /\ UNCHANGED <<ct, pn, io>>

\* qdr_forward_new_delivery_CT and qdr_forward_deliver_CT for the links T.
Outbound(s, linked) ==
  [NoDelivery EXCEPT !.made = TRUE, !.ref = IF linked THEN 2 ELSE 1, !.where = "undelivered",
                     !.settled = s.dlv[In].settled, !.presettled = s.dlv[In].settled]

DeliverTo(s, T) ==
  LET linked == ~s.dlv[In].settled \/ s.rcv # "all"
      e == [s EXCEPT !.dlv = [d \in D |-> IF d \in T THEN Outbound(s, linked) ELSE @[d]]]
  IN  IF linked THEN [e EXCEPT !.peers = T, !.dlv[In].ref = @ + Cardinality(T)] ELSE e

\* A subscriber gets the message as a work item when it is complete.
qdr_forward_to_subscriber_CT(s) ==
  IF s.rcv = "all" THEN [qdr_delivery_incref(s, In) EXCEPT !.work = @ + 1]
                   ELSE [s EXCEPT !.subs = @ + 1]

\* The action's reference becomes the list's when In is kept on a list.
KeepInbound(s, more) ==
  IF s.dlv[In].settled
  THEN IF more THEN AddCredit([s EXCEPT !.dlv[In].where = "settled"])
               ELSE qdr_delivery_decref_CT(AddCredit(s), In)
  ELSE LET e == [s EXCEPT !.dlv[In].where = "unsettled"]
       IN  IF Endpoint THEN e ELSE AddCredit(e)

Bound(s, d) == s.lnk[d] \in {"up", "closing", "lost"}

Forward(T, sub) ==
  /\ NextAction("deliver")
  /\ T \subseteq {d \in c.cf.receivers : Bound(c, d)}
  /\ sub => c.cf.subscribers
  /\ Cardinality(T) + (IF sub THEN 1 ELSE 0) \in (IF Multicast THEN 1 .. Cardinality(Out) + 1 ELSE {1})
  /\ LET s == [Dequeued EXCEPT !.dlv[In].multicast = Multicast]
         e == DeliverTo(s, T)
         f == IF sub THEN qdr_forward_to_subscriber_CT(e) ELSE e
     IN  c' = KeepInbound(f, Head(c.q).more)
  /\ UNCHANGED <<ct, pn, io>>

-----------------------------------------------------------------------------
(* The core thread: the rest of a message arrives, updates, deletion.      *)

\* A presettled delivery that streamed through: done with its peers.
FinishSettled(s) ==
  LET e == qdr_delivery_push_CT([s EXCEPT !.dlv[In].disp = "accepted"], In)
      f == [UnlinkAll(e) EXCEPT !.dlv[In].where = "nowhere"]
  IN  qdr_delivery_decref_CT(qdr_delivery_decref_CT(f, In), In)

qdr_delivery_continue_CT ==
  /\ NextAction("continue")
  /\ LET pre == c.dlv[In].presettled \/ Head(c.q).settled
         s == [Dequeued EXCEPT !.dlv[In].presettled = pre]
         t == [s EXCEPT !.dlv = [d \in D |-> IF d \in s.peers
                                             THEN [@[d] EXCEPT !.presettled = @ \/ pre] ELSE @[d]]]
         u == [t EXCEPT !.subs = 0, !.work = @ + t.subs, !.dlv[In].ref = @ + t.subs]
     IN  c' = IF ~HasLink(s, In) THEN qdr_delivery_decref_CT(s, In)
              ELSE IF c.discard THEN qdr_delivery_decref_CT(t, In)
              ELSE IF u.dlv[In].settled /\ u.dlv[In].where # "nowhere" THEN FinishSettled(u)
              ELSE qdr_delivery_decref_CT(u, In)
  /\ UNCHANGED <<ct, pn, io>>

\* What an in-process subscriber made of the message.
qdr_settle_subscription_delivery_CT ==
  /\ NextAction("settle_subscription")
  /\ LET s == [Dequeued EXCEPT !.dlv[In].disp = Head(c.q).disp, !.dlv[In].settled = TRUE]
         moved == Moves(s, In)
         e == DecrefIf(moved, qdr_delivery_settled_CT(s, In), In)
     IN  c' = qdr_delivery_decref_CT(PushIf(moved, e, In), In)
  /\ UNCHANGED <<ct, pn, io>>

qdr_delete_delivery_CT ==
  /\ NextAction("delete")
  /\ c' = [Dequeued EXCEPT !.dlv[Head(c.q).d].freed = TRUE]
  /\ UNCHANGED <<ct, pn, io>>

FromMulticast(s, d) == d # In /\ In \in Peers(s, d) /\ s.dlv[In].multicast
IsMulticast(s, d) == d = In /\ s.dlv[In].multicast

\* A receiver of a multicast message has news for the sender.
UpdateOutbound ==
  /\ NextAction("update")
  /\ LET a == Head(c.q)
     IN  /\ FromMulticast(c, a.d)
         /\ c' = qdr_delivery_decref_CT(
                   qdr_delivery_mcast_outbound_update_CT(Dequeued, a.d, a.disp, a.settled), a.d)
  /\ UNCHANGED <<ct, pn, io>>

\* Anycast, first part: the remote state moves to the peer, which is marked settled.
qdr_delivery_anycast_update_CT ==
  /\ NextAction("update")
  /\ LET a  == Head(c.q)
         P  == Peers(c, a.d)
         s  == [Dequeued EXCEPT !.dlv[a.d].rdisp = a.disp]
     IN  /\ ~IsMulticast(c, a.d) /\ ~FromMulticast(c, a.d)
         /\ c' = [s EXCEPT !.dlv = [d \in D |-> IF d \notin P THEN @[d]
                     ELSE [@[d] EXCEPT !.ref = @ + 1,
                                       !.disp = IF a.disp = "none" THEN @ ELSE a.disp,
                                       !.settled = @ \/ a.settled]]]
         /\ ct' = [pc |-> "settle", d |-> a.d, P |-> P, push |-> a.disp # "none",
                   settled |-> a.settled, pmoved |-> FALSE, dmoved |-> FALSE]
  /\ UNCHANGED <<pn, io>>

\* Second part: both are taken off their unsettled lists and unlinked.
AnycastSettle ==
  /\ ct.pc = "settle"
  /\ IF ~ct.settled THEN UNCHANGED c /\ ct' = [ct EXCEPT !.pc = "push"]
     ELSE LET p == CHOOSE p \in ct.P : TRUE
              o == IF ct.d = In THEN p ELSE ct.d
              e == IF ct.P = {} THEN c
                   ELSE qdr_delivery_unlink_peers_CT(qdr_delivery_settled_CT(c, p), o)
          IN  /\ c' = qdr_delivery_settled_CT(e, ct.d)
              /\ ct' = [ct EXCEPT !.pc = "push", !.pmoved = ct.P # {} /\ Moves(c, p),
                                  !.dmoved = Moves(c, ct.d)]
  /\ UNCHANGED <<pn, io>>

\* Third part: the peer's I/O thread is told, and the references are dropped.
AnycastPush ==
  /\ ct.pc = "push"
  /\ LET n(d) == (IF d = ct.d THEN 1 ELSE 0) + (IF d = ct.d /\ ct.dmoved THEN 1 ELSE 0)
                + (IF d \in ct.P THEN 1 ELSE 0) + (IF d \in ct.P /\ ct.pmoved THEN 1 ELSE 0)
         e == IF ct.P = {} THEN c
              ELSE PushIf(ct.push \/ ct.pmoved, c, CHOOSE p \in ct.P : TRUE)
     IN  c' = [e EXCEPT !.dlv = [d \in D |-> DropRefs(e.dlv[d], n(d))]]
  /\ ct' = [pc |-> "idle"]
  /\ UNCHANGED <<pn, io>>

\* The sender of a multicast message has news for the receivers: one peer at a
\* time is marked, settled and told; after is what follows the loop.
McastInbound(disp, settled, after, P) ==
  [pc |-> "mark", todo |-> P, p |-> In, settled |-> settled, disp |-> disp,
   push |-> FALSE, moved |-> FALSE, after |-> after]

UpdateInbound ==
  /\ NextAction("update")
  /\ LET a == Head(c.q)
         new == a.disp # "none" /\ c.dlv[In].rdisp # a.disp
     IN  /\ IsMulticast(c, a.d)
         /\ c' = [Dequeued EXCEPT !.dlv[In].rdisp = IF new THEN a.disp ELSE @]
         /\ ct' = McastInbound(IF new THEN a.disp ELSE "none", a.settled, "action", c.peers)
  /\ UNCHANGED <<pn, io>>

McastMark ==
  /\ ct.pc = "mark" /\ ct.todo # {}
  /\ \E p \in ct.todo :
       LET push == ct.disp \notin {"none", c.dlv[p].disp}
       IN  /\ c' = [c EXCEPT !.dlv[p].disp = IF push THEN ct.disp ELSE @,
                             !.dlv[p].settled = @ \/ ct.settled]
           /\ ct' = [ct EXCEPT !.pc = "msettle", !.p = p, !.push = push]
  /\ UNCHANGED <<pn, io>>

McastSettle ==
  /\ ct.pc = "msettle"
  /\ c' = IF ct.settled THEN qdr_delivery_settled_CT(c, ct.p) ELSE c
  /\ ct' = [ct EXCEPT !.pc = "mpush", !.moved = ct.settled /\ Moves(c, ct.p)]
  /\ UNCHANGED <<pn, io>>

McastPush ==
  /\ ct.pc = "mpush"
  /\ LET e == DecrefIf(ct.moved, PushIf(ct.push \/ ct.moved, c, ct.p), ct.p)
     IN  c' = IF ct.settled THEN qdr_delivery_unlink_peers_CT(e, ct.p) ELSE e
  /\ ct' = [ct EXCEPT !.pc = "mark", !.todo = @ \ {ct.p}, !.moved = FALSE]
  /\ UNCHANGED <<pn, io>>

-----------------------------------------------------------------------------
(* The core thread: a link is detached or freed.                           *)

\* The updates nobody will hand to proton any more.
DropUpdates(s, l) ==
  [s EXCEPT !.upd[l] = 0, !.dlv[l] = DropRefs([@ EXCEPT !.link = @ /\ s.upd[l] = 0], s.upd[l])]

\* Off its list, before its peers hear of it; what is still arriving is aborted.
TakeOff(s, l) ==
  [s EXCEPT !.dlv[l].where = "nowhere",
            !.aborted = @ \/ (l = In /\ s.dlv[In].where # "nowhere" /\ s.rcv # "all")]

\* The list's reference, when it was on one.
Forget(s, l, listed) ==
  IF listed THEN [s EXCEPT !.dlv[l] = DropRefs([@ EXCEPT !.link = FALSE], 1)] ELSE s

qdr_link_cleanup_deliveries_CT(s, l) ==
  LET w == s.dlv[l].where
      e == TakeOff(DropUpdates(s, l), l)
      f == IF w = "nowhere" THEN e
           ELSE IF l = In THEN UnlinkAll(e)
           ELSE IF l \notin e.peers THEN e
           ELSE IF e.dlv[In].multicast
                THEN qdr_delivery_mcast_outbound_update_CT(
                       e, l, IF w = "undelivered" THEN "released" ELSE "modified", TRUE)
           ELSE qdr_delivery_unlink_peers_CT(
                  IF w = "undelivered" THEN qdr_delivery_release_CT(e, In)
                                       ELSE qdr_delivery_failed_CT(e, In), l)
  IN  Forget(f, l, w # "nowhere")

\* An inbound unsettled multicast delivery tells its receivers first.
TellsReceivers(s, l) == l = In /\ s.dlv[In].where = "unsettled" /\ s.dlv[In].multicast

\* Lost: freed at once unless its I/O thread is processing it; closed by the
\* peer: a detach is sent back first.
AfterDetach(l, lost) ==
  IF ~lost THEN "detached" ELSE IF io[l].pc = "idle" THEN "freed" ELSE "ready"

qdr_link_inbound_detach_CT ==
  /\ NextAction("detach")
  /\ LET l == Head(c.q).d
         lost == Head(c.q).settled
     IN  IF TellsReceivers(c, l)
         THEN /\ c' = [TakeOff(DropUpdates(Dequeued, In), In) EXCEPT !.dlv[In].rdisp = "modified"]
              /\ ct' = McastInbound(IF c.dlv[In].rdisp = "modified" THEN "none" ELSE "modified", TRUE,
                                    IF lost THEN "lost" ELSE "closed", c.peers)
         ELSE /\ c' = [qdr_link_cleanup_deliveries_CT(Dequeued, l) EXCEPT !.lnk[l] = AfterDetach(l, lost)]
              /\ UNCHANGED ct
  /\ UNCHANGED <<pn, io>>

\* The end of the loop over the receivers, and of the handler that ran it.
McastDone ==
  /\ ct.pc = "mark" /\ ct.todo = {}
  /\ LET moved == ct.settled /\ Moves(c, In)
         e == IF ct.settled THEN qdr_delivery_settled_CT([c EXCEPT !.dlv[In].settled = TRUE], In) ELSE c
         f == DecrefIf(moved, e, In)
     IN  c' = IF ct.after = "action" THEN qdr_delivery_decref_CT(f, In)
              ELSE [Forget(f, In, TRUE) EXCEPT !.lnk[In] = AfterDetach(In, ct.after = "lost")]
  /\ ct' = [pc |-> "idle"]
  /\ UNCHANGED <<pn, io>>

\* qdr_link_detach_sent_CT and qdr_link_processing_complete_CT.
qdr_link_cleanup_CT ==
  /\ NextAction("free")
  /\ LET l == Head(c.q).d
     IN  c' = [qdr_link_cleanup_deliveries_CT(Dequeued, l) EXCEPT !.lnk[l] = "freed"]
  /\ UNCHANGED <<ct, pn, io>>

-----------------------------------------------------------------------------
(* The inbound link's I/O thread.                                          *)

Idle(d) == io[d].pc = "idle"

Enqueue(s, op, d, disp, settled, more) == qdr_action_enqueue(s, Action(op, d, disp, settled, more))

Connect(s, d) == qdr_delivery_incref(s, d)

\* qdr_node_disconnect_deliveries, when the two are still connected.
Disconnect(s, d) == IF pn[d].ctx THEN qdr_delivery_decref(s, d) ELSE s

\* The part of AMQP_disposition_handler that reports to the core.
qdr_delivery_remote_state_updated(s, d, disp, settled) ==
  Enqueue(qdr_delivery_incref(s, d), "update", d, disp, settled, FALSE)

\* The first frames of the message: qdr_link_deliver.
qdr_link_deliver(settled, part) ==
  /\ Idle(In) /\ c.rcv = "none" /\ c.lnk[In] = "up"
  /\ LET s == [c EXCEPT !.rcv = IF part THEN "part" ELSE "all",
                        !.dlv[In] = [@ EXCEPT !.made = TRUE, !.ref = 2, !.settled = settled,
                                              !.presettled = settled]]
     IN  c' = Enqueue(s, "deliver", In, "none", FALSE, part)
  /\ io' = [io EXCEPT ![In].pc = "made"]
  /\ pn' = [pn EXCEPT ![In].rset = settled]
  /\ UNCHANGED ct

\* The rest of that event: connected to proton's delivery, the reference that
\* protected the returned value is dropped; a settled one is closed out.
RxConnect ==
  /\ io[In].pc = "made"
  /\ LET done == pn[In].rset /\ c.rcv = "all"
         s == qdr_delivery_decref(Connect(c, In), In)
     IN  /\ c' = IF done THEN qdr_delivery_decref(qdr_delivery_remote_state_updated(s, In, "none", TRUE), In)
                         ELSE s
         /\ pn' = [pn EXCEPT ![In].ctx = ~done, ![In].lset = done]
  /\ io' = [io EXCEPT ![In].pc = "idle"]
  /\ UNCHANGED ct

\* The last frames, possibly with the sender's settlement or an abort.
RxMore(settled, aborted) ==
  /\ Idle(In) /\ c.rcv = "part" /\ c.lnk[In] = "up" /\ pn[In].ctx
  /\ aborted => settled
  /\ LET rset == pn[In].rset \/ settled
         s == [c EXCEPT !.rcv = "all", !.aborted = @ \/ aborted]
         e == Enqueue(qdr_delivery_incref(s, In), "continue", In, "none", rset, FALSE)
     IN  IF c.discard
         THEN /\ c' = qdr_delivery_decref([s EXCEPT !.dlv[In].presettled = @ \/ rset], In)
              /\ pn' = [pn EXCEPT ![In] = [@ EXCEPT !.ctx = FALSE, !.lset = TRUE, !.rset = rset,
                          !.local = IF c.dlv[In].disp = "none" THEN @ ELSE c.dlv[In].disp]]
         ELSE /\ c' = IF rset THEN qdr_delivery_decref(qdr_delivery_remote_state_updated(e, In, "none", TRUE), In)
                              ELSE e
              /\ pn' = [pn EXCEPT ![In] = [@ EXCEPT !.ctx = ~rset, !.lset = @ \/ rset, !.rset = rset]]
  /\ UNCHANGED <<ct, io>>

-----------------------------------------------------------------------------
(* Any link's I/O thread: dispositions, pushed updates, sending, detach.   *)

\* The remote peer of d changes its state and/or settles.  A settlement that
\* comes before the message is fully received is ignored.
AMQP_disposition_handler(d, disp, set) ==
  /\ Idle(d) /\ pn[d].ctx /\ ~pn[d].rset /\ c.lnk[d] = "up"
  /\ d # In => pn[d].tag
  /\ disp # "none" => disp # pn[d].rdisp /\ pn[d].rdisp \notin Terminal
  /\ set \/ disp # "none"
  /\ LET state   == IF disp = "none" THEN pn[d].rdisp ELSE disp
         settled == set /\ c.rcv = "all"
         s == IF state # "none" \/ settled
              THEN qdr_delivery_remote_state_updated(c, d, state, settled) ELSE c
     IN  /\ c' = IF settled THEN qdr_delivery_decref(s, d) ELSE s
         /\ pn' = [pn EXCEPT ![d] = [@ EXCEPT !.rdisp = state, !.rset = set,
                                              !.ctx = ~settled, !.lset = settled]]
  /\ UNCHANGED <<ct, io>>

SenderSettles == AMQP_disposition_handler(In, "none", TRUE)

ReceiverUpdates(p) ==
  \E disp \in Outcomes \cup {"none"}, settled \in BOOLEAN :
    /\ BareSettle \/ disp # "none" \/ pn[p].rdisp # "none"
    /\ AMQP_disposition_handler(p, disp, settled)

\* qdr_connection_process takes the link's updated deliveries ...
TakeUpdates(d) ==
  /\ Idle(d) /\ c.upd[d] > 0 /\ c.lnk[d] # "freed"
  /\ io' = [io EXCEPT ![d].pc = "read", ![d].n = c.upd[d]]
  /\ c' = [c EXCEPT !.upd[d] = 0]
  /\ UNCHANGED <<ct, pn>>

\* ... and calls the handler with each one's disposition and settled flag, read
\* one after the other and without a lock.
ReadUpdate(d) ==
  /\ io[d].pc = "read"
  /\ io' = [io EXCEPT ![d].pc = "update", ![d].disp = c.dlv[d].disp]
  /\ UNCHANGED <<c, ct, pn>>

\* qdr_delivery_take_local_delivery_state: only a terminal state stays.
TakeLocal(s, d) ==
  [s EXCEPT !.dlv[d].disp = IF @ \in Terminal THEN @ ELSE "none"]

CORE_delivery_update(d) ==
  /\ io[d].pc = "update"
  /\ LET disp == io[d].disp
         live  == pn[d].ctx /\ HasLink(c, d) /\ c.lnk[d] # "lost"
         told  == live /\ disp # "none" /\ ~pn[d].rset
         s     == IF told THEN TakeLocal(c, d) ELSE c
         close == live /\ c.dlv[d].settled /\ c.rcv = "all"
         drop  == live /\ c.dlv[d].settled /\ c.rcv # "all"
                  /\ (disp \in {"released", "modified", "rejected"} \/ c.dlv[d].presettled)
         e     == IF close THEN qdr_delivery_decref(s, d)
                  ELSE IF drop THEN [s EXCEPT !.dlv[d].disp = disp, !.discard = TRUE] ELSE s
     IN  /\ c' = qdr_delivery_decref(e, d)
         /\ pn' = [pn EXCEPT ![d] = [@ EXCEPT !.local = IF told THEN disp ELSE @,
                                              !.ctx = @ /\ ~close, !.lset = @ \/ close]]
  /\ io' = [io EXCEPT ![d].n = @ - 1, ![d].pc = IF io[d].n = 1 THEN "idle" ELSE "read"]
  /\ UNCHANGED ct

\* qdr_link_process_deliveries: the head of the undelivered list, its settled
\* flag read under the lock.
SendStart(p) ==
  /\ Idle(p) /\ c.dlv[p].where = "undelivered" /\ c.lnk[p] \in {"up", "closing"}
  /\ pn[p].tag => Complete(c)
  /\ c' = qdr_delivery_incref(c, p)
  /\ io' = [io EXCEPT ![p].pc = "send", ![p].seen = c.dlv[p].settled]
  /\ UNCHANGED <<ct, pn>>

\* CORE_link_deliver, without the lock.  The message is all sent when it has
\* all arrived; an aborted or settled delivery is closed out.
CORE_link_deliver(p) ==
  /\ io[p].pc = "send"
  /\ LET first == ~pn[p].tag
         live  == first \/ pn[p].ctx
         sent  == Complete(c)
         auto  == live /\ sent /\ ~c.aborted /\ ~io[p].seen /\ p \in SndSettled
         close == live /\ sent /\ (c.aborted \/ io[p].seen \/ p \in SndSettled)
         s     == IF first THEN TakeLocal(Connect(c, p), p) ELSE c
     IN  /\ c' = IF close THEN qdr_delivery_decref(s, p) ELSE s
         /\ pn' = [pn EXCEPT ![p] = [@ EXCEPT !.tag = TRUE, !.sent = @ \/ sent,
                                              !.local = IF first THEN c.dlv[p].disp ELSE @,
                                              !.ctx = live /\ ~close, !.lset = @ \/ close]]
         /\ io' = [io EXCEPT ![p].pc = "sent", ![p].disp = IF auto THEN "accepted" ELSE "none"]
  /\ UNCHANGED ct

\* Mutant: the settled flag is not looked at again.
MissedSettlement_Never(p) == FALSE

\* Again under the lock.  A settlement that was missed (DISPATCH-1302) means
\* another call; a list that was emptied (DISPATCH-1153) means a detach.
MissedSettlement(p) == c.dlv[p].settled # io[p].seen

SendFinish(p) ==
  /\ io[p].pc = "sent"
  /\ LET listed == c.dlv[p].where = "undelivered"
         moved  == [c EXCEPT !.dlv[p].where = "unsettled"]
         gone   == qdr_delivery_decref([c EXCEPT !.dlv[p].where = "nowhere"], p)
         s      == IF io[p].seen \/ c.aborted THEN gone ELSE moved
         e      == IF io[p].disp = "none" THEN s
                   ELSE qdr_delivery_remote_state_updated(s, p, io[p].disp, TRUE)
     IN  IF MissedSettlement(p)
         THEN c' = c /\ io' = [io EXCEPT ![p].pc = "send", ![p].seen = c.dlv[p].settled]
         ELSE /\ c' = qdr_delivery_decref(IF pn[p].sent /\ listed THEN e ELSE c, p)
              /\ io' = [io EXCEPT ![p].pc = "idle", ![p].disp = "none"]
  /\ UNCHANGED <<ct, pn>>

\* AMQP_link_detach_handler: the last event of a link.  A lost one takes the
\* connection between proton's delivery and the core's with it.
Detach(l, lost) ==
  /\ Idle(l) /\ l \in c.cf.mayDetach /\ c.lnk[l] = "up"
  /\ LET s == IF lost THEN Disconnect(c, l) ELSE c
     IN  c' = [Enqueue(s, "detach", l, "none", lost, FALSE)
                EXCEPT !.lnk[l] = IF lost THEN "lost" ELSE "closing"]
  /\ pn' = [pn EXCEPT ![l].ctx = @ /\ ~lost]
  /\ UNCHANGED <<ct, io>>

\* CORE_link_detach: the second detach is sent and the link's deliveries abandoned.
DetachSent(l) ==
  /\ Idle(l) /\ c.lnk[l] = "detached"
  /\ c' = [Enqueue(Disconnect(c, l), "free", l, "none", FALSE, FALSE) EXCEPT !.lnk[l] = "sent"]
  /\ pn' = [pn EXCEPT ![l].ctx = FALSE]
  /\ UNCHANGED <<ct, io>>

\* The I/O thread is done with a link that was found busy.
ProcessingComplete(l) ==
  /\ Idle(l) /\ c.lnk[l] = "ready"
  /\ c' = [Enqueue(c, "free", l, "none", FALSE, FALSE) EXCEPT !.lnk[l] = "sent"]
  /\ UNCHANGED <<ct, pn, io>>

\* A work item is run: the subscriber's answer settles an anycast delivery.
qdr_forward_on_message ==
  /\ c.work > 0
  /\ LET s == [c EXCEPT !.work = @ - 1]
     IN  c' = IF c.dlv[In].multicast THEN qdr_delivery_decref(s, In)
              ELSE Enqueue(s, "settle_subscription", In, "accepted", TRUE, FALSE)
  /\ UNCHANGED <<ct, pn, io>>

-----------------------------------------------------------------------------

Core ==
  \/ ForwardNoPath \/ ForwardUnavailable \/ ForwardNowhere
  \/ \E T \in SUBSET Out, sub \in BOOLEAN : Forward(T, sub)
  \/ qdr_delivery_continue_CT \/ qdr_settle_subscription_delivery_CT \/ qdr_delete_delivery_CT
  \/ UpdateOutbound \/ qdr_delivery_anycast_update_CT \/ AnycastSettle \/ AnycastPush
  \/ UpdateInbound \/ McastMark \/ McastSettle \/ McastPush \/ McastDone
  \/ qdr_link_inbound_detach_CT \/ qdr_link_cleanup_CT

IO(d) ==
  \/ d = In /\ RxConnect
  \/ TakeUpdates(d) \/ ReadUpdate(d) \/ CORE_delivery_update(d)
  \/ d # In /\ (SendStart(d) \/ CORE_link_deliver(d) \/ SendFinish(d))
  \/ DetachSent(d) \/ ProcessingComplete(d)

\* What the remote peers do.
Remote ==
  \/ \E settled \in c.cf.presettled, part \in {c.cf.streaming, FALSE} : qdr_link_deliver(settled, part)
  \/ \E settled, aborted \in BOOLEAN : RxMore(settled, aborted)
  \/ SenderSettles
  \/ \E p \in Out : ReceiverUpdates(p)
  \/ \E l \in D, lost \in BOOLEAN : Detach(l, lost)

Next == Core \/ (\E d \in D : IO(d)) \/ qdr_forward_on_message \/ Remote

\* The core thread and the I/O threads keep running; the peers need not act.
Spec == Init /\ [][Next]_vars /\ WF_vars(Core) /\ (\A d \in D : WF_vars(IO(d)))
        /\ WF_vars(qdr_forward_on_message)

-----------------------------------------------------------------------------
(* Properties.                                                             *)

Wheres == {"nowhere", "undelivered", "unsettled", "settled"}
LinkStates == {"up", "closing", "lost", "detached", "ready", "sent", "freed"}

\* The shape of the state: counters are natural numbers, an inbound delivery is
\* never on an undelivered list, an outbound one never on a settled list.
TypeOK ==
  /\ \A d \in D :
       /\ c.dlv[d].ref \in Nat /\ c.upd[d] \in Nat /\ io[d].n \in Nat
       /\ c.dlv[d].where \in Wheres \ {IF d = In THEN "undelivered" ELSE "settled"}
       /\ {c.dlv[d].disp, c.dlv[d].rdisp, c.dlv[d].mdisp, pn[d].local, pn[d].rdisp} \subseteq States
       /\ c.lnk[d] \in LinkStates
  /\ c.peers \subseteq Out
  /\ c.rcv \in {"none", "part", "all"}
  /\ \A i \in DOMAIN c.q : c.q[i].d \in D

Bit(b) == IF b THEN 1 ELSE 0
Queued(S, d) == Cardinality({i \in DOMAIN c.q : c.q[i].d = d /\ c.q[i].op \in S})

\* The references the core's running handler owns.
Held(d) ==
  IF ct.pc \in {"settle", "push"}
  THEN Bit(d = ct.d) + Bit(d = ct.d /\ ct.dmoved) + Bit(d \in ct.P) + Bit(d \in ct.P /\ ct.pmoved)
  ELSE IF ct.pc \in {"mark", "msettle", "mpush"}
  THEN Bit(d = In) + Bit(d = ct.p /\ ct.moved)
  ELSE 0

\* Everything that holds a reference to delivery d.
Holders(d) ==
  Bit(c.dlv[d].where # "nowhere") + Cardinality(Peers(c, d)) + c.upd[d]
  + Queued({"deliver", "update", "continue", "settle_subscription"}, d) + Held(d)
  + io[d].n + Bit(io[d].pc \in {"made", "send", "sent"}) + Bit(pn[d].ctx)
  + (IF d = In THEN c.work ELSE 0)

\* delivery.c: the reference count of a delivery is exactly the number of its
\* holders at every step of every thread, a deleted delivery has none, and a
\* count that reached zero has the delivery deleted once: no use after free, no
\* double free, no lost reference.
RefsExact ==
  \A d \in D : c.dlv[d].made =>
    /\ c.dlv[d].ref = Holders(d)
    /\ Queued({"delete"}, d) = Bit(c.dlv[d].ref = 0 /\ ~c.dlv[d].freed)
    /\ c.dlv[d].freed => c.dlv[d].ref = 0

\* connections.c: a link is not freed while its I/O thread is processing it.
LinkNotFreedInUse == \A d \in D : c.lnk[d] = "freed" => io[d].pc = "idle"

\* delivery.c: between two handlers of the core no settled delivery is on an
\* unsettled list, so the assertion of qdr_delivery_continue_CT holds: a settled
\* delivery whose last frames arrive is on the settled list or on none.
SettledListed ==
  \A d \in D : (ct.pc = "idle" /\ c.dlv[d].where = "unsettled") => ~c.dlv[d].settled

\* transfer.c: one credit (issued or pending) replaces the delivery on a live inbound link, however
\* the delivery ends: never two, and one by the time the delivery is freed.
CreditOnce ==
  /\ c.credit <= 1
  /\ (c.dlv[In].freed /\ c.lnk[In] = "up") => c.credit = 1

Forwarded == {p \in Out : c.dlv[p].made}
ClosedByRouter == pn[In].lset /\ ~pn[In].rset

\* The sender of an anycast message that the router settled has been told what
\* the receiver said before settling; a receiver whose link went away may make
\* that "released" or "modified".
AnycastOutcome ==
  (ClosedByRouter /\ ~Multicast) => \A p \in Forwarded :
    \/ pn[p].rset /\ pn[In].local = pn[p].rdisp
    \/ p \in SndSettled /\ pn[p].lset /\ pn[In].local = "accepted"
    \/ c.lnk[p] # "up" /\ pn[In].local \in {pn[p].rdisp, "released", "modified"}

\* The sender of a multicast message that the router settled has been told the
\* outcome with the highest priority among the receivers' (delivery.c, the
\* priority table); a receiver whose link went away counts as "released" or "modified".
McastOutcome ==
  (ClosedByRouter /\ Multicast /\ Forwarded # {}) =>
    LET said == {pn[p].rdisp : p \in Forwarded} \cap Terminal
    IN  /\ \A o \in said : pn[In].local # "none" /\ priority[pn[In].local] >= priority[o]
        /\ \/ pn[In].local \in said \cup {"none"}
           \/ \E p \in Forwarded : c.lnk[p] # "up" /\ pn[In].local \in {"released", "modified"}

\* transfer.c, DISPATCH-1302: the settlement of the sender reaches every receiver
\* whose link stays up, although the core does not push to a delivery that is
\* still being sent.
SettlementReachesReceivers ==
  \A p \in Out : (pn[In].rset /\ c.rcv = "all" /\ c.dlv[p].made) ~> (pn[p].lset \/ c.lnk[p] # "up")

\* delivery.c, anycast and multicast updates: when every receiver of a completely
\* received message has settled, the sender's delivery is settled.
SettlementReachesSender ==
  (Forwarded # {} /\ c.rcv = "all" /\ \A p \in Forwarded : pn[p].rset) ~> (pn[In].lset \/ c.lnk[In] # "up")

\* A delivery that is settled at both ends, or whose link is gone, is freed.
EventuallyFreed ==
  \A d \in D : (c.dlv[d].made /\ (pn[d].lset \/ c.lnk[d] = "freed")) ~> c.dlv[d].freed

\* No delivery and no link is freed while something refers to it, and none is forgotten.
NoUseAfterFree == RefsExact /\ LinkNotFreedInUse /\ SettledListed

\* The sender of a message that the router has settled has been told how it ended.
OutcomeReported == AnycastOutcome /\ McastOutcome

\* A settlement at one end of the router reaches the other.
SettlementSpreads == SettlementReachesReceivers /\ SettlementReachesSender

\* Both: deliveries and the credit they took come back exactly once.
DeliverySound == NoUseAfterFree /\ CreditOnce
=============================================================================
