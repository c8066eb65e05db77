---------------------------- MODULE MessageStream ----------------------------
(***************************************************************************)
(* The content of one message while it streams through the router          *)
(* (message.c, AMQP_rx_handler): the thread of the sender's connection     *)
(* appends buffers to a list that the threads of the receivers'            *)
(* connections send from and release by reference counts; Q2 stops the     *)
(* reading while too many buffers are waiting, and Q3 the sending.         *)
(*                                                                         *)
(* A message is a number of units; a buffer holds at most cap of them.     *)
(* Its leading units are the sections the router parses before it forwards *)
(* the message; their buffers are protected until the content goes.        *)
(***************************************************************************)
EXTENDS Integers, Sequences, FiniteSets, SequencesExt

CONSTANTS
  MSConfigs,      \* the situations considered, see MSConfig
  Upper, Lower,   \* QD_QLIMIT_Q2_UPPER and _LOWER
  Window          \* units that proton holds for the session

MSConfig ==
  [units : Nat \ {0}, header : Nat,    \* the message, and what is parsed of it
   cap : Nat \ {0},                    \* units in a buffer
   out : SUBSET Nat,                   \* the receivers' links it is forwarded to
   subscriber : BOOLEAN,               \* it is for an in-process subscriber
   anonymous : BOOLEAN,                \* it came on an anonymous link
   presettled : BOOLEAN,
   streaming : BOOLEAN,                \* a router upstream has marked it so
   reject : BOOLEAN,                   \* AMQP_rx_handler refuses it
   max : Nat,                          \* maxMessageSize, 0 for none
   abort : BOOLEAN, detach : BOOLEAN,  \* the sender may abort it, or detach
   lost : SUBSET Nat,                  \* receivers whose links may go
   fails : SUBSET Nat,                 \* receivers for which pn_link_send may fail
   q3 : BOOLEAN]                       \* the transport may push back, once per receiver

ASSUME MSAssumption ==
    /\ MSConfigs \subseteq MSConfig
    /\ Window \in Nat \ {0}
    /\ Lower \in Nat \ {0} /\ Upper \in Nat /\ Lower < Upper

VARIABLES
  mscf,     \* the situation of this behaviour
  ms,       \* the content, qd_message_content_t
  rx,       \* the sender's delivery in proton and the thread that reads it
  msq,      \* the core's action queue
  mo        \* the receivers' messages and the threads that send them

msvars == <<mscf, ms, rx, msq, mo>>

Outs == mscf.out

MSInit ==
    /\ mscf \in MSConfigs
    /\ ms = [buffers |-> <<>>, pending |-> 0, units |-> 0, parsed |-> FALSE, protected |-> 0,
             fanout |-> 0, held |-> 0, holdoff |-> FALSE, disabled |-> FALSE,
             unblocker |-> TRUE, complete |-> FALSE, aborted |-> FALSE, discard |-> FALSE,
             oversize |-> FALSE]
    /\ rx = [pc |-> "idle", arrived |-> 0, read |-> 0, abort |-> FALSE, event |-> FALSE,
             deferred |-> FALSE, unbounded |-> FALSE, delivery |-> FALSE, update |-> FALSE,
             state |-> "open"]
    /\ msq = <<>>
    /\ mo = [o \in Outs |-> [state |-> "none", pc |-> "idle", started |-> FALSE, cursor |-> 0,
                             pos |-> 0, done |-> FALSE, wake |-> FALSE, unblock |-> FALSE,
                             stalled |-> FALSE, stalls |-> 0]]

-----------------------------------------------------------------------------
(* The content.  A buffer is named by its first unit. *)

_Q2_holdoff_should_block_LH(m) == ~m.disabled /\ Len(m.buffers) - m.protected >= Upper
_Q2_holdoff_should_unblock_LH(m) == m.disabled \/ Len(m.buffers) - m.protected < Lower

\* The pending buffer joins the list, referenced by every outgoing message.
Appended(m) ==
    IF m.pending = 0 THEN m
    ELSE [m EXCEPT !.buffers = Append(@, [lo |-> m.units - m.pending + 1, hi |-> m.units,
                                          fan |-> m.fanout]),
                   !.pending = 0]

\* One reference less on the buffers from first to last; those that lose their last are freed.
Dropped(buffers, first, last) ==
    LET chosen(b) == b.lo \in first..last
        kept == SelectSeq(buffers, LAMBDA b : ~(chosen(b) /\ b.fan = 1))
    IN  [i \in DOMAIN kept |-> IF chosen(kept[i]) THEN [kept[i] EXCEPT !.fan = @ - 1] ELSE kept[i]]

\* Leaving Q2: the holdoff is cleared and the handler, if it is still set, is to be called.
Unblocked(m) == [m EXCEPT !.holdoff = FALSE]

qd_message_Q2_holdoff_disable(m) == [m EXCEPT !.disabled = TRUE, !.holdoff = FALSE]

\* qd_message_add_fanout
qd_message_add_fanout(m) ==
    LET a == IF m.buffers = <<>> THEN Appended(m) ELSE m IN
    [a EXCEPT !.fanout = @ + 1,
              !.buffers = [i \in DOMAIN @ |-> [@[i] EXCEPT !.fan = @ + 1]]]

\* qd_message_free of an outgoing message
qd_message_free(m, cursor) ==
    LET d == [m EXCEPT !.fanout = @ - 1,
                       !.buffers = IF cursor = 0 THEN @
                                   ELSE Dropped(@, cursor, mscf.units)]
    IN  IF m.holdoff /\ ~_Q2_holdoff_should_unblock_LH(m) /\ _Q2_holdoff_should_unblock_LH(d)
        THEN Unblocked(d) ELSE d

\* The handler runs when holdoff was cleared and is still set: qd_link_q2_restart_receive
\* defers a call of AMQP_rx_handler to the sender's connection.
Restarted(r, m, n) ==
    [r EXCEPT !.deferred = @ \/ (m.holdoff /\ ~n.holdoff /\ m.unblocker)]

\* qd_message_set_receive_complete
qd_message_set_receive_complete(m) ==
    [m EXCEPT !.complete = TRUE, !.holdoff = FALSE, !.unblocker = FALSE]

\* qd_message_check_depth: the sections needed are in the buffers, which get protected.
Parsed(m) ==
    LET last == CHOOSE i \in DOMAIN m.buffers : m.buffers[i].lo <= mscf.header
                                                /\ mscf.header <= m.buffers[i].hi
        n == IF mscf.header = 0 THEN 0 ELSE last
    IN  [m EXCEPT !.parsed = TRUE, !.protected = n,
                  !.buffers = [i \in DOMAIN @ |-> IF i <= n THEN [@[i] EXCEPT !.fan = @ + 1]
                                                  ELSE @[i]]]

Depth(m) ==
    CASE m.parsed \/ (m.buffers # <<>> /\ Last(m.buffers).hi >= mscf.header) -> "ok"
      [] ~m.parsed /\ (m.buffers = <<>> \/ Last(m.buffers).hi < mscf.header) ->
            IF m.complete THEN "invalid" ELSE "incomplete"

-----------------------------------------------------------------------------
(* The sender's side: proton and AMQP_rx_handler *)

\* More of the message arrives, as long as the session's window is open.
Frame ==
    /\ rx.state = "open" /\ ~rx.abort
    /\ rx.arrived < mscf.units /\ rx.arrived - rx.read < Window
    /\ rx' = [rx EXCEPT !.arrived = @ + 1, !.event = TRUE]
    /\ UNCHANGED <<mscf, ms, msq, mo>>

SenderAborts ==
    /\ mscf.abort /\ rx.state = "open" /\ ~rx.abort /\ rx.arrived < mscf.units
    /\ rx' = [rx EXCEPT !.abort = TRUE, !.event = TRUE]
    /\ UNCHANGED <<mscf, ms, msq, mo>>

\* discard_receive: what has arrived is thrown away.
discard_receive(m) ==
    LET end == rx.abort \/ rx.arrived = mscf.units
        d == [m EXCEPT !.aborted = @ \/ (end /\ (rx.abort \/ m.oversize))]
    IN  IF end THEN qd_message_set_receive_complete(d) ELSE d

\* qd_message_receive, to its loop: called for an event of proton or by the deferred call.
RxStart ==
    /\ rx.pc = "idle" /\ rx.state = "open" /\ (rx.event \/ rx.deferred)
    /\ LET r == [rx EXCEPT !.event = FALSE, !.deferred = FALSE] IN
       IF ms.discard
       THEN /\ ms' = discard_receive(ms)
            /\ rx' = [r EXCEPT !.read = rx.arrived, !.pc = "tail"]
       ELSE /\ rx' = [r EXCEPT !.pc = IF ~rx.unbounded /\ ~ms.disabled /\ ms.holdoff
                                      THEN "tail" ELSE "loop"]
            /\ UNCHANGED ms
    /\ UNCHANGED <<mscf, msq, mo>>

\* One round of the loop: the pending buffer is filled with what has arrived, and put
\* on the list when it is full, when nothing more has arrived or at the end.
Ended(m) == [Appended(m) EXCEPT !.complete = TRUE, !.unblocker = FALSE,
                                !.aborted = @ \/ rx.abort]

RxLoop ==
    /\ rx.pc = "loop"
    /\ LET room == mscf.cap - ms.pending
           avail == IF rx.abort THEN 0 ELSE rx.arrived - rx.read
           take == IF avail < room THEN avail ELSE room
           m == [ms EXCEPT !.pending = @ + take, !.units = @ + take]
           r == [rx EXCEPT !.read = @ + take]
       IN \/ /\ mscf.max > 0 /\ m.units > mscf.max
             /\ ms' = discard_receive([m EXCEPT !.discard = TRUE, !.oversize = TRUE])
             /\ rx' = [r EXCEPT !.read = rx.arrived, !.pc = "tail"]
          \/ /\ mscf.max = 0 \/ m.units <= mscf.max
             /\ \/ /\ rx.abort \/ r.read = mscf.units
                   /\ ms' = Ended(m)
                   /\ rx' = [r EXCEPT !.pc = "tail"]
                \/ /\ ~rx.abort /\ r.read < mscf.units /\ m.pending = mscf.cap
                   /\ LET a == Appended(m)
                          block == _Q2_holdoff_should_block_LH(a) /\ ~rx.unbounded
                      IN /\ ms' = [a EXCEPT !.holdoff = @ \/ block]
                         /\ rx' = [r EXCEPT !.pc = IF block THEN "tail" ELSE "loop"]
                \/ /\ ~rx.abort /\ r.read < mscf.units /\ m.pending < mscf.cap
                   /\ ms' = Appended(m)
                   /\ rx' = [r EXCEPT !.pc = "tail"]
    /\ UNCHANGED <<mscf, msq, mo>>

\* The rest of AMQP_rx_handler.  A delivery settled in proton is closed for good.
Done(r) == [r EXCEPT !.pc = "idle", !.state = IF ms.complete THEN "closed" ELSE @]

RxDiscard ==
    /\ rx.pc = "tail" /\ ms.discard /\ ~ms.oversize
    /\ rx' = Done(rx)
    /\ UNCHANGED <<mscf, ms, msq, mo>>

\* The connection of an oversize message is closed, and its links with it.
RxOversize ==
    /\ rx.pc = "tail" /\ ms.oversize
    /\ rx' = Done(rx)
    /\ msq' = IF ms.complete THEN Append(msq, "detach") ELSE msq
    /\ UNCHANGED <<mscf, ms, mo>>

RxContinue ==
    /\ rx.pc = "tail" /\ ~ms.discard /\ rx.delivery
    /\ msq' = Append(msq, "continue")
    /\ rx' = Done(rx)
    /\ UNCHANGED <<mscf, ms, mo>>

\* A new delivery: its sections are parsed, it may be refused, and a message that is still
\* arriving is forwarded only when it is known to be a stream.
RxNew ==
    /\ rx.pc = "tail" /\ ~ms.discard /\ ~rx.delivery
    /\ \/ /\ Depth(ms) = "invalid"
          /\ ms' = [ms EXCEPT !.discard = TRUE]
          /\ rx' = [rx EXCEPT !.pc = "idle", !.state = "closed"]
          /\ UNCHANGED msq
       \/ /\ Depth(ms) = "incomplete"
          /\ rx' = [rx EXCEPT !.pc = "idle"]
          /\ UNCHANGED <<ms, msq>>
       \/ /\ Depth(ms) = "ok"
          /\ LET m == IF ms.parsed THEN ms ELSE Parsed(ms)
                 known == ms.complete \/ mscf.streaming \/ ms.holdoff
             IN \/ /\ known /\ mscf.reject
                   /\ ms' = [m EXCEPT !.discard = TRUE]
                   /\ rx' = Done(rx)
                   /\ UNCHANGED msq
                \/ /\ known /\ ~mscf.reject
                   /\ ms' = m
                   /\ rx' = [Done(rx) EXCEPT !.delivery = TRUE]
                   /\ msq' = Append(msq, "deliver")
                \/ /\ ~known
                   /\ ms' = m
                   /\ rx' = [rx EXCEPT !.pc = "idle"]
                   /\ UNCHANGED msq
    /\ UNCHANGED <<mscf, mo>>

\* CORE_delivery_update: the core has settled the sender's delivery.  While the message
\* is arriving it is to be discarded, and the reading goes on without Q2.
CORE_delivery_update ==
    /\ rx.update /\ rx.pc = "idle"
    /\ LET n == IF rx.state # "open" \/ ms.complete THEN ms
                ELSE qd_message_Q2_holdoff_disable([ms EXCEPT !.discard = TRUE])
       IN /\ ms' = n
          /\ rx' = Restarted([rx EXCEPT !.update = FALSE], ms, n)
    /\ UNCHANGED <<mscf, msq, mo>>

\* AMQP_link_detach_handler: what proton holds is read without limits, then the core is
\* told; a message that no delivery holds goes with its link.
SenderDetaches ==
    /\ mscf.detach /\ rx.pc = "idle" /\ rx.state = "open" /\ ~rx.unbounded
    /\ ms' = qd_message_Q2_holdoff_disable([ms EXCEPT !.unblocker = FALSE])
    /\ rx' = [rx EXCEPT !.unbounded = TRUE, !.event = TRUE, !.deferred = FALSE]
    /\ UNCHANGED <<mscf, msq, mo>>

SenderDetached ==
    /\ rx.unbounded /\ rx.pc = "idle" /\ ~rx.event /\ rx.state # "detached"
    /\ rx' = [rx EXCEPT !.state = "detached"]
    /\ msq' = Append(msq, "detach")
    /\ UNCHANGED <<mscf, ms, mo>>

-----------------------------------------------------------------------------
(* The core thread *)

Woken(out) == [o \in Outs |-> [out[o] EXCEPT !.wake = @ \/ (out[o].state = "queued")]]

\* qdr_link_deliver_CT and qdr_link_forward_CT: the outgoing messages are all made before
\* any is queued on its link (qdr_forward_multicast_CT).  Without a destination
\* the delivery is released, unless it is a settled one from an anonymous link.
Forwarded(m) ==
    LET add(a, o) == qd_message_add_fanout(a)
        f == FoldLeft(add, m, SetToSeq(Outs))
        s == [qd_message_add_fanout(f) EXCEPT !.held = Head(f.buffers).lo]
    IN  CASE ~mscf.subscriber -> f
          [] mscf.subscriber /\ m.complete -> s
          [] mscf.subscriber /\ ~m.complete -> qd_message_Q2_holdoff_disable(s)

qdr_link_deliver_CT ==
    /\ msq # <<>> /\ Head(msq) = "deliver"
    /\ msq' = Tail(msq)
    /\ IF Outs = {} /\ ~mscf.subscriber
       THEN /\ rx' = [rx EXCEPT !.update = ~mscf.presettled \/ ~mscf.anonymous]
            /\ UNCHANGED <<ms, mo>>
       ELSE /\ ms' = Forwarded(ms)
            /\ rx' = Restarted(rx, ms, Forwarded(ms))
            /\ mo' = [o \in Outs |-> [mo[o] EXCEPT !.state = "queued", !.wake = TRUE,
                                        !.cursor = Head(Forwarded(ms).buffers).lo]]
    /\ UNCHANGED mscf

\* Mutant: the receivers' links are not put to work for what has arrived since.
qdr_delivery_continue_CT_NoWake ==
    /\ msq # <<>> /\ Head(msq) = "continue"
    /\ msq' = Tail(msq)
    /\ UNCHANGED <<mscf, ms, rx, mo>>

\* qdr_delivery_continue_CT wakes the receivers' links.
qdr_delivery_continue_CT ==
    /\ msq # <<>> /\ Head(msq) = "continue"
    /\ msq' = Tail(msq)
    /\ mo' = Woken(mo)
    /\ UNCHANGED <<mscf, ms, rx>>

\* qdr_link_inbound_detach_CT of the sender's link: an incomplete message is aborted
\* (qdr_link_cleanup_deliveries_CT).
qdr_link_inbound_detach_CT_in ==
    /\ msq # <<>> /\ Head(msq) = "detach"
    /\ msq' = Tail(msq)
    /\ ms' = [ms EXCEPT !.aborted = @ \/ ~ms.complete]
    /\ mo' = IF ms.complete THEN mo ELSE Woken(mo)
    /\ UNCHANGED <<mscf, rx>>

\* A receiver's link goes: its message is freed, and with the last one the sender's
\* delivery is released.
FreeOut(o) ==
    /\ ms' = qd_message_free(ms, mo[o].cursor)
    /\ mo' = [mo EXCEPT ![o].state = "freed", ![o].cursor = 0, ![o].wake = FALSE]

ReceiverLost(o) ==
    /\ o \in mscf.lost /\ mo[o].state = "queued" /\ mo[o].pc = "idle" /\ ~mo[o].done
    /\ FreeOut(o)
    /\ rx' = LET r == Restarted(rx, ms, ms') IN
             [r EXCEPT !.update = @ \/ \A p \in Outs \ {o} : mo[p].state = "freed"]
    /\ UNCHANGED <<mscf, msq>>

\* The delivery of a message that has been sent is deleted.
SentFreed(o) ==
    /\ mo[o].state = "queued" /\ mo[o].pc = "idle" /\ mo[o].done
    /\ FreeOut(o)
    /\ rx' = Restarted(rx, ms, ms')
    /\ UNCHANGED <<mscf, msq>>

-----------------------------------------------------------------------------
(* A receiver's side: qd_message_send *)

\* The first call starts at the head of the list and sends the parsed sections.
FirstCursor ==
    LET bs == ms.buffers
        at(i) == bs[i].hi > mscf.header \/ i = Len(bs)
    IN  bs[CHOOSE i \in DOMAIN bs : at(i) /\ \A j \in 1..(i - 1) : ~at(j)].lo

SendStart(o) ==
    /\ mo[o].state = "queued" /\ mo[o].wake /\ ~mo[o].done /\ mo[o].pc = "idle"
    /\ mo' = [mo EXCEPT ![o] =
         IF @.started THEN [@ EXCEPT !.wake = FALSE, !.pc = "loop"]
         ELSE IF ms.aborted THEN [@ EXCEPT !.wake = FALSE, !.done = TRUE]
         ELSE [@ EXCEPT !.wake = FALSE, !.pc = "loop", !.started = TRUE,
                        !.pos = mscf.header, !.cursor = FirstCursor]]
    /\ UNCHANGED <<mscf, ms, rx, msq>>

Buffer(c) == ms.buffers[CHOOSE i \in DOMAIN ms.buffers : ms.buffers[i].lo = c]

\* The buffer after that of the cursor, 0 for none.
NextCursor(c) ==
    LET later == SelectSeq(ms.buffers, LAMBDA b : b.lo > c) IN
    IF later = <<>> THEN 0 ELSE Head(later).lo

\* What is left of a buffer is sent, then the buffer is released under the lock, if there
\* is a next one or the message is complete.
SendBuffer(o) ==
    /\ mo[o].pc = "loop" /\ ~ms.aborted
    /\ LET c == mo[o].cursor
           next == NextCursor(c)
           d == [ms EXCEPT !.buffers = Dropped(@, c, c)]
           freed == Buffer(c).fan = 1
           wakes == freed /\ ms.holdoff /\ _Q2_holdoff_should_unblock_LH(d)
           sent == [mo[o] EXCEPT !.pos = Buffer(c).hi]
       IN IF next = 0 /\ ~ms.complete
          THEN /\ mo' = [mo EXCEPT ![o] = [sent EXCEPT !.pc = "end"]]
               /\ UNCHANGED ms
          ELSE /\ ms' = IF wakes THEN Unblocked(d) ELSE d
               /\ mo' = [mo EXCEPT ![o] = [sent EXCEPT
                           !.cursor = next, !.done = (next = 0),
                           !.unblock = @ \/ (wakes /\ ms.unblocker),
                           !.pc = IF next = 0 THEN "end" ELSE "loop"]]
    /\ UNCHANGED <<mscf, rx, msq>>

\* The transport takes no more, or fails.
SendStalled(o) ==
    /\ mscf.q3 /\ mo[o].pc = "loop" /\ mo[o].stalls = 0
    /\ mo' = [mo EXCEPT ![o].pc = "end", ![o].stalled = TRUE, ![o].stalls = 1]
    /\ UNCHANGED <<mscf, ms, rx, msq>>

SendFails(o) ==
    /\ o \in mscf.fails /\ mo[o].pc = "loop" /\ ~ms.aborted
    /\ ms' = [ms EXCEPT !.aborted = TRUE]
    /\ mo' = [mo EXCEPT ![o].done = TRUE, ![o].pc = "end"]
    /\ UNCHANGED <<mscf, rx, msq>>

SendAborted(o) ==
    /\ mo[o].pc = "loop" /\ ms.aborted
    /\ mo' = [mo EXCEPT ![o].pc = "end"]
    /\ UNCHANGED <<mscf, ms, rx, msq>>

\* After the loop the Q2 handler is called, without the lock.
SendEnd(o) ==
    /\ mo[o].pc = "end"
    /\ rx' = [rx EXCEPT !.deferred = @ \/ mo[o].unblock]
    /\ mo' = [mo EXCEPT ![o].pc = "idle", ![o].unblock = FALSE,
                        ![o].done = @ \/ ms.aborted]
    /\ UNCHANGED <<mscf, ms, msq>>

\* The transport drains: the link is pushed again (AMQP_link_flow_handler).
Drained(o) ==
    /\ mo[o].stalled /\ mo[o].pc = "idle"
    /\ mo' = [mo EXCEPT ![o].stalled = FALSE, ![o].wake = TRUE]
    /\ UNCHANGED <<mscf, ms, rx, msq>>

-----------------------------------------------------------------------------

RxStep == RxStart \/ RxLoop \/ RxDiscard \/ RxOversize \/ RxContinue \/ RxNew
          \/ CORE_delivery_update \/ SenderDetached

MSCore == qdr_link_deliver_CT \/ qdr_delivery_continue_CT \/ qdr_link_inbound_detach_CT_in

SendStep(o) == SendStart(o) \/ SendBuffer(o) \/ SendAborted(o) \/ SendEnd(o)

MSNext ==
    \/ Frame \/ SenderAborts \/ SenderDetaches
    \/ RxStep
    \/ MSCore
    \/ \E o \in Outs : ReceiverLost(o) \/ SentFreed(o) \/ SendStep(o) \/ SendStalled(o)
                       \/ SendFails(o) \/ Drained(o)

\* A sender that has begun goes on while it has room, every thread runs, and the
\* transports drain.
MSFairness ==
    /\ WF_msvars(rx.arrived > 0 /\ Frame) /\ WF_msvars(RxStep) /\ WF_msvars(MSCore)
    /\ \A o \in 1..2 : /\ WF_msvars(o \in Outs /\ SendStep(o))
                       /\ WF_msvars(o \in Outs /\ Drained(o))

MSSpec == MSInit /\ [][MSNext]_msvars /\ MSFairness

-----------------------------------------------------------------------------
(* Properties *)

\* The outgoing messages that are still to pass a buffer.
Holders(b) ==
    {o \in Outs : mo[o].state = "queued" /\ mo[o].cursor # 0 /\ mo[o].cursor <= b.lo}
    \cup (IF ms.held # 0 /\ ms.held <= b.lo THEN {0} ELSE {})

\* The reference count of a buffer is the number of messages that have yet to send it,
\* whatever appends, sends and frees interleave; a parsed section adds one.
FanoutExact ==
    \A i \in DOMAIN ms.buffers :
       LET b == ms.buffers[i]
           n == Cardinality(Holders(b))
       IN IF i <= ms.protected THEN b.fan > n ELSE b.fan = n

\* Every receiver is sent the message without gaps: the buffer at its cursor is
\* still on the list and goes on where it stopped, and a message that was not
\* aborted is sent to its end.
Intact ==
    \A o \in Outs : mo[o].state = "queued" /\ mo[o].started =>
       /\ mo[o].cursor # 0 => \E i \in DOMAIN ms.buffers :
             /\ ms.buffers[i].lo = mo[o].cursor
             /\ ms.buffers[i].lo <= mo[o].pos + 1 /\ mo[o].pos <= ms.buffers[i].hi
       /\ mo[o].done /\ ~ms.aborted => mo[o].pos = mscf.units

\* "Q2 will block forever unless the incoming data is drained" (AMQP_rx_handler): the
\* router goes on reading a message it has begun until it has all of it, or the sender
\* detaches.
Received == rx.arrived > 0 ~> (ms.complete \/ rx.state = "detached")

\* Every receiver the message is queued for gets the end of it, or is told it was aborted.
Delivered == \A o \in 1..2 : (o \in Outs /\ mo[o].state = "queued") ~> (o \in Outs =>
                mo[o].done \/ mo[o].state = "freed")

\* Buffers are kept exactly as long as a receiver needs them, and no receiver misses one.
StreamSound == FanoutExact /\ Intact

\* A message that has begun to stream is read and sent to its end.
StreamGoesOn == Received /\ Delivered

\* Both, for what qd_message_receive, qd_message_send and the links' Q2 and Q3 do to a message.
StreamCorrect == []StreamSound /\ StreamGoesOn
=============================================================================
