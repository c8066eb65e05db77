------------------------------- MODULE InLink -------------------------------
(***************************************************************************)
(* Credit for a sender: an incoming endpoint link with a target address,   *)
(* whose local consumer and remote destination come and go (transfer.c,    *)
(* qdr_delivery_settled_CT, the link handlers of router_node.c).           *)
(*                                                                         *)
(* The core replenishes the credit of a message when the message is done   *)
(* with, and drains the sender when the address has no path.  The I/O      *)
(* thread passes credit and drain on to proton; the sender's messages and  *)
(* its answers to drains come back as actions.  As in AMQP the credit of   *)
(* the sender is a limit, the number of credits ever given, minus what the *)
(* sender has used or given up.                                            *)
(***************************************************************************)
EXTENDS Integers, Sequences

CONSTANT ILConfigs

ILConfig ==
  [capacity : Nat \ {0},      \* link->capacity
   presettled : BOOLEAN,      \* what the sender sends
   local : Nat, remote : Nat, \* how often a local consumer, a remote destination, appears
   messages : Nat]            \* how many messages the sender sends

ASSUME ILAssumption == ILConfigs \subseteq ILConfig

VARIABLES
  ilcf,     \* the situation of this behaviour
  ilq,      \* the core's action queue: deliveries, and flows with drain set or not
  il,       \* the core's link and address
  ilw,      \* the link's work list and whether the connection is activated
  ilpn,     \* proton's receiver: the limit and the drain flag
  ils       \* the sender, and the frames on their way to and from it

ilvars == <<ilcf, ilq, il, ilw, ilpn, ils>>

NoWork == [flow |-> FALSE, value |-> 0, action |-> "none"]

\* The link has been attached to an address without destinations: all of its
\* credit is pending.
ILInit ==
    /\ ilcf \in ILConfigs
    /\ ilq = <<>>
    /\ il = [credit_pending |-> ilcf.capacity, drain_mode |-> FALSE,
             local |-> FALSE, remote |-> FALSE, locals |-> 0, remotes |-> 0,
             unsettledLocal |-> 0, unsettledRemote |-> 0]
    /\ ilw = NoWork
    /\ ilpn = [limit |-> 0, drain |-> FALSE]
    /\ ils = [limit |-> 0, used |-> 0, drain |-> FALSE, sent |-> 0, down |-> <<>>, up |-> <<>>]

-----------------------------------------------------------------------------
(* The core thread.  An operator takes the link and its work list. *)

State(l, w) == [l |-> l, w |-> w]

\* qdr_addr_path_count_CT
qdr_addr_path_count_CT(l) == (IF l.local THEN 1 ELSE 0) + (IF l.remote THEN 1 ELSE 0)

\* The pending credit is reduced by what is issued.
Pending(l, credit) == IF l.credit_pending > credit THEN l.credit_pending - credit ELSE 0

\* qdr_link_issue_credit_CT.  The work list is what it holds in all: qdr_connection_process
\* takes every item of it before a frame goes out, so only the sum of the credits and
\* the last drain action matter, whether an item is joined to the tail or put behind it.
qdr_link_issue_credit_CT(s, credit, drain) ==
    LET changed == s.l.drain_mode # drain IN
    State([s.l EXCEPT !.drain_mode = drain, !.credit_pending = Pending(s.l, credit)],
          IF ~changed /\ credit = 0 THEN s.w
          ELSE [flow |-> TRUE, value |-> s.w.value + credit,
                action |-> IF ~changed THEN s.w.action ELSE IF drain THEN "set" ELSE "clear"])

\* qdr_addr_start_inlinks_CT: the address has its first path.
qdr_addr_start_inlinks_CT(s) ==
    IF qdr_addr_path_count_CT(s.l) = 1 /\ s.l.credit_pending > 0
    THEN qdr_link_issue_credit_CT(s, s.l.credit_pending, FALSE) ELSE s

Became(s) == il' = s.l /\ ilw' = s.w

\* The address gets a local consumer (qdr_core_bind_address_link_CT) or is mapped to
\* another router (qcm_mobile_sync_on_mau_CT), and may lose it again.
LocalAppears ==
    /\ ~il.local /\ il.locals < ilcf.local
    /\ Became(qdr_addr_start_inlinks_CT(
                State([il EXCEPT !.local = TRUE, !.locals = @ + 1], ilw)))
    /\ UNCHANGED <<ilcf, ilq, ilpn, ils>>

RemoteAppears ==
    /\ ~il.remote /\ il.remotes < ilcf.remote
    /\ Became(qdr_addr_start_inlinks_CT(
                State([il EXCEPT !.remote = TRUE, !.remotes = @ + 1], ilw)))
    /\ UNCHANGED <<ilcf, ilq, ilpn, ils>>

\* The consumer's link is gone, and what it had not settled is settled for it
\* (qdr_link_cleanup_deliveries_CT), each message replenishing its credit, here all at once.
LocalLeaves ==
    /\ il.local
    /\ LET s == State([il EXCEPT !.local = FALSE, !.unsettledLocal = 0], ilw) IN
       Became(IF il.unsettledLocal = 0 THEN s
              ELSE qdr_link_issue_credit_CT(s, il.unsettledLocal, FALSE))
    /\ UNCHANGED <<ilcf, ilq, ilpn, ils>>

\* The other router unmaps the address; what was sent there is still unsettled.
RemoteLeaves ==
    /\ il.remote
    /\ il' = [il EXCEPT !.remote = FALSE]
    /\ UNCHANGED <<ilcf, ilq, ilw, ilpn, ils>>

\* qdr_delivery_settled_CT: a receiver's settlement comes back.
qdr_delivery_settled_CT ==
    /\ \/ il.unsettledLocal > 0
          /\ Became(qdr_link_issue_credit_CT(
                      State([il EXCEPT !.unsettledLocal = @ - 1], ilw), 1, FALSE))
       \/ il.unsettledRemote > 0
          /\ Became(qdr_link_issue_credit_CT(
                      State([il EXCEPT !.unsettledRemote = @ - 1], ilw), 1, FALSE))
    /\ UNCHANGED <<ilcf, ilq, ilpn, ils>>

\* Mutant: the credit of the released message is forgotten.
NoPath_CreditLost(s) == qdr_link_issue_credit_CT(s, 0, TRUE)

\* qdr_link_forward_CT: without a path the message is released and the sender
\* drained; a settled message is replaced at once; any other is held by its destination.
NoPath(s) ==
    LET d == qdr_link_issue_credit_CT(s, 0, TRUE) IN
    State([d.l EXCEPT !.credit_pending = @ + 1], d.w)

qdr_link_forward_CT ==
    /\ ilq # <<>> /\ Head(ilq) = "deliver"
    /\ ilq' = Tail(ilq)
    /\ \/ /\ qdr_addr_path_count_CT(il) = 0
          /\ Became(NoPath(State(il, ilw)))
       \/ /\ qdr_addr_path_count_CT(il) > 0 /\ ilcf.presettled
          /\ Became(qdr_link_issue_credit_CT(State(il, ilw), 1, FALSE))
       \/ /\ il.local /\ ~ilcf.presettled
          /\ il' = [il EXCEPT !.unsettledLocal = @ + 1] /\ UNCHANGED ilw
       \/ /\ il.remote /\ ~ilcf.presettled
          /\ il' = [il EXCEPT !.unsettledRemote = @ + 1] /\ UNCHANGED ilw
    /\ UNCHANGED <<ilcf, ilpn, ils>>

\* qdr_link_flow_CT for an incoming link: the sender has given up its credit.
qdr_link_flow_CT_in ==
    /\ ilq # <<>> /\ Head(ilq) \in {"flow", "drain"}
    /\ ilq' = Tail(ilq)
    /\ LET drain == Head(ilq) = "drain" IN
       il' = [il EXCEPT !.drain_mode = drain,
                        !.credit_pending = IF drain THEN ilcf.capacity ELSE @]
    /\ UNCHANGED <<ilcf, ilw, ilpn, ils>>

-----------------------------------------------------------------------------
(* The I/O thread: the flow items of qdr_connection_process, and proton's events *)

\* CORE_link_flow and CORE_link_drain; proton sends what they set to the sender.
FlowWork ==
    /\ ilw.flow
    /\ LET p == [limit |-> ilpn.limit + ilw.value,
                 drain |-> IF ilw.action = "none" THEN ilpn.drain ELSE ilw.action = "set"]
       IN ilpn' = p /\ ils' = [ils EXCEPT !.down = Append(@, p)]
    /\ ilw' = NoWork
    /\ UNCHANGED <<ilcf, ilq, il>>

\* A message arrives, or the sender's answer to a drain (AMQP_link_flow_handler).
Arrives ==
    /\ ils.up # <<>>
    /\ ilq' = Append(ilq, IF Head(ils.up) = "message" THEN "deliver"
                          ELSE IF ilpn.drain THEN "drain" ELSE "flow")
    /\ ils' = [ils EXCEPT !.up = Tail(@)]
    /\ UNCHANGED <<ilcf, il, ilw, ilpn>>

-----------------------------------------------------------------------------
(* The sender *)

SenderCredit == ils.limit - ils.used

SenderFlow ==
    /\ ils.down # <<>>
    /\ ils' = [ils EXCEPT !.limit = Head(ils.down).limit, !.drain = Head(ils.down).drain,
                          !.down = Tail(@)]
    /\ UNCHANGED <<ilcf, ilq, il, ilw, ilpn>>

SenderSends ==
    /\ SenderCredit > 0 /\ ils.sent < ilcf.messages
    /\ ils' = [ils EXCEPT !.used = @ + 1, !.sent = @ + 1, !.up = Append(@, "message")]
    /\ UNCHANGED <<ilcf, ilq, il, ilw, ilpn>>

SenderDrained ==
    /\ ils.drain /\ SenderCredit > 0
    /\ ils' = [ils EXCEPT !.used = ils.limit, !.up = Append(@, "drained")]
    /\ UNCHANGED <<ilcf, ilq, il, ilw, ilpn>>

-----------------------------------------------------------------------------

ILNext ==
    \/ LocalAppears \/ RemoteAppears \/ LocalLeaves \/ RemoteLeaves
    \/ qdr_delivery_settled_CT \/ qdr_link_forward_CT \/ qdr_link_flow_CT_in
    \/ FlowWork \/ Arrives
    \/ SenderFlow \/ SenderSends \/ SenderDrained

ILSpec == ILInit /\ [][ILNext]_ilvars

-----------------------------------------------------------------------------
(* Properties *)

\* Nothing is under way between the sender and its destinations.
Quiet == ilq = <<>> /\ ilw = NoWork /\ ils.up = <<>> /\ ils.down = <<>>
         /\ il.unsettledLocal = 0 /\ il.unsettledRemote = 0

\* Credit is not lost, whatever drains, answers to drains and changes of the address's paths
\* cross: once nothing is under way, the sender has credit or the core has credit pending
\* for it (qdr_link_flow_CT, qdr_addr_start_inlinks_CT); and while the address has a
\* destination the sender has credit, unless the core takes the link to be draining.
CreditKept ==
    Quiet => /\ SenderCredit > 0 \/ il.credit_pending > 0
             /\ qdr_addr_path_count_CT(il) > 0 /\ ~il.drain_mode => SenderCredit > 0
=============================================================================
