----------------------------- MODULE MobileSync -----------------------------
(***************************************************************************)
(* How one router tells another of its mobile addresses: the mobile_sync   *)
(* module of the core (src/router_core/modules/mobile_sync/mobile.c) at    *)
(* the advertising and at the receiving router, and the receiver's Python  *)
(* side (router/node.py, router/link.py), which compares the advertised    *)
(* sequence number with its own and asks for updates, behind the core by   *)
(* two FIFO queues.                                                        *)
(*                                                                         *)
(* The advertiser keeps a sequence number and lists of the addresses added *)
(* and deleted since the last update.  Its timer sends a differential      *)
(* update (MAU) of the lists; a request (MAR) from a router that is behind *)
(* is answered by an absolute one.  The number also goes out in the router *)
(* advertisements (RA).  Between the routers messages may be lost,         *)
(* overtaken and, where the configuration says so, duplicated.             *)
(***************************************************************************)
EXTENDS Integers, Sequences, FiniteSets

CONSTANTS
    Addr,       \* mobile addresses
    Configs     \* the situations considered

\* What may happen in a situation and, named, its bounds.
Config == [
    addrs     : SUBSET Addr, \* the addresses that get consumers
    links     : Nat,        \* bound on the consumers of an address
    changes   : Nat,        \* bound on the changes of local destinations
    restarts  : Nat,        \* bound on the restarts of the advertiser
    expires   : BOOLEAN,    \* the receiver may forget a silent advertiser
    keeps     : BOOLEAN,    \* messages stay in the network: any of them may arrive at
                            \* any time, any number of times or never
    work      : Nat]        \* bound on each queue at the receiver

ASSUME ConfigsAssumption == Configs \subseteq Config

VARIABLES
    cf,         \* the situation
    p,          \* the advertising router
    hist,       \* for each of its incarnations, the sets of addresses it announced
    net,        \* messages on their way
    node,       \* the receiver's core: its node for the advertiser
    py,         \* the receiver's Python side: its node for the advertiser
    q,          \* the receiver's core actions
    g           \* the receiver's general work

vars == <<cf, p, hist, net, node, py, q, g>>
pvars == <<p, hist>>
rvars == <<node, py, q, g>>

-----------------------------------------------------------------------------
(* The advertiser. *)

Fresh(inst, changes) ==
    [inst |-> inst, seq |-> 0, adv |-> 0, changes |-> changes,
     links |-> [a \in Addr |-> 0],
     add |-> {}, del |-> {}, refs |-> [a \in Addr |-> 0]]

\* The local destinations: the addresses with consumers.
Consumed(s) == {a \in Addr : s.links[a] > 0}

\* qcm_mobile_sync_start_tracking and _stop_tracking: a reference on the address.
StartTracking(s, a) == [s EXCEPT !.refs[a] = @ + 1]
StopTracking(s, as) == [s EXCEPT !.refs = [a \in Addr |-> IF a \in as THEN @[a] - 1 ELSE @[a]]]

\* (mutant: an address that came back is announced as new)
became_local_dest_Readds(s, a) ==
    IF a \in s.add THEN s
    ELSE StartTracking([s EXCEPT !.add = @ \cup {a}, !.del = @ \ {a}], a)

qcm_mobile_sync_on_became_local_dest_CT(s, a) ==
    IF a \in s.add THEN s
    ELSE IF a \in s.del THEN [s EXCEPT !.del = @ \ {a}]
    ELSE StartTracking([s EXCEPT !.add = @ \cup {a}], a)

qcm_mobile_sync_on_no_longer_local_dest_CT(s, a) ==
    IF a \in s.del THEN s
    ELSE IF a \in s.add THEN StopTracking([s EXCEPT !.add = @ \ {a}], {a})
    ELSE [s EXCEPT !.del = @ \cup {a}]

\* qdr_core_bind_address_link_CT and its inverse, for a consumer's link; an address
\* of a link route is bound to connections in the same way.
BindLink(s, a) ==
    LET bound == [s EXCEPT !.links[a] = @ + 1]
    IN  IF s.links[a] = 0 THEN qcm_mobile_sync_on_became_local_dest_CT(bound, a) ELSE bound

UnbindLink(s, a) ==
    LET unbound == [s EXCEPT !.links[a] = @ - 1]
    IN  IF s.links[a] = 1 THEN qcm_mobile_sync_on_no_longer_local_dest_CT(unbound, a)
        ELSE unbound

\* (mutant: pending deletions are left out)
AbsoluteList_Current(s) == Consumed(s) \ s.add

\* The addresses of an absolute update: what the peers have heard of at this
\* sequence number, the pending additions and deletions aside.
AbsoluteList(s) == (Consumed(s) \cup s.del) \ s.add

-----------------------------------------------------------------------------
(* Messages.  An update does not carry the incarnation: "inst" is there for the
   properties only. *)

Diff(inst, seq, add, del) == [type |-> "diff", inst |-> inst, seq |-> seq, add |-> add, del |-> del]
Absolute(inst, seq, exist) == [type |-> "absolute", inst |-> inst, seq |-> seq, exist |-> exist]
MAR(have) == [type |-> "MAR", have |-> have]
RA(inst, seq) == [type |-> "RA", inst |-> inst, seq |-> seq]

-----------------------------------------------------------------------------
NoNode == [exists |-> FALSE, seq |-> 0, requested |-> FALSE, map |-> {}]
NewNode == [NoNode EXCEPT !.exists = TRUE]

NewPyNode(inst) == [known |-> TRUE, inst |-> inst, seq |-> 0, need |-> FALSE]

\* The receiver has heard the advertiser's first RA.
Init ==
    /\ cf \in Configs
    /\ p = Fresh(1, cf.changes)
    /\ hist = <<<<{}>>>>
    /\ net = {}
    /\ node = NewNode
    /\ py = NewPyNode(1)
    /\ q = <<>>
    /\ g = <<>>

\* A consumer comes or goes.
LocalChange(a) ==
    /\ a \in cf.addrs /\ p.changes > 0
    /\ \/ p.links[a] < cf.links /\ p' = [BindLink(p, a) EXCEPT !.changes = @ - 1]
       \/ p.links[a] > 0 /\ p' = [UnbindLink(p, a) EXCEPT !.changes = @ - 1]
    /\ UNCHANGED <<cf, hist, net, rvars>>

Last(inst) == hist[inst][Len(hist[inst])]

\* The differential update, composed for the number just reached; it empties the lists.
qcm_mobile_sync_on_timer_CT ==
    /\ p.add \cup p.del # {}
    /\ p' = StopTracking([p EXCEPT !.seq = @ + 1, !.add = {}, !.del = {}], p.del)
    /\ hist' = [hist EXCEPT ![p.inst] = Append(@, (Last(p.inst) \cup p.add) \ p.del)]
    /\ net' = net \cup {Diff(p.inst, p.seq + 1, p.add, p.del)}
    /\ UNCHANGED <<cf, rvars>>

\* set_my_mobile_seq: the advertiser's Python side learns of the next number.
SetMyMobileSeq ==
    /\ p.adv < p.seq
    /\ p' = [p EXCEPT !.adv = @ + 1]
    /\ UNCHANGED <<cf, hist, net, rvars>>

send_ra ==
    /\ RA(p.inst, p.adv) \notin net
    /\ net' = net \cup {RA(p.inst, p.adv)}
    /\ UNCHANGED <<cf, pvars, rvars>>

\* The advertiser stops and starts anew, and with it the connections its messages
\* were travelling on.
Restart ==
    /\ p.inst <= cf.restarts
    /\ p' = Fresh(p.inst + 1, p.changes)
    /\ hist' = Append(hist, <<{}>>)
    /\ net' = {}
    /\ UNCHANGED <<cf, rvars>>

-----------------------------------------------------------------------------
(* Delivery.  Every handler below takes its message m from the network. *)

Remaining(m) == IF cf.keeps THEN net ELSE net \ {m}

\* (mutant: a requester one update behind is not answered)
IsBehind_ByTwo(have) == have + 1 < p.seq

IsBehind(have) == have < p.seq

qcm_mobile_sync_on_mar_CT(m) ==
    /\ net' = IF IsBehind(m.have)
              THEN Remaining(m) \cup {Absolute(p.inst, p.seq, AbsoluteList(p))}
              ELSE Remaining(m)
    /\ UNCHANGED <<cf, pvars, rvars>>

\* A message for Python's routing engine waits for its turn in the general work.
OnRA(m) ==
    /\ Len(g) < cf.work
    /\ net' = Remaining(m)
    /\ g' = Append(g, [kind |-> "RA", inst |-> m.inst, seq |-> m.seq])
    /\ UNCHANGED <<cf, pvars, node, py, q>>

\* (mutant: any later differential update is applied)
IsNext_Later(seq) == node.seq < seq

IsNext(seq) == node.seq = seq - 1

MapAfter(m) == IF m.type = "absolute" THEN m.exist ELSE (node.map \cup m.add) \ m.del

\* An update from a router not known is ignored; a differential one that is not the
\* next leads to a request, unless one is outstanding; any other is applied.
qcm_mobile_sync_on_mau_CT(m) ==
    /\ Len(g) < cf.work
    /\ IF ~node.exists THEN net' = Remaining(m) /\ UNCHANGED <<node, g>>
       ELSE IF m.type = "diff" /\ ~IsNext(m.seq)
       THEN /\ net' = IF node.requested THEN Remaining(m)
                      ELSE Remaining(m) \cup {MAR(node.seq)}
            /\ node' = [node EXCEPT !.requested = TRUE]
            /\ UNCHANGED g
       ELSE /\ net' = Remaining(m)
            /\ node' = [node EXCEPT !.requested = FALSE, !.seq = m.seq, !.map = MapAfter(m)]
            /\ g' = Append(g, [kind |-> "set_mobile_seq", seq |-> m.seq])
    /\ UNCHANGED <<cf, pvars, py, q>>

Receive(m) ==
    \/ m.type = "MAR" /\ qcm_mobile_sync_on_mar_CT(m)
    \/ m.type = "RA" /\ OnRA(m)
    \/ m.type \in {"diff", "absolute"} /\ qcm_mobile_sync_on_mau_CT(m)

\* The bound on the general work delays a message; it does not help to lose it.
Lose(m) ==
    /\ ~cf.keeps /\ Len(g) < cf.work
    /\ net' = net \ {m}
    /\ UNCHANGED <<cf, pvars, rvars>>

-----------------------------------------------------------------------------
(* The receiver's Python side and its core. *)

\* The node after update_instance: the number forgotten when the instance is new.
update_instance(inst) ==
    IF ~py.known THEN NewPyNode(inst)
    ELSE IF py.inst # inst THEN [py EXCEPT !.inst = inst, !.seq = 0] ELSE py

ra_received(w) ==
    LET n == update_instance(w.inst)
    IN  /\ py' = [n EXCEPT !.need = @ \/ n.seq < w.seq]
        /\ q' = IF ~py.known THEN Append(q, "add_router")
                ELSE IF py.inst # w.inst THEN Append(q, "flush") ELSE q

GeneralWork ==
    /\ g # <<>> /\ Len(q) < cf.work
    /\ g' = Tail(g)
    /\ LET w == Head(g)
       IN  IF w.kind = "RA" THEN ra_received(w)
           ELSE py' = (IF py.known THEN [py EXCEPT !.seq = w.seq] ELSE py) /\ UNCHANGED q
    /\ UNCHANGED <<cf, pvars, net, node>>

\* The tick: a router for which a request is pending and that is reachable.
RequestMobile ==
    /\ py.known /\ py.need /\ Len(q) < cf.work
    /\ py' = [py EXCEPT !.need = FALSE]
    /\ q' = Append(q, "mobile_seq_advanced")
    /\ UNCHANGED <<cf, pvars, net, node, g>>

\* The advertiser has not been heard of for too long and is deleted.
Expire ==
    /\ cf.expires /\ py.known /\ Len(q) < cf.work
    /\ py' = [py EXCEPT !.known = FALSE]
    /\ q' = q \o <<"flush", "del_router">>
    /\ UNCHANGED <<cf, pvars, net, node, g>>

CoreAction ==
    /\ q # <<>>
    /\ q' = Tail(q)
    /\ node' = CASE Head(q) = "flush" -> [node EXCEPT !.seq = 0, !.map = {}]
                 [] Head(q) = "add_router" -> NewNode
                 [] Head(q) = "del_router" -> NoNode
                 [] OTHER -> node
    /\ net' = IF Head(q) = "mobile_seq_advanced" /\ node.exists
              THEN net \cup {MAR(node.seq)} ELSE net
    /\ UNCHANGED <<cf, pvars, py, g>>

Next ==
    \/ \E a \in Addr : LocalChange(a)
    \/ qcm_mobile_sync_on_timer_CT
    \/ SetMyMobileSeq
    \/ send_ra
    \/ Restart
    \/ \E m \in net : Receive(m)
    \/ \E m \in net : Lose(m)
    \/ GeneralWork
    \/ RequestMobile
    \/ Expire
    \/ CoreAction

\* Timers fire, queues are served and, unless one is lost, messages arrive; what is
\* sent again and again is not lost for ever.
Fairness ==
    /\ WF_vars(qcm_mobile_sync_on_timer_CT) /\ WF_vars(SetMyMobileSeq) /\ WF_vars(send_ra)
    /\ WF_vars(GeneralWork) /\ WF_vars(RequestMobile) /\ WF_vars(CoreAction)
    /\ \A type \in {"RA", "MAR", "absolute"} :
         SF_vars(\E m \in net : m.type = type /\ Receive(m))

Spec == Init /\ [][Next]_vars
FairSpec == Spec /\ Fairness

-----------------------------------------------------------------------------
(* Properties. *)

Published == Last(p.inst)

Message ==
    [type : {"diff"}, inst : Nat, seq : Nat, add : SUBSET Addr, del : SUBSET Addr]
        \cup [type : {"absolute"}, inst : Nat, seq : Nat, exist : SUBSET Addr]
        \cup [type : {"MAR"}, have : Nat] \cup [type : {"RA"}, inst : Nat, seq : Nat]

Work == [kind : {"RA"}, inst : Nat, seq : Nat] \cup [kind : {"set_mobile_seq"}, seq : Nat]

TypeOK ==
    /\ cf \in Configs
    /\ p \in [inst : Nat \ {0}, seq : Nat, adv : Nat, changes : Nat,
              links : [Addr -> Nat], add : SUBSET Addr,
              del : SUBSET Addr, refs : [Addr -> Int]]
    /\ p.adv <= p.seq
    /\ hist \in Seq(Seq(SUBSET Addr)) /\ Len(hist) = p.inst /\ Len(hist[p.inst]) = p.seq + 1
    /\ net \subseteq Message
    /\ node \in [exists : BOOLEAN, seq : Nat, requested : BOOLEAN, map : SUBSET Addr]
    /\ py \in [known : BOOLEAN, inst : Nat, seq : Nat, need : BOOLEAN]
    /\ q \in Seq({"flush", "add_router", "del_router", "mobile_seq_advanced"})
    /\ g \in Seq(Work)

\* An address is referenced by mobile sync, once, exactly while peers have heard of
\* it or are about to: the lists never hold an address that may have been freed
\* ("Bump the ref_count on the address to ensure it is not deleted out from under
\* our attention", qcm_mobile_sync_start_tracking), and no reference is left behind.
TrackedWhileListed ==
    \A a \in Addr : p.refs[a] = IF a \in Published \cup p.add \cup p.del THEN 1 ELSE 0

\* The absolute update describes what the differential ones up to the same number
\* have announced, whatever has changed since.
AbsoluteIsPublished == AbsoluteList(p) = Published

\* Python has seen the advertiser's present incarnation and the core has flushed
\* what it held of an earlier one.
Current ==
    /\ py.known /\ py.inst = p.inst /\ node.exists
    /\ \A i \in DOMAIN q : q[i] \notin {"flush", "del_router", "add_router"}

\* The addresses mapped to the advertiser are those it had announced when its number
\* was the one the receiver holds: lost, late, reordered and duplicated updates
\* never leave a mixture.
MapMatchesSequence == Current => node.map = hist[p.inst][node.seq + 1]

\* Once local destinations stop changing the receiver comes to have exactly them,
\* however many updates, requests and advertisements were lost or overtaken, when the
\* network does not deliver old ones again for ever (cf.keeps).
Converges == <>[](cf.keeps \/ node.map = Consumed(p))
=============================================================================
