--------------------------- MODULE OutLink_proofs ---------------------------
(***************************************************************************)
(* The core and the I/O thread agree on the work of an outgoing link       *)
(* (OutLink), for every number of deliveries, drains and credits, every    *)
(* capacity and every way in which a link ends.                            *)
(***************************************************************************)
EXTENDS OutLink, WorkList_proofs

LinkFields ==
  {"undelivered", "link_work", "work_list", "item", "links_with_work", "processing",
   "ready_to_free", "drain_mode", "stalled_outbound", "credit_to_core", "detach_received",
   "detach_count", "detach_send_done", "bound", "alive", "activate", "forwarded", "whole",
   "wasDrain", "flowing"}
ThreadRecord ==
  [pc : {"idle", "take", "work", "send", "deliver", "sent", "put", "end", "complete", "gone"},
   work : Nat, credit : Nat, dlv : Nat, count : Nat, detach_sent : BOOLEAN]
ProtonFields ==
  {"credit", "queued", "drain", "q3", "given", "drains", "context", "attached", "closed",
   "stalls"}

\* Where the I/O thread is in its work on an item.
Working(u, it, io) ==
    /\ io.work # 0 <=> io.pc \in {"work", "send", "deliver", "sent", "put"}
    /\ io.work # 0 => io.count <= it[io.work].value
    /\ io.work = 0 => io.count = 0
    /\ io.pc = "work" => io.count = 0
    /\ io.pc \in {"send", "deliver", "sent"} =>
         it[io.work].kind = "delivery" /\ io.credit + io.count <= it[io.work].value
    /\ io.pc \in {"deliver", "sent"} =>
         io.credit > 0 /\ (u # {} => io.dlv = Min(u))

Live(l) == l.alive /\ ~l.detach_received

Inv(n, l, io) ==
    /\ DOMAIN l = LinkFields
    /\ l.alive \in BOOLEAN /\ l.bound \in BOOLEAN /\ l.detach_received \in BOOLEAN
    /\ l.forwarded \in Nat
    /\ io \in ThreadRecord
    /\ l.bound => ~l.detach_received
    /\ ~l.alive => l.undelivered = {}
    /\ l.undelivered \subseteq 1 .. n
    /\ Items(l.work_list, l.item, io.work)
    /\ Working(l.undelivered, l.item, io)
    /\ Live(l) =>
         /\ Linked(n, l.undelivered, l.link_work, l.work_list, l.item, l.forwarded,
                   io.work, io.count)
         /\ Ordered(l.undelivered, l.link_work, l.work_list, l.item, io.work)

\* The actions of the core's queue.
Ops == {"flow", "detach", "detach_sent", "processing_complete", "connection_closed"}
Queue(q) == q \in Seq(Range(q)) /\ \A a \in Range(q) : a.op \in Ops

OLInv ==
    /\ olcf \in OLConfig
    /\ Queue(olq)
    /\ Inv(olcf.n, ol, olio)
    /\ DOMAIN olpn = ProtonFields /\ olpn.credit \in Int

-----------------------------------------------------------------------------
(* The invariant and the operations on the link *)

\* The link m has the work of l.
SameWork(l, m) ==
    /\ DOMAIN m = LinkFields
    /\ m.undelivered = l.undelivered /\ m.link_work = l.link_work
    /\ m.work_list = l.work_list /\ m.item = l.item /\ m.forwarded = l.forwarded
    /\ m.alive = l.alive /\ m.detach_received = l.detach_received /\ m.bound = l.bound

\* The invariant is about the work only: flags, credit and counters of the link may change.
LEMMA SameWorkInv ==
    ASSUME NEW n, NEW l, NEW m, NEW io, Inv(n, l, io), SameWork(l, m)
    PROVE  Inv(n, m, io)
  BY DEF Inv, SameWork, Live

\* Activating the connection (qdr_connection_activate_CT) changes no work.
LEMMA ActivatedSame ==
    ASSUME NEW l, DOMAIN l = LinkFields
    PROVE  SameWork(l, Activated(l))
  BY DEF Activated, SameWork, LinkFields

\* While the link lives, what the lemmas above assume is the case.
LEMMA LiveConsistent ==
    ASSUME NEW n \in Nat, NEW l, NEW io, Inv(n, l, io), Live(l)
    PROVE  Consistent(n, l.undelivered, l.link_work, l.work_list, l.item, l.forwarded,
                      io.work, io.count)
  BY DEF Inv, Consistent, ThreadRecord

\* The fields that Enqueued changes.
LEMMA EnqueuedFields ==
    ASSUME NEW l, DOMAIN l = LinkFields, NEW kind, NEW value
    PROVE  LET x == NewItem(l)
               m == Enqueued(l, kind, value) IN
           /\ DOMAIN m = LinkFields
           /\ m.work_list = Append(l.work_list, x)
           /\ m.item = With(l.item, x, WorkItem(kind, value, l.forwarded))
           /\ m.undelivered = l.undelivered /\ m.link_work = l.link_work
           /\ m.forwarded = l.forwarded
           /\ m.alive = l.alive /\ m.detach_received = l.detach_received /\ m.bound = l.bound
  BY DEF Enqueued, With, LinkFields

\* A new item.
Fresh(new, kind, value, after) ==
    /\ new \in ItemRecord /\ new.processing = FALSE
    /\ new.kind = kind /\ new.value = value /\ new.after = after

\* WorkItem makes one.
LEMMA ItemNew ==
    ASSUME NEW kind \in Kinds, NEW value \in Nat, NEW after \in Nat
    PROVE  Fresh(WorkItem(kind, value, after), kind, value, after)
  BY DEF WorkItem, ItemRecord, Fresh

\* A drain or a detach is enqueued.
LEMMA EnqueuedInv ==
    ASSUME NEW n \in Nat, NEW l, NEW io, Inv(n, l, io), NEW kind \in Kinds \ {"delivery"}
    PROVE  Inv(n, Enqueued(l, kind, 0), io)
  <1> DEFINE x == NewItem(l)
             m == Enqueued(l, kind, 0)
             new == WorkItem(kind, 0, l.forwarded)
  <1>1. x \in Names /\ x \notin DOMAIN l.item
    <2>1. IsFiniteSet(DOMAIN l.item) /\ DOMAIN l.item \subseteq Names
      BY DEF Inv, Items
    <2> QED
      BY <2>1, FreshName DEF NewItem
  <1> HIDE DEF x
  <1>2. /\ DOMAIN m = LinkFields
        /\ m.work_list = Append(l.work_list, x)
        /\ m.item = With(l.item, x, new)
        /\ m.undelivered = l.undelivered /\ m.link_work = l.link_work
        /\ m.forwarded = l.forwarded
        /\ m.alive = l.alive /\ m.detach_received = l.detach_received /\ m.bound = l.bound
    BY EnqueuedFields DEF Inv, x
  <1>3. kind \in Kinds /\ l.forwarded \in Nat /\ 0 \in Nat /\ Items(l.work_list, l.item, io.work)
    BY DEF Inv
  <1>10. Fresh(new, kind, 0, l.forwarded)
    BY <1>3, ItemNew
  <1> HIDE DEF m, new
  <1>9. /\ new \in ItemRecord /\ new.processing = FALSE
        /\ new.kind # "delivery" /\ new.after = l.forwarded
    BY <1>10 DEF Fresh
  <1>4. Items(m.work_list, m.item, io.work)
    BY <1>1, <1>2, <1>3, <1>9, ItemsEnqueued, ZenonT(40)
  <1>5. Working(m.undelivered, m.item, io)
    <2>1. io.work # 0 => m.item[io.work] = l.item[io.work]
      BY <1>1, <1>2 DEF Inv, Items, With
    <2>2. io.pc \in {"send", "deliver", "sent"} => io.work # 0
      BY DEF Inv, Working
    <2> QED
      BY <1>2, <2>1, <2>2, SMTT(30) DEF Inv, Working
  <1>6. ASSUME Live(m)
        PROVE  Consistent(n, m.undelivered, m.link_work, m.work_list, m.item, m.forwarded,
                          io.work, io.count)
    <2>1. Consistent(n, l.undelivered, l.link_work, l.work_list, l.item, l.forwarded,
                     io.work, io.count)
      BY <1>2, <1>6, LiveConsistent, Zenon DEF Live
    <2> QED
      BY <1>1, <1>2, <1>9, <2>1, EnqueuedConsistent, ZenonT(40)
  <1>7. Live(m) => /\ Linked(n, m.undelivered, m.link_work, m.work_list, m.item, m.forwarded,
                             io.work, io.count)
                   /\ Ordered(m.undelivered, m.link_work, m.work_list, m.item, io.work)
    BY <1>6 DEF Consistent
  <1>8. Inv(n, m, io)
    BY <1>2, <1>4, <1>5, <1>7 DEF Inv
  <1> QED
    BY <1>8 DEF m

\* The items that Released keeps.
LEMMA ReleasedFields ==
    ASSUME NEW l, DOMAIN l = LinkFields
    PROVE  LET m == Released(l) IN
           /\ DOMAIN m = LinkFields
           /\ m.item = Restrict(l.item, Used(olcf.n, l.link_work, l.work_list, l.item))
           /\ m.undelivered = l.undelivered /\ m.link_work = l.link_work
           /\ m.work_list = l.work_list /\ m.forwarded = l.forwarded
           /\ m.alive = l.alive /\ m.detach_received = l.detach_received /\ m.bound = l.bound
  BY DEF Released, Referenced, Used, Dlv, LinkFields

\* The deliveries leave a link that does not live, and perhaps its items.
LEMMA EmptiedInv ==
    ASSUME NEW n \in Nat, NEW l, NEW io, Inv(n, l, io), NEW m, DOMAIN m = LinkFields,
           m.alive \in BOOLEAN, m.detach_received = l.detach_received, m.bound = l.bound,
           m.forwarded = l.forwarded, m.undelivered = {}, ~Live(m),
           m.work_list = l.work_list \/ m.work_list = <<>>,
           m.item = Restrict(l.item, Used(olcf.n, m.link_work, m.work_list, l.item))
    PROVE  Inv(n, m, io)
  <1> DEFINE S == Used(olcf.n, m.link_work, m.work_list, l.item)
  <1>1. Items(m.work_list, l.item, io.work)
    <2>1. Items(l.work_list, l.item, io.work)
      BY DEF Inv
    <2>2. CASE m.work_list = l.work_list
      BY <2>1, <2>2
    <2>3. CASE m.work_list = <<>>
      BY <2>1, <2>3, SMTT(30) DEF Items
    <2> QED
      BY <2>2, <2>3
  <1>2. S \in SUBSET DOMAIN l.item /\ \A i \in DOMAIN m.work_list : m.work_list[i] \in S
    BY <1>1, SMTT(30) DEF Used, Items, Range
  <1>3. io.work # 0 => io.work \in S
    BY <1>1 DEF Used, Items
  <1>4. Items(m.work_list, m.item, io.work)
    BY <1>1, <1>2, <1>3, ItemsFreed, SMTT(30)
  <1>5. io.work # 0 => m.item[io.work] = l.item[io.work]
    BY <1>3, SMTT(30) DEF Restrict
  <1>6. Working(m.undelivered, m.item, io)
    <2>1. io.pc \in {"send", "deliver", "sent"} => io.work # 0
      BY DEF Inv, Working
    <2> QED
      BY <1>5, <2>1, SMTT(30) DEF Inv, Working
  <1> QED
    BY <1>4, <1>6 DEF Inv

\* qdr_link_cleanup_deliveries_CT, after a detach was received: no delivery is left that
\* refers to an item.
LEMMA CleanupDeliveriesInv ==
    ASSUME NEW n \in Nat, NEW l, NEW io, Inv(n, l, io), l.detach_received
    PROVE  /\ Inv(n, qdr_link_cleanup_deliveries_CT(l), io)
           /\ qdr_link_cleanup_deliveries_CT(l).detach_received
  <1> DEFINE z == [d \in Dlv |-> 0]
             k == [l EXCEPT !.undelivered = {}, !.link_work = z]
             m == Released(k)
  <1>1. /\ DOMAIN k = LinkFields /\ k.item = l.item /\ k.undelivered = {} /\ k.link_work = z
        /\ k.work_list = l.work_list /\ k.forwarded = l.forwarded
        /\ k.alive = l.alive /\ k.detach_received = l.detach_received /\ k.bound = l.bound
    BY Zenon DEF Inv, LinkFields
  <1> HIDE DEF k
  <1>2. /\ DOMAIN m = LinkFields
        /\ m.item = Restrict(k.item, Used(olcf.n, k.link_work, k.work_list, k.item))
        /\ m.undelivered = k.undelivered /\ m.link_work = k.link_work
        /\ m.work_list = k.work_list /\ m.forwarded = k.forwarded
        /\ m.alive = k.alive /\ m.detach_received = k.detach_received /\ m.bound = k.bound
    BY <1>1, ReleasedFields, Zenon
  <1> HIDE DEF m
  <1>3. ~Live(m) /\ m.alive \in BOOLEAN
    BY <1>1, <1>2 DEF Live, Inv
  <1>4. Inv(n, m, io)
    BY <1>1, <1>2, <1>3, EmptiedInv, ZenonT(40)
  <1> QED
    BY <1>1, <1>2, <1>4 DEF m, k, qdr_link_cleanup_deliveries_CT

\* qdr_link_cleanup_CT: deliveries and work list are gone; the item that the I/O thread
\* works on outlives them.
LEMMA CleanupInv ==
    ASSUME NEW n \in Nat, NEW l, NEW io, Inv(n, l, io)
    PROVE  Inv(n, qdr_link_cleanup_CT(l), io)
  <1> DEFINE z == [d \in Dlv |-> 0]
             k == [[l EXCEPT !.work_list = <<>>] EXCEPT !.undelivered = {}, !.link_work = z]
             j == Released(k)
             m == [j EXCEPT !.links_with_work = FALSE, !.alive = FALSE]
  <1>1. /\ DOMAIN k = LinkFields /\ k.item = l.item /\ k.undelivered = {} /\ k.link_work = z
        /\ k.work_list = <<>> /\ k.forwarded = l.forwarded
        /\ k.detach_received = l.detach_received /\ k.bound = l.bound
    BY DEF Inv, LinkFields
  <1> HIDE DEF k
  <1>2. /\ DOMAIN j = LinkFields
        /\ j.item = Restrict(k.item, Used(olcf.n, k.link_work, k.work_list, k.item))
        /\ j.undelivered = k.undelivered /\ j.link_work = k.link_work
        /\ j.work_list = k.work_list /\ j.forwarded = k.forwarded
        /\ j.detach_received = k.detach_received /\ j.bound = k.bound
    BY <1>1, ReleasedFields
  <1> HIDE DEF j
  <1>3. /\ DOMAIN m = LinkFields /\ m.item = j.item
        /\ m.undelivered = j.undelivered /\ m.link_work = j.link_work
        /\ m.work_list = j.work_list /\ m.forwarded = j.forwarded
        /\ m.alive = FALSE /\ m.detach_received = j.detach_received /\ m.bound = j.bound
    BY <1>2 DEF LinkFields
  <1> HIDE DEF m
  <1>4. ~Live(m) /\ m.alive \in BOOLEAN
    BY <1>3, Zenon DEF Live
  <1>5. Inv(n, m, io)
    BY <1>1, <1>2, <1>3, <1>4, EmptiedInv
  <1> QED
    BY <1>5 DEF m, j, k, qdr_link_cleanup_CT, qdr_link_cleanup_deliveries_CT

\* qdr_link_cleanup_protected_CT: at once, or when the I/O thread lets go of the link.
LEMMA CleanupProtectedInv ==
    ASSUME NEW n \in Nat, NEW l, NEW io, Inv(n, l, io)
    PROVE  Inv(n, qdr_link_cleanup_protected_CT(l), io)
  <1>1. SameWork(l, [l EXCEPT !.links_with_work = FALSE, !.ready_to_free = TRUE])
    BY DEF Inv, SameWork, LinkFields
  <1>2. SameWork(l, [l EXCEPT !.links_with_work = FALSE])
    BY DEF Inv, SameWork, LinkFields
  <1>3. Inv(n, [l EXCEPT !.links_with_work = FALSE, !.ready_to_free = TRUE], io)
    BY <1>1, SameWorkInv
  <1>4. Inv(n, qdr_link_cleanup_CT([l EXCEPT !.links_with_work = FALSE]), io)
    BY <1>2, SameWorkInv, CleanupInv, SMTT(30)
  <1> QED
    BY <1>3, <1>4 DEF qdr_link_cleanup_protected_CT

\* qdr_link_outbound_detach_CT: the detach is one more item at the tail of the work list.
LEMMA OutboundDetachInv ==
    ASSUME NEW n \in Nat, NEW l, NEW io, Inv(n, l, io)
    PROVE  Inv(n, qdr_link_outbound_detach_CT(l), io)
  <1> DEFINE kind == IF l.detach_count = 0 THEN "first_detach" ELSE "second_detach"
             k == [l EXCEPT !.detach_count = @ + 1]
             m == Enqueued(k, kind, 0)
  <1>1. SameWork(l, k)
    BY DEF Inv, SameWork, LinkFields
  <1>2. kind \in Kinds \ {"delivery"}
    BY DEF Kinds
  <1>3. Inv(n, k, io)
    BY <1>1, SameWorkInv
  <1> HIDE DEF k, kind
  <1>4. Inv(n, m, io)
    BY <1>2, <1>3, EnqueuedInv
  <1> HIDE DEF m
  <1>5. SameWork(m, Activated(m))
    BY <1>4, ActivatedSame DEF Inv
  <1>6. Inv(n, Activated(m), io)
    BY <1>4, <1>5, SameWorkInv
  <1> QED
    BY <1>6 DEF m, k, kind, qdr_link_outbound_detach_CT

\* qdr_link_inbound_detach_CT: the consumer's detach, closed or lost.
LEMMA DetachedInv ==
    ASSUME NEW n \in Nat, NEW l, NEW io, Inv(n, l, io), NEW dt
    PROVE  Inv(n, Detached(l, dt), io)
  <1> DEFINE r == [l EXCEPT !.detach_received = TRUE, !.detach_count = @ + 1, !.bound = FALSE]
             c == qdr_link_cleanup_deliveries_CT(r)
  <1>1. Inv(n, r, io) /\ r.detach_received
    <2>1. /\ DOMAIN r = LinkFields /\ r.item = l.item /\ r.undelivered = l.undelivered
          /\ r.work_list = l.work_list /\ r.forwarded = l.forwarded
          /\ r.alive = l.alive /\ r.detach_received = TRUE /\ r.bound = FALSE
      BY DEF Inv, LinkFields
    <2> HIDE DEF r
    <2> QED
      BY <2>1, Zenon DEF Inv, Live
  <1>2. Inv(n, c, io)
    BY <1>1, CleanupDeliveriesInv, Zenon
  <1> HIDE DEF r, c
  <1>3. Inv(n, qdr_link_outbound_detach_CT(c), io)
    BY <1>2, OutboundDetachInv
  <1>4. Inv(n, qdr_link_cleanup_protected_CT(c), io)
    BY <1>2, CleanupProtectedInv
  <1>5. Inv(n, qdr_link_cleanup_protected_CT(r), io)
    BY <1>1, CleanupProtectedInv
  <1>6. Detached(l, dt) \in {l, r, qdr_link_outbound_detach_CT(c),
                             qdr_link_cleanup_protected_CT(c), qdr_link_cleanup_protected_CT(r)}
    BY DEF Detached, r, c
  <1> QED
    BY <1>1, <1>3, <1>4, <1>5, <1>6, SMTT(30)

\* qdr_link_detach_sent_CT: the last side that is done frees the link.
LEMMA DetachSentInv ==
    ASSUME NEW n \in Nat, NEW l, NEW io, Inv(n, l, io)
    PROVE  Inv(n, DetachSent(l), io)
  <1> DEFINE r == [l EXCEPT !.detach_send_done = TRUE]
  <1>1. SameWork(l, r)
    BY DEF Inv, SameWork, LinkFields
  <1>2. Inv(n, r, io)
    BY <1>1, SameWorkInv
  <1> HIDE DEF r
  <1>3. Inv(n, qdr_link_cleanup_protected_CT(r), io)
    BY <1>2, CleanupProtectedInv
  <1> QED
    BY <1>2, <1>3 DEF DetachSent, r

\* The least member stays the least when others go or greater ones come.
LEMMA SameLeast ==
    ASSUME NEW S \in SUBSET Nat, NEW T \in SUBSET Nat, S # {}, Min(S) \in T,
           \A y \in T : y \in S \/ Min(S) <= y
    PROVE  Min(T) = Min(S)
  <1>1. Min(S) \in S /\ \A y \in S : Min(S) <= y
    BY LowestOf
  <1>2. Min(T) \in T /\ \A y \in T : Min(T) <= y
    BY LowestOf
  <1>3. Min(T) <= Min(S) /\ Min(S) <= Min(T) /\ Min(S) \in Nat /\ Min(T) \in Nat
    BY <1>1, <1>2, Zenon
  <1> QED
    BY <1>3

\* A thread that is sending has a delivery to send.
LEMMA SendingHead ==
    ASSUME NEW n \in Nat, NEW l, NEW io, Inv(n, l, io), Live(l), io.pc \in {"deliver", "sent"}
    PROVE  /\ io.work # 0 /\ l.item[io.work].kind = "delivery"
           /\ io.count < l.item[io.work].value
           /\ l.undelivered # {} /\ io.dlv = Min(l.undelivered)
           /\ Min(l.undelivered) \in 1 .. n /\ l.link_work[Min(l.undelivered)] = io.work
  <1>1. /\ io.work # 0 /\ l.item[io.work].kind = "delivery" /\ io.credit > 0
        /\ io.credit + io.count <= l.item[io.work].value
        /\ l.undelivered # {} => io.dlv = Min(l.undelivered)
    BY SMTT(30) DEF Inv, Working
  <1>2. io.credit \in Nat /\ io.count \in Nat /\ l.item[io.work].value \in Nat
    BY <1>1 DEF Inv, ThreadRecord, Items, ItemRecord
  <1>3. io.count < l.item[io.work].value
    BY <1>1, <1>2
  <1>4. Consistent(n, l.undelivered, l.link_work, l.work_list, l.item, l.forwarded,
                   io.work, io.count)
    BY LiveConsistent
  <1>5. /\ l.undelivered # {} /\ Min(l.undelivered) \in 1 .. n
        /\ l.link_work[Min(l.undelivered)] = io.work
    BY <1>1, <1>3, <1>4, HeadIsHeld, SMTT(30)
  <1> QED
    BY <1>1, <1>3, <1>5, SMTT(30)

\* Settled deliveries are dropped (qdr_forward_drop_presettled_CT_LH).
LEMMA DropInv ==
    ASSUME NEW l, NEW io, olcf.n \in Nat, Inv(olcf.n, l, io), Live(l)
    PROVE  LET m == qdr_forward_drop_presettled_CT_LH(l) IN
           Inv(olcf.n, m, io) /\ Live(m) /\ m.forwarded = l.forwarded
  <1> DEFINE n == olcf.n
             D == Droppable(l)
             lw == l.link_work
             it == l.item
             r == Without(l.work_list, Dead(lw, it, D))
             t == ItemsLeft(lw, it, D)
             a == LinksLeft(n, lw, D)
             k == [l EXCEPT !.undelivered = l.undelivered \ D, !.item = t, !.work_list = r,
                            !.link_work = a]
             m == Released(k)
  <1>1. qdr_forward_drop_presettled_CT_LH(l) = m
    BY DEF qdr_forward_drop_presettled_CT_LH, Inv, LinkFields, ItemsLeft, LinksLeft, Dead,
           LeftOf, Dlv
  <1>2. /\ DOMAIN k = LinkFields /\ k.item = t /\ k.undelivered = l.undelivered \ D
        /\ k.link_work = a /\ k.work_list = r /\ k.forwarded = l.forwarded
        /\ k.alive = l.alive /\ k.detach_received = l.detach_received /\ k.bound = l.bound
    BY DEF Inv, LinkFields
  <1> HIDE DEF k
  <1>3. /\ DOMAIN m = LinkFields
        /\ m.item = Restrict(t, Used(n, a, r, t))
        /\ m.undelivered = l.undelivered \ D /\ m.link_work = a
        /\ m.work_list = r /\ m.forwarded = l.forwarded
        /\ m.alive = l.alive /\ m.detach_received = l.detach_received /\ m.bound = l.bound
    BY <1>2, ReleasedFields
  <1> HIDE DEF m
  <1>4. Consistent(n, l.undelivered, lw, l.work_list, it, l.forwarded, io.work, io.count)
    BY LiveConsistent
  <1>5. D \in SUBSET l.undelivered /\ (l.undelivered # {} => Min(l.undelivered) \notin D)
    BY DEF Droppable, DlvHead
  <1>6. \A d \in D : lw[d] # io.work
    <2>1. \A d \in D : ~it[lw[d]].processing /\ lw[d] # 0
      BY DEF Droppable
    <2> QED
      BY <1>4, <2>1 DEF Consistent, Items
  <1> HIDE DEF D
  <1>12. a = LinksLeft(n, lw, D) /\ t = ItemsLeft(lw, it, D)
    OBVIOUS
  <1>13. Cut(l.work_list, Dead(lw, it, D), r)
    <2>1. Without(l.work_list, Dead(lw, it, D)) = Kept(l.work_list, Dead(lw, it, D))
      BY SMTT(30) DEF Without, Kept
    <2>2. l.work_list \in Seq(Names)
      BY DEF Inv, Items
    <2> QED
      BY <2>1, <2>2, KeptIsCut, SMTT(30)
  <1> HIDE DEF r, t, a, n, lw, it
  <1>7. /\ Consistent(n, l.undelivered \ D, a, r, Restrict(t, Used(n, a, r, t)), l.forwarded,
                      io.work, io.count)
        /\ io.work # 0 => /\ io.work \in Used(n, a, r, t)
                          /\ t[io.work].value = it[io.work].value
                          /\ t[io.work].kind = it[io.work].kind
    <2>1. Dropped(n, l.undelivered, lw, l.work_list, it, l.forwarded, io.work, io.count, D, r, a, t)
      BY <1>4, <1>5, <1>6, <1>12, <1>13, DroppedConsistent, SMTT(30)
    <2> QED
      BY <2>1 DEF Dropped
  <1> USE DEF n, lw, it
  <1>8. io.work # 0 => /\ m.item[io.work].value = it[io.work].value
                       /\ m.item[io.work].kind = it[io.work].kind
    BY <1>3, <1>7 DEF Restrict
  <1>9. io.pc \in {"deliver", "sent"} => io.dlv = Min(m.undelivered)
    <2> SUFFICES ASSUME io.pc \in {"deliver", "sent"} PROVE io.dlv = Min(m.undelivered)
      OBVIOUS
    <2>1. l.undelivered # {} /\ io.dlv = Min(l.undelivered) /\ l.undelivered \in SUBSET Nat
      BY SendingHead DEF Inv
    <2>2. Min(l.undelivered) \in l.undelivered
      BY <2>1, LowestOf
    <2>3. Min(m.undelivered) = Min(l.undelivered)
      BY <1>3, <1>5, <2>1, <2>2, SameLeast, SMTT(30)
    <2> QED
      BY <2>1, <2>3
  <1>10. Working(m.undelivered, m.item, io)
    <2>1. io.pc \in {"send", "deliver", "sent"} => io.work # 0
      BY SMTT(30) DEF Inv, Working
    <2> QED
      BY <1>8, <1>9, <2>1, Zenon DEF Inv, Working
  <1>11. Inv(n, m, io)
    <2>1. m.undelivered \subseteq 1 .. n /\ (~m.alive => m.undelivered = {})
      BY <1>3, SMTT(30) DEF Inv
    <2> QED
      BY <1>3, <1>7, <1>10, <2>1, SMTT(30) DEF Inv, Consistent
  <1> QED
    BY <1>1, <1>3, <1>11 DEF Live

\* The next delivery is on the list of a link that lives, and its item counts it.
LEMMA NextInv ==
    ASSUME NEW n \in Nat, NEW l, NEW io, Inv(n, l, io), Live(l), NEW m, DOMAIN m = LinkFields,
           m.alive = l.alive, m.detach_received = l.detach_received, m.bound = l.bound,
           m.undelivered = l.undelivered \cup {l.forwarded + 1},
           m.forwarded = l.forwarded + 1,
           Consistent(n, m.undelivered, m.link_work, m.work_list, m.item, m.forwarded,
                      io.work, io.count),
           io.work # 0 => m.item[io.work] = l.item[io.work]
    PROVE  Inv(n, m, io)
  <1>1. l.forwarded \in Nat /\ m.forwarded \in Nat /\ l.undelivered \subseteq 1 .. n
    BY DEF Inv
  <1>2. io.pc \in {"deliver", "sent"} => io.dlv = Min(m.undelivered)
    <2> SUFFICES ASSUME io.pc \in {"deliver", "sent"} PROVE io.dlv = Min(m.undelivered)
      OBVIOUS
    <2>1. l.undelivered # {} /\ io.dlv = Min(l.undelivered) /\ l.undelivered \in SUBSET Nat
      BY <1>1, SendingHead, SMTT(30)
    <2>2. Min(l.undelivered) \in l.undelivered
      BY <2>1, LowestOf, SMTT(30)
    <2>3. Min(l.undelivered) <= l.forwarded + 1
      BY <1>1, <2>2 DEF Inv, Linked
    <2>4. m.undelivered \in SUBSET Nat
      BY <1>1
    <2>5. Min(m.undelivered) = Min(l.undelivered)
      BY <2>1, <2>2, <2>3, <2>4, SameLeast, SMTT(30)
    <2> QED
      BY <2>1, <2>5, SMTT(30)
  <1>3. Working(m.undelivered, m.item, io)
    <2>1. io.pc \in {"send", "deliver", "sent"} => io.work # 0
      BY SMTT(30) DEF Inv, Working
    <2> QED
      BY <1>2, <2>1, SMTT(30) DEF Inv, Working
  <1>4. m.undelivered \subseteq 1 .. n
    BY <1>1, SMTT(30) DEF Consistent, Linked
  <1>5. /\ Items(m.work_list, m.item, io.work)
        /\ Linked(n, m.undelivered, m.link_work, m.work_list, m.item, m.forwarded,
                  io.work, io.count)
        /\ Ordered(m.undelivered, m.link_work, m.work_list, m.item, io.work)
    BY DEF Consistent
  <1> QED
    BY <1>1, <1>3, <1>4, <1>5, SMTT(30) DEF Inv, Live

\* The fields that JoinWork changes when the delivery gets an item of its own.
NewlyJoined(k, d, m) ==
    /\ DOMAIN m = LinkFields /\ m.work_list = Append(k.work_list, NewItem(k))
    /\ m.item = With(k.item, NewItem(k), WorkItem("delivery", 1, k.forwarded))
    /\ m.link_work = [k.link_work EXCEPT ![d] = NewItem(k)]
    /\ m.undelivered = k.undelivered /\ m.forwarded = k.forwarded
    /\ m.alive = k.alive /\ m.detach_received = k.detach_received /\ m.bound = k.bound

\* JoinWork gives a delivery an item of its own.
LEMMA JoinFields ==
    ASSUME NEW k, DOMAIN k = LinkFields, NEW d,
           ~(k.work_list # <<>> /\ k.item[WorkTail(k)].kind = "delivery")
    PROVE  NewlyJoined(k, d, JoinWork(k, d))
  <1> DEFINE e == Enqueued(k, "delivery", 1)
             m == JoinWork(k, d)
  <1>1. m = [e EXCEPT !.link_work[d] = NewItem(k)]
    BY DEF JoinWork
  <1>2. /\ DOMAIN e = LinkFields
        /\ e.work_list = Append(k.work_list, NewItem(k))
        /\ e.item = With(k.item, NewItem(k), WorkItem("delivery", 1, k.forwarded))
        /\ e.undelivered = k.undelivered /\ e.link_work = k.link_work
        /\ e.forwarded = k.forwarded
        /\ e.alive = k.alive /\ e.detach_received = k.detach_received /\ e.bound = k.bound
    BY EnqueuedFields
  <1> HIDE DEF e, m
  <1>3. NewlyJoined(k, d, m)
    BY <1>1, <1>2, SMTT(30) DEF NewlyJoined, LinkFields
  <1> QED
    BY <1>3 DEF m

\* The next delivery is forwarded: it joins the item at the tail, or gets one (JoinWork).
LEMMA JoinInv ==
    ASSUME NEW n \in Nat, NEW l, NEW io, Inv(n, l, io), Live(l), l.forwarded < n,
           NEW k, k = [l EXCEPT !.undelivered = l.undelivered \cup {l.forwarded + 1},
                                !.forwarded = l.forwarded + 1]
    PROVE  Inv(n, JoinWork(k, l.forwarded + 1), io)
  <1> DEFINE d == l.forwarded + 1
             wl == l.work_list
             it == l.item
             m == JoinWork(k, d)
  <1>1. /\ DOMAIN k = LinkFields /\ k.work_list = wl /\ k.item = it
        /\ k.link_work = l.link_work /\ k.undelivered = l.undelivered \cup {d}
        /\ k.forwarded = d /\ k.alive = l.alive /\ k.detach_received = l.detach_received
        /\ k.bound = l.bound
    BY DEF Inv, LinkFields
  <1>2. Consistent(n, l.undelivered, l.link_work, wl, it, l.forwarded, io.work, io.count)
    BY LiveConsistent
  <1>3. CASE wl # <<>> /\ it[WorkTail(k)].kind = "delivery"
    <2> DEFINE x == WorkTail(k)
    <2>1. x = wl[Len(wl)]
      BY <1>1, SMTT(30) DEF WorkTail
    <2>2. m = [k EXCEPT !.item = [it EXCEPT ![x].value = it[x].value + 1],
                        !.link_work = [l.link_work EXCEPT ![d] = x]]
      BY <1>1, <1>3 DEF JoinWork, LinkFields
    <2> HIDE DEF m, x
    <2>3. /\ DOMAIN m = LinkFields /\ m.work_list = wl
          /\ m.item = [it EXCEPT ![x].value = it[x].value + 1]
          /\ m.link_work = [l.link_work EXCEPT ![d] = x]
          /\ m.undelivered = l.undelivered \cup {d} /\ m.forwarded = d
          /\ m.alive = l.alive /\ m.detach_received = l.detach_received /\ m.bound = l.bound
      BY <1>1, <2>2 DEF LinkFields
    <2>4. wl # <<>> /\ it[x].kind = "delivery"
      BY <1>3, SMTT(30) DEF x
    <2>5. Consistent(n, l.undelivered \cup {d}, [l.link_work EXCEPT ![d] = x], wl,
                     [it EXCEPT ![x].value = it[x].value + 1], d, io.work, io.count)
      BY <1>2, <2>1, <2>4, JoinedConsistent, ZenonT(40)
    <2>6. x # io.work
      <3>1. wl \in Seq(Names) /\ \A i \in DOMAIN wl : wl[i] # io.work
        BY <1>2 DEF Consistent, Items
      <3>2. Len(wl) \in DOMAIN wl
        BY <2>4, <3>1, SMTT(30)
      <3> QED
        BY <2>1, <3>1, <3>2, SMTT(30)
    <2>7. io.work # 0 => m.item[io.work] = it[io.work]
      BY <1>2, <2>3, <2>6 DEF Consistent, Items
    <2>8. Inv(n, m, io)
      BY <2>3, <2>5, <2>7, NextInv, Zenon
    <2> QED
      BY <2>8 DEF m
  <1>4. CASE ~(wl # <<>> /\ it[WorkTail(k)].kind = "delivery")
    <2> DEFINE x == NewItem(l)
    <2>1. x = NewItem(k) /\ x \in Names /\ x \notin DOMAIN it
      <3>1. IsFiniteSet(DOMAIN it) /\ DOMAIN it \subseteq Names
        BY <1>2 DEF Consistent, Items
      <3> QED
        BY <1>1, <3>1, FreshName, SMTT(30) DEF NewItem
    <2>2. NewlyJoined(k, d, m)
      <3>1. DOMAIN k = LinkFields
        BY <1>1
      <3>2. ~(k.work_list # <<>> /\ k.item[WorkTail(k)].kind = "delivery")
        BY <1>1, <1>4
      <3> QED
        BY <3>1, <3>2, JoinFields, Zenon
    <2> HIDE DEF x, m
    <2>4. /\ DOMAIN m = LinkFields /\ m.work_list = Append(wl, x)
          /\ m.item = With(it, x, WorkItem("delivery", 1, d))
          /\ m.link_work = [l.link_work EXCEPT ![d] = x]
          /\ m.undelivered = l.undelivered \cup {d} /\ m.forwarded = d
          /\ m.alive = l.alive /\ m.detach_received = l.detach_received /\ m.bound = l.bound
      BY <1>1, <2>1, <2>2 DEF NewlyJoined
    <2>5. Consistent(n, l.undelivered \cup {d}, [l.link_work EXCEPT ![d] = x], Append(wl, x),
                     With(it, x, WorkItem("delivery", 1, d)), d, io.work, io.count)
      <3> DEFINE new == WorkItem("delivery", 1, d)
      <3>3. d \in Nat /\ "delivery" \in Kinds /\ 1 \in Nat
        BY <1>2 DEF Consistent, Kinds
      <3>4. Fresh(new, "delivery", 1, d)
        BY <3>3, ItemNew
      <3> HIDE DEF new
      <3>1. /\ new \in ItemRecord /\ new.processing = FALSE
            /\ new.kind = "delivery" /\ new.value = 1 /\ new.after = d
        BY <3>4 DEF Fresh
      <3>2. Consistent(n, l.undelivered \cup {d}, [l.link_work EXCEPT ![d] = x], Append(wl, x),
                       With(it, x, new), d, io.work, io.count)
        BY <1>2, <2>1, <3>1, ForwardedConsistent, ZenonT(40)
      <3> QED
        BY <3>2 DEF new
    <2>7. io.work # 0 => m.item[io.work] = it[io.work]
      BY <1>2, <2>1, <2>4, SMTT(30) DEF Consistent, Items, With
    <2>8. Inv(n, m, io)
      BY <2>4, <2>5, <2>7, NextInv, Zenon
    <2> QED
      BY <2>8 DEF m
  <1> QED
    BY <1>3, <1>4

\* qdr_forward_deliver_CT keeps the invariant.
LEMMA ForwardOK ==
    ASSUME OLInv, qdr_forward_deliver_CT
    PROVE  OLInv'
  <1> DEFINE d == ol.forwarded + 1
             drop == /\ d \in olcf.presettled /\ olcf.capacity > 0
                     /\ Cardinality(ol.undelivered) >= olcf.capacity
             l0 == IF drop THEN qdr_forward_drop_presettled_CT_LH(ol) ELSE ol
             l1 == [l0 EXCEPT !.undelivered = @ \cup {d}, !.forwarded = d]
             m == JoinWork(l1, d)
  <1>1. /\ ol' = Activated(m) /\ ol.forwarded < olcf.n /\ ol.alive /\ ol.bound
        /\ UNCHANGED <<olcf, olq, olio, olpn>>
    BY DEF qdr_forward_deliver_CT
  <1>2. olcf.n \in Nat /\ Inv(olcf.n, ol, olio) /\ Live(ol)
    BY <1>1 DEF OLInv, OLConfig, Inv, Live
  <1>3. Inv(olcf.n, l0, olio) /\ Live(l0) /\ l0.forwarded = ol.forwarded
    BY <1>2, DropInv
  <1> HIDE DEF l0
  <1>4. /\ l0.forwarded < olcf.n /\ d = l0.forwarded + 1
        /\ l1 = [l0 EXCEPT !.undelivered = l0.undelivered \cup {l0.forwarded + 1},
                           !.forwarded = l0.forwarded + 1]
    BY <1>1, <1>3 DEF Inv, LinkFields
  <1> HIDE DEF l1, d
  <1>5. Inv(olcf.n, m, olio)
    BY <1>2, <1>3, <1>4, JoinInv, ZenonT(40)
  <1> HIDE DEF m
  <1>6. Inv(olcf.n, Activated(m), olio)
    BY <1>5, ActivatedSame, SameWorkInv, Zenon DEF Inv
  <1> QED
    BY <1>1, <1>6 DEF OLInv

-----------------------------------------------------------------------------
(* The core's queue *)

\* A sequence is one of its own members.
LEMMA SeqRange ==
    ASSUME NEW S, NEW q \in Seq(S)
    PROVE  q \in Seq(Range(q)) /\ Range(q) \subseteq S
  BY DEF Range

\* An action is queued.
LEMMA QueueAppend ==
    ASSUME NEW q, Queue(q), NEW a, a.op \in Ops
    PROVE  Queue(Append(q, a))
  <1>1. Append(q, a) \in Seq(Range(q) \cup {a})
    BY DEF Queue
  <1>2. /\ Append(q, a) \in Seq(Range(Append(q, a)))
        /\ Range(Append(q, a)) \subseteq Range(q) \cup {a}
    BY <1>1, SeqRange, Zenon
  <1> QED
    BY <1>2 DEF Queue

\* A queue of one action, or none.
LEMMA QueueOne ==
    ASSUME NEW a, a.op \in Ops
    PROVE  Queue(<<a>>) /\ Queue(<<>>)
  <1>1. <<a>> \in Seq({a}) /\ <<>> \in Seq({a})
    OBVIOUS
  <1>2. /\ <<a>> \in Seq(Range(<<a>>)) /\ Range(<<a>>) \subseteq {a}
        /\ <<>> \in Seq(Range(<<>>)) /\ Range(<<>>) \subseteq {a}
    BY <1>1, SeqRange, Zenon
  <1> QED
    BY <1>2 DEF Queue

\* Several actions are queued.
LEMMA QueueJoin ==
    ASSUME NEW q, Queue(q), NEW p, Queue(p)
    PROVE  Queue(q \o p)
  <1>1. q \o p \in Seq(Range(q) \cup Range(p))
    BY DEF Queue
  <1>2. q \o p \in Seq(Range(q \o p)) /\ Range(q \o p) \subseteq Range(q) \cup Range(p)
    BY <1>1, SeqRange, Zenon
  <1> QED
    BY <1>2 DEF Queue

\* The core takes an action off its queue.
LEMMA QueueTail ==
    ASSUME NEW q, Queue(q)
    PROVE  Queue(Tail(q)) /\ (q # <<>> => Head(q).op \in Ops)
  <1>1. CASE q = <<>>
    <2>1. Tail(q) = q
      BY <1>1
    <2> QED
      BY <1>1, <2>1
  <1>2. CASE q # <<>>
    <2>1. Tail(q) \in Seq(Range(q)) /\ Head(q) \in Range(q)
      BY <1>2 DEF Queue
    <2>2. Tail(q) \in Seq(Range(Tail(q))) /\ Range(Tail(q)) \subseteq Range(q)
      BY <2>1, SeqRange, Zenon
    <2> QED
      BY <2>1, <2>2 DEF Queue
  <1> QED
    BY <1>1, <1>2

-----------------------------------------------------------------------------
(* The steps of the core *)

\* A step that leaves the work of the link and the I/O thread alone.
LEMMA SameOK ==
    ASSUME OLInv, olcf' = olcf, Queue(olq'), SameWork(ol, ol'), olio' = olio, olpn' = olpn
    PROVE  OLInv'
  BY SameWorkInv, SMTT(30) DEF OLInv

\* More of a streaming message has arrived (qdr_delivery_continue_peers_CT).
LEMMA ContinueOK ==
    ASSUME OLInv, NEW d, qdr_delivery_continue_peers_CT(d)
    PROVE  OLInv'
  <1> DEFINE l == [ol EXCEPT !.whole = @ \cup {d}]
  <1>1. ol' = Activated(l) \/ ol' = l
    BY DEF qdr_delivery_continue_peers_CT
  <1>2. SameWork(ol, l) /\ SameWork(ol, Activated(l))
    BY DEF OLInv, Inv, SameWork, LinkFields, Activated
  <1> QED
    BY <1>1, <1>2, SameOK, Zenon DEF qdr_delivery_continue_peers_CT, OLInv

\* The router ends the link by itself.
LEMMA RouterDetachOK ==
    ASSUME OLInv, RouterDetach
    PROVE  OLInv'
  <1>1. Inv(olcf.n, qdr_link_outbound_detach_CT(ol), olio)
    BY OutboundDetachInv DEF OLInv, OLConfig
  <1> QED
    BY <1>1 DEF RouterDetach, OLInv

\* qdr_link_flow_CT begins.
LEMMA FlowReadOK ==
    ASSUME OLInv, FlowRead
    PROVE  OLInv'
  <1>1. SameWork(ol, ol')
    BY Zenon DEF FlowRead, OLInv, Inv, SameWork, LinkFields
  <1> QED
    BY <1>1, SameOK DEF FlowRead, OLInv

\* qdr_link_flow_CT ends: a drain is queued behind the deliveries before it.
LEMMA FlowOK ==
    ASSUME OLInv, qdr_link_flow_CT
    PROVE  OLInv'
  <1> DEFINE n == olcf.n
             a == Head(olq)
             k == [ol EXCEPT !.flowing = FALSE, !.wasDrain = FALSE, !.drain_mode = a.drain]
             l0 == Resume(k)
             l1 == IF ol.wasDrain THEN Enqueued(l0, "flow", 0) ELSE l0
  <1>1. /\ ol' = Activated(l1) \/ ol' = l1
        /\ olq' = Tail(olq) /\ UNCHANGED <<olcf, olio, olpn>>
    BY DEF qdr_link_flow_CT
  <1>2. n \in Nat /\ Inv(n, ol, olio)
    BY DEF OLInv, OLConfig
  <1>3. SameWork(ol, k)
    BY <1>2 DEF Inv, SameWork, LinkFields
  <1> HIDE DEF k
  <1>4. SameWork(ol, l0)
    BY <1>3 DEF Resume, SameWork, LinkFields, Activated
  <1> HIDE DEF l0
  <1>5. Inv(n, l0, olio)
    BY <1>2, <1>4, SameWorkInv
  <1>6. "flow" \in Kinds \ {"delivery"}
    BY DEF Kinds
  <1>7. Inv(n, l1, olio)
    BY <1>2, <1>5, <1>6, EnqueuedInv, SMTT(30)
  <1> HIDE DEF l1
  <1>8. Inv(n, Activated(l1), olio)
    BY <1>7, ActivatedSame, SameWorkInv, Zenon DEF Inv
  <1>9. Inv(n, ol', olio)
    BY <1>1, <1>7, <1>8, SMTT(30)
  <1> QED
    BY <1>1, <1>9, QueueTail DEF OLInv

\* Any other action of the core.
LEMMA CoreActionOK ==
    ASSUME OLInv, CoreAction
    PROVE  OLInv'
  <1> DEFINE n == olcf.n
             a == Head(olq)
  <1>1. n \in Nat /\ Inv(n, ol, olio)
    BY DEF OLInv, OLConfig
  <1>2. olq # <<>> /\ Queue(olq') /\ a.op \in Ops /\ UNCHANGED <<olcf, olio, olpn>>
    BY QueueTail DEF CoreAction, OLInv
  <1>3. \/ ol' = ol
        \/ ol' = Detached(ol, a.dt)
        \/ ol' = DetachSent(ol)
        \/ ol' = qdr_link_cleanup_CT(ol)
    <2>1. a.op = "flow" => ~ol.alive
      BY DEF CoreAction
    <2>2. CASE ~ol.alive
      BY <2>2 DEF CoreAction
    <2>3. CASE ol.alive /\ a.op = "detach"
      BY <2>3 DEF CoreAction
    <2>4. CASE ol.alive /\ a.op = "detach_sent"
      BY <2>4 DEF CoreAction
    <2>5. CASE ol.alive /\ a.op \in {"processing_complete", "connection_closed"}
      BY <2>5 DEF CoreAction
    <2> QED
      BY <1>2, <2>1, <2>2, <2>3, <2>4, <2>5, SMTT(30) DEF Ops
  <1>4. Inv(n, ol', olio)
    BY <1>1, <1>3, DetachedInv, DetachSentInv, CleanupInv, SMTT(30)
  <1> QED
    BY <1>2, <1>4 DEF OLInv

-----------------------------------------------------------------------------
(* The steps of the I/O thread that leave the work of the link alone *)

\* The thread moves on within its item, or without one.
LEMMA ThreadInv ==
    ASSUME NEW n, NEW l, NEW io, Inv(n, l, io), NEW m, SameWork(l, m),
           NEW j \in ThreadRecord, j.work = io.work, j.count = io.count,
           Working(l.undelivered, l.item, j)
    PROVE  Inv(n, m, j)
  BY Zenon DEF Inv, SameWork, Live

\* As a step of the specification.
LEMMA ThreadOK ==
    ASSUME OLInv, olcf' = olcf, Queue(olq'), SameWork(ol, ol'),
           olio' \in ThreadRecord, olio'.work = olio.work, olio'.count = olio.count,
           Working(ol.undelivered, ol.item, olio'),
           DOMAIN olpn' = ProtonFields, olpn'.credit \in Int
    PROVE  OLInv'
  BY ThreadInv, SMTT(30) DEF OLInv

\* The link as it is.
LEMMA SameLink ==
    ASSUME OLInv
    PROVE  SameWork(ol, ol) /\ olio \in ThreadRecord /\ Working(ol.undelivered, ol.item, olio)
  BY Zenon DEF OLInv, Inv, SameWork

\* The thread is done with the deliveries of its item.
LEMMA PutIO ==
    ASSUME OLInv, olio.work # 0, NEW j \in ThreadRecord,
           j.pc = "put", j.work = olio.work, j.count = olio.count
    PROVE  Working(ol.undelivered, ol.item, j)
  BY SameLink DEF Working

\* The thread has no item.
LEMMA FreeIO ==
    ASSUME OLInv, olio.work = 0, NEW j \in ThreadRecord,
           j.pc \in {"idle", "take", "end", "complete", "gone"},
           j.work = olio.work, j.count = olio.count
    PROVE  Working(ol.undelivered, ol.item, j)
  BY SameLink DEF Working

\* qdr_connection_process begins.
LEMMA ProcessOK ==
    ASSUME OLInv, Process
    PROVE  OLInv'
  <1>1. SameWork(ol, ol')
    BY DEF Process, OLInv, Inv, SameWork, LinkFields
  <1>2. olio.work = 0 /\ olio.pc = "idle"
    BY SameLink DEF Process, Working
  <1>3. /\ olio' \in ThreadRecord /\ olio'.pc \in {"idle", "take"}
        /\ olio'.work = olio.work /\ olio'.count = olio.count
    BY <1>2, SameLink, Zenon DEF Process, ThreadRecord
  <1>4. Working(ol.undelivered, ol.item, olio')
    BY <1>2, <1>3, FreeIO, SMTT(30)
  <1> QED
    BY <1>1, <1>3, <1>4, ThreadOK, SMTT(30) DEF Process, OLInv

\* CORE_link_push: the credit is bounded by what the item stands for.
LEMMA PushOK ==
    ASSUME OLInv, CORE_link_push
    PROVE  OLInv'
  <1> DEFINE value == ol.item[olio.work].value
             credit == IF olpn.credit > value THEN value ELSE olpn.credit
  <1>1. olio \in ThreadRecord /\ olio.pc = "work" /\ olio.work # 0 /\ olio.count = 0
    BY SameLink, SMTT(30) DEF CORE_link_push, Working
  <1>2. value \in Nat /\ olpn.credit \in Int /\ ol.item[olio.work].kind = "delivery"
    BY <1>1, SMTT(30) DEF CORE_link_push, OLInv, Inv, Items, ItemRecord
  <1>3. credit <= value /\ credit \in Int
    BY <1>2, SMTT(30)
  <1>4. \/ olio' = [olio EXCEPT !.pc = "send", !.credit = credit] /\ credit > 0
        \/ olio' = [olio EXCEPT !.pc = "put"]
    BY DEF CORE_link_push
  <1> HIDE DEF credit, value
  <1>5. /\ olio' \in ThreadRecord /\ olio'.work = olio.work /\ olio'.count = 0
        /\ \/ olio'.pc = "send" /\ olio'.credit = credit
           \/ olio'.pc = "put"
    <2>1. CASE olio' = [olio EXCEPT !.pc = "send", !.credit = credit] /\ credit > 0
      <3>1. credit \in Nat
        BY <1>3, <2>1
      <3> QED
        BY <1>1, <2>1, <3>1, Zenon DEF ThreadRecord
    <2>2. CASE olio' = [olio EXCEPT !.pc = "put"]
      BY <1>1, <2>2, SMTT(30) DEF ThreadRecord
    <2> QED
      BY <1>4, <2>1, <2>2, SMTT(30)
  <1>6. Working(ol.undelivered, ol.item, olio')
    BY <1>1, <1>2, <1>3, <1>5, SMTT(30) DEF Working, value
  <1> QED
    BY <1>1, <1>5, <1>6, SameLink, ThreadOK, ZenonT(40) DEF CORE_link_push, OLInv

\* The next delivery is the head of the undelivered list.
LEMMA NextDeliveryOK ==
    ASSUME OLInv, NextDelivery
    PROVE  OLInv'
  <1>1. olio \in ThreadRecord /\ olio.pc = "send" /\ olio.work # 0
    BY SameLink DEF NextDelivery, Working
  <1>2. CASE olio.credit > 0 /\ ol.undelivered # {}
    <2>1. ol.undelivered \in SUBSET Nat
      BY DEF OLInv, Inv
    <2>2. Min(ol.undelivered) \in Nat
      BY <1>2, <2>1, LowestOf
    <2>3. olio' = [olio EXCEPT !.pc = "deliver", !.dlv = Min(ol.undelivered)]
      BY <1>2 DEF NextDelivery, DlvHead
    <2>4. /\ olio' \in ThreadRecord /\ olio'.work = olio.work /\ olio'.count = olio.count
          /\ olio'.pc = "deliver" /\ olio'.dlv = Min(ol.undelivered)
          /\ olio'.credit = olio.credit
      BY <1>1, <2>2, <2>3, Zenon DEF ThreadRecord
    <2>5. Working(ol.undelivered, ol.item, olio')
      BY <1>1, <1>2, <2>4, SameLink, SMTT(30) DEF Working
    <2> QED
      BY <2>4, <2>5, SameLink, ThreadOK, SMTT(30) DEF NextDelivery, OLInv
  <1>3. CASE ~(olio.credit > 0 /\ ol.undelivered # {})
    <2>1. /\ olio' \in ThreadRecord /\ olio'.work = olio.work /\ olio'.count = olio.count
          /\ olio'.pc = "put"
      BY <1>1, <1>3 DEF NextDelivery, ThreadRecord
    <2>2. Working(ol.undelivered, ol.item, olio')
      BY <1>1, <2>1, PutIO, SMTT(30)
    <2> QED
      BY <2>1, <2>2, SameLink, ThreadOK, SMTT(30) DEF NextDelivery, OLInv
  <1> QED
    BY <1>2, <1>3

\* CORE_link_deliver.
LEMMA DeliverOK ==
    ASSUME OLInv, Deliver
    PROVE  OLInv'
  <1>1. olio \in ThreadRecord /\ olio.pc = "deliver" /\ olio.work # 0
    BY SameLink DEF Deliver, Working
  <1>2. CASE olio.dlv \in ol.whole
    <2>1. /\ olio' \in ThreadRecord /\ olio'.work = olio.work /\ olio'.count = olio.count
          /\ olio'.pc = "sent" /\ olio'.dlv = olio.dlv /\ olio'.credit = olio.credit
      BY <1>1, <1>2, SMTT(30) DEF Deliver, ThreadRecord
    <2>2. Working(ol.undelivered, ol.item, olio')
      BY <1>1, <2>1, SameLink DEF Working
    <2>3. DOMAIN olpn' = ProtonFields /\ olpn'.credit \in Int
      <3>1. olpn' = [olpn EXCEPT !.credit = olpn.credit - 1, !.queued = olpn.queued + 1]
        BY <1>2 DEF Deliver
      <3>2. DOMAIN olpn = ProtonFields /\ olpn.credit \in Int
        BY DEF OLInv
      <3> QED
        BY <3>1, <3>2 DEF ProtonFields
    <2> QED
      BY <2>1, <2>2, <2>3, SameLink, ThreadOK, SMTT(30) DEF Deliver, OLInv
  <1>3. CASE olio.dlv \notin ol.whole
    <2>1. /\ olio' \in ThreadRecord /\ olio'.work = olio.work /\ olio'.count = olio.count
          /\ olio'.pc = "put"
      <3>1. olio' = [olio EXCEPT !.pc = "put", !.dlv = 0]
        BY <1>3 DEF Deliver
      <3> QED
        BY <1>1, <3>1, Zenon DEF ThreadRecord
    <2>2. Working(ol.undelivered, ol.item, olio')
      BY <1>1, <2>1, PutIO, SMTT(30)
    <2> QED
      BY <1>3, <2>1, <2>2, SameLink, ThreadOK, SMTT(30) DEF Deliver, OLInv
  <1> QED
    BY <1>2, <1>3

\* The transport refuses more.
LEMMA StalledOK ==
    ASSUME OLInv, DeliverStalled
    PROVE  OLInv'
  <1>1. olio \in ThreadRecord /\ olio.pc = "deliver" /\ olio.work # 0
    BY SameLink DEF DeliverStalled, Working
  <1>2. /\ olio' \in ThreadRecord /\ olio'.work = olio.work /\ olio'.count = olio.count
        /\ olio'.pc = "put"
    BY <1>1, ZenonT(40) DEF DeliverStalled, ThreadRecord
  <1>3. Working(ol.undelivered, ol.item, olio')
    BY <1>1, <1>2, PutIO
  <1>4. SameWork(ol, ol')
    BY DEF DeliverStalled, OLInv, Inv, SameWork, LinkFields
  <1>5. DOMAIN olpn' = ProtonFields /\ olpn'.credit \in Int
    BY DEF DeliverStalled, OLInv, ProtonFields
  <1> QED
    BY <1>2, <1>3, <1>4, <1>5, ThreadOK, SMTT(30) DEF DeliverStalled, OLInv

\* CORE_link_drained.
LEMMA DrainedOK ==
    ASSUME OLInv, CORE_link_drained
    PROVE  OLInv'
  <1>1. olio \in ThreadRecord /\ olio.pc = "work" /\ olio.work # 0
    BY SameLink DEF CORE_link_drained, Working
  <1>2. /\ olio' \in ThreadRecord /\ olio'.work = olio.work /\ olio'.count = olio.count
        /\ olio'.pc = "put"
    BY <1>1 DEF CORE_link_drained, ThreadRecord
  <1>3. Working(ol.undelivered, ol.item, olio')
    BY <1>1, <1>2, PutIO, SMTT(30)
  <1>4. SameWork(ol, ol')
    BY SameLink, ZenonT(40) DEF CORE_link_drained, OLInv, Inv, SameWork, LinkFields
  <1>5. DOMAIN olpn' = ProtonFields /\ olpn'.credit \in Int
    BY DEF CORE_link_drained, OLInv, ProtonFields
  <1> QED
    BY <1>2, <1>3, <1>4, <1>5, ThreadOK, SMTT(30) DEF CORE_link_drained, OLInv

\* CORE_link_detach.
LEMMA DetachOK ==
    ASSUME OLInv, CORE_link_detach
    PROVE  OLInv'
  <1>1. olio \in ThreadRecord /\ olio.pc = "work" /\ olio.work # 0
    BY SameLink DEF CORE_link_detach, Working
  <1>2. /\ olio' \in ThreadRecord /\ olio'.work = olio.work /\ olio'.count = olio.count
        /\ olio'.pc = "put"
    BY <1>1, ZenonT(40) DEF CORE_link_detach, ThreadRecord
  <1>3. Working(ol.undelivered, ol.item, olio')
    BY <1>1, <1>2, PutIO
  <1>5. DOMAIN olpn' = ProtonFields /\ olpn'.credit \in Int
    BY DEF CORE_link_detach, OLInv, ProtonFields
  <1> QED
    BY <1>2, <1>3, <1>5, SameLink, ThreadOK DEF CORE_link_detach, OLInv

\* The end of qdr_connection_process.
LEMMA EndOK ==
    ASSUME OLInv, End
    PROVE  OLInv'
  <1>1. olio \in ThreadRecord /\ olio.pc = "end" /\ olio.work = 0
    BY SameLink DEF End, Working
  <1>2. /\ olio' \in ThreadRecord /\ olio'.work = olio.work /\ olio'.count = olio.count
        /\ olio'.pc = "complete"
    BY <1>1, Zenon DEF End, ThreadRecord
  <1>3. Working(ol.undelivered, ol.item, olio')
    BY <1>1, <1>2, FreeIO, SMTT(30)
  <1>4. Queue(olq')
    <2>1. [op |-> "detach_sent"].op \in Ops
      BY DEF Ops
    <2> QED
      BY <2>1, QueueOne, QueueJoin, SMTT(30) DEF End, OLInv
  <1> QED
    BY <1>2, <1>3, <1>4, SameLink, ThreadOK, SMTT(30) DEF End, OLInv

\* The link is no longer being processed.
LEMMA CompleteOK ==
    ASSUME OLInv, Complete
    PROVE  OLInv'
  <1>1. olio \in ThreadRecord /\ olio.pc = "complete" /\ olio.work = 0
    BY SameLink DEF Complete, Working
  <1>2. /\ olio' \in ThreadRecord /\ olio'.work = olio.work /\ olio'.count = olio.count
        /\ olio'.pc = "idle"
    BY <1>1, Zenon DEF Complete, ThreadRecord
  <1>3. Working(ol.undelivered, ol.item, olio')
    BY <1>1, <1>2, FreeIO
  <1>4. Queue(olq')
    <2>1. [op |-> "processing_complete"].op \in Ops
      BY DEF Ops
    <2> QED
      BY <2>1, QueueOne, QueueJoin DEF Complete, OLInv
  <1>5. SameWork(ol, ol')
    BY DEF Complete, OLInv, Inv, SameWork, LinkFields
  <1> QED
    BY <1>2, <1>3, <1>4, <1>5, ThreadOK, SMTT(30) DEF Complete, OLInv

\* The consumer gives credit, or asks for a drain or ends one.
LEMMA ConsumerFlowOK ==
    ASSUME OLInv, NEW k \in {0, 1, 2}, NEW drain, ConsumerFlow(k, drain)
    PROVE  OLInv'
  <1> DEFINE p == [olpn EXCEPT !.credit = @ + k, !.given = @ + k, !.drain = drain,
                               !.drains = IF drain THEN @ + 1 ELSE @]
  <1>1. olpn' = p /\ qdr_link_flow(p) /\ UNCHANGED <<olcf, olio>>
    BY DEF ConsumerFlow
  <1>2. DOMAIN olpn = ProtonFields /\ olpn.credit \in Int
    BY DEF OLInv
  <1>3. DOMAIN p = ProtonFields /\ p.credit \in Int
    BY <1>2 DEF ProtonFields
  <1> HIDE DEF p
  <1>4. PICK a : olq' = Append(olq, a) /\ a.op = "flow"
    BY <1>1 DEF qdr_link_flow
  <1>5. Queue(olq')
    BY <1>4, QueueAppend DEF OLInv, Ops
  <1>6. SameWork(ol, ol')
    BY <1>1 DEF qdr_link_flow, OLInv, Inv, SameWork, LinkFields
  <1> QED
    BY <1>1, <1>3, <1>5, <1>6, SameLink, ThreadOK, SMTT(30) DEF OLInv

\* Proton has written what was queued.
LEMMA WrittenOK ==
    ASSUME OLInv, Written
    PROVE  OLInv'
  <1> DEFINE p == [olpn EXCEPT !.queued = 0, !.q3 = FALSE]
  <1>1. /\ olpn' = p /\ UNCHANGED <<olcf, olio>>
        /\ qdr_link_flow(p) \/ UNCHANGED <<ol, olq>>
    BY DEF Written
  <1>2. DOMAIN olpn = ProtonFields /\ olpn.credit \in Int
    BY DEF OLInv
  <1>3. DOMAIN p = ProtonFields /\ p.credit \in Int
    BY <1>2, SMTT(30) DEF ProtonFields
  <1> HIDE DEF p
  <1>4. CASE UNCHANGED <<ol, olq>>
    BY <1>1, <1>3, <1>4, SameLink, ThreadOK, SMTT(30) DEF OLInv
  <1>5. CASE qdr_link_flow(p)
    <2>1. PICK a : olq' = Append(olq, a) /\ a.op = "flow"
      BY <1>5 DEF qdr_link_flow
    <2>2. Queue(olq')
      BY <2>1, QueueAppend, SMTT(30) DEF OLInv, Ops
    <2>3. SameWork(ol, ol')
      BY <1>5 DEF qdr_link_flow, OLInv, Inv, SameWork, LinkFields
    <2> QED
      BY <1>1, <1>3, <2>2, <2>3, SameLink, ThreadOK, SMTT(30) DEF OLInv
  <1> QED
    BY <1>1, <1>4, <1>5, SMTT(30)

\* The consumer detaches.
LEMMA ConsumerDetachOK ==
    ASSUME OLInv, ConsumerDetach
    PROVE  OLInv'
  <1>1. PICK a : olq' = Append(olq, a) /\ a.op = "detach"
    BY DEF ConsumerDetach
  <1>2. Queue(olq')
    BY <1>1, QueueAppend DEF OLInv, Ops
  <1>3. DOMAIN olpn' = ProtonFields /\ olpn'.credit \in Int
    BY SMTT(30) DEF ConsumerDetach, OLInv, ProtonFields
  <1> QED
    BY <1>2, <1>3, SameLink, ThreadOK, SMTT(30) DEF ConsumerDetach, OLInv

\* The connection is lost.
LEMMA LostOK ==
    ASSUME OLInv, ConnectionLost
    PROVE  OLInv'
  <1> DEFINE d == [op |-> "detach", dt |-> "lost"]
             c == [op |-> "connection_closed"]
             q == IF olpn.closed THEN <<>> ELSE <<d>>
  <1>1. olio \in ThreadRecord /\ olio.pc = "idle" /\ olio.work = 0
    BY SameLink DEF ConnectionLost, Working
  <1>2. /\ olio' \in ThreadRecord /\ olio'.work = olio.work /\ olio'.count = olio.count
        /\ olio'.pc = "gone"
    BY <1>1, Zenon DEF ConnectionLost, ThreadRecord
  <1>3. Working(ol.undelivered, ol.item, olio')
    BY <1>1, <1>2, FreeIO, SMTT(30)
  <1>4. d.op \in Ops /\ c.op \in Ops /\ Queue(olq)
    BY DEF Ops, OLInv
  <1>5. olq' = (olq \o q) \o <<c>>
    BY DEF ConnectionLost
  <1> HIDE DEF d, c
  <1>6. Queue(q) /\ Queue(<<c>>)
    BY <1>4, QueueOne, SMTT(30)
  <1> HIDE DEF q
  <1>7. Queue(olq')
    BY <1>4, <1>5, <1>6, QueueJoin, SMTT(30)
  <1>8. DOMAIN olpn' = ProtonFields /\ olpn'.credit \in Int
    BY DEF ConnectionLost, OLInv, ProtonFields
  <1> QED
    BY <1>2, <1>3, <1>7, <1>8, SameLink, ThreadOK, SMTT(30) DEF ConnectionLost, OLInv

-----------------------------------------------------------------------------
(* The steps of the I/O thread that take an item, finish it or put it back *)

\* The thread without an item.
Idle(io) == [io EXCEPT !.pc = "take", !.work = 0, !.count = 0]

\* The next item is taken, or there is none.
LEMMA TakenInv ==
    ASSUME NEW n \in Nat, NEW l, NEW io \in ThreadRecord, Inv(n, l, Idle(io))
    PROVE  Inv(n, Taken(l, io).l, Taken(l, io).io)
  <1> DEFINE i == Idle(io)
             wl == l.work_list
  <1>1. i \in ThreadRecord /\ i.pc = "take" /\ i.work = 0 /\ i.count = 0
    BY Zenon DEF Idle, ThreadRecord
  <1> HIDE DEF i
  <1>2. CASE wl = <<>>
    <2> DEFINE j == [io EXCEPT !.pc = "end", !.work = 0, !.count = 0]
    <2>1. Taken(l, io).l = l /\ Taken(l, io).io = j
      BY <1>2 DEF Taken
    <2>2. j \in ThreadRecord /\ j.pc = "end" /\ j.work = i.work /\ j.count = i.count
      BY <1>1, Zenon DEF ThreadRecord
    <2> HIDE DEF j
    <2>3. Working(l.undelivered, l.item, j)
      BY <1>1, <2>2, SMTT(30) DEF Working
    <2>4. Inv(n, l, i) /\ SameWork(l, l)
      BY DEF i, Inv, SameWork
    <2>5. Inv(n, l, j)
      BY <2>2, <2>3, <2>4, ThreadInv, SMTT(30)
    <2> QED
      BY <2>1, <2>5, SMTT(30)
  <1>3. CASE wl # <<>>
    <2> DEFINE w == Head(wl)
               it == [l.item EXCEPT ![w].processing = TRUE]
               m == [l EXCEPT !.work_list = Tail(wl), !.item = it]
               j == [io EXCEPT !.pc = "work", !.work = w, !.count = 0]
    <2>1. Inv(n, l, i) /\ DOMAIN l = LinkFields
      BY Zenon DEF i, Inv
    <2>2. Taken(l, io).l = m /\ Taken(l, io).io = j
      BY <1>3, <2>1, SMTT(30) DEF Taken, LinkFields
    <2>3. Items(wl, l.item, 0)
      BY <1>1, <2>1, SMTT(30) DEF Inv
    <2>4. w \in DOMAIN l.item /\ Items(Tail(wl), it, w)
      BY <1>3, <2>3, ItemsTaken, SMTT(30)
    <2>5. w \in Names /\ w # 0 /\ it[w].value \in Nat
      BY <2>3, <2>4, Zenon DEF Items, ItemRecord, Names
    <2>6. j \in ThreadRecord /\ j.pc = "work" /\ j.work = w /\ j.count = 0
      BY <2>5, ZenonT(40) DEF ThreadRecord, Names
    <2> HIDE DEF it
    <2>7. /\ DOMAIN m = LinkFields /\ m.work_list = Tail(wl) /\ m.item = it
          /\ m.undelivered = l.undelivered /\ m.link_work = l.link_work
          /\ m.forwarded = l.forwarded
          /\ m.alive = l.alive /\ m.detach_received = l.detach_received /\ m.bound = l.bound
      BY <2>1, SMTT(30) DEF LinkFields
    <2> HIDE DEF m, j
    <2>8. Working(m.undelivered, m.item, j)
      BY <2>5, <2>6, <2>7, SMTT(30) DEF Working
    <2>9. ASSUME Live(l)
          PROVE  Consistent(n, l.undelivered, l.link_work, Tail(wl), it, l.forwarded, w, 0)
      <3>1. Consistent(n, l.undelivered, l.link_work, wl, l.item, l.forwarded, 0, 0)
        BY <1>1, <2>1, <2>9, LiveConsistent
      <3> QED
        BY <1>3, <3>1, TakenConsistent, ZenonT(40) DEF it
    <2>10. Live(m) =>
             /\ Linked(n, m.undelivered, m.link_work, m.work_list, m.item, m.forwarded,
                       j.work, j.count)
             /\ Ordered(m.undelivered, m.link_work, m.work_list, m.item, j.work)
      BY <2>6, <2>7, <2>9, SMTT(30) DEF Live, Consistent
    <2>11. Items(m.work_list, m.item, j.work)
      BY <2>4, <2>6, <2>7, SMTT(30)
    <2>12. Inv(n, m, j)
      BY <2>1, <2>6, <2>7, <2>8, <2>10, <2>11, ZenonT(40) DEF Inv
    <2> QED
      BY <2>2, <2>12, SMTT(30)
  <1> QED
    BY <1>2, <1>3, SMTT(30)

\* The I/O thread takes its first item.
LEMMA TakeOK ==
    ASSUME OLInv, Take
    PROVE  OLInv'
  <1>1. olio \in ThreadRecord /\ olio.pc = "take" /\ olio.work = 0 /\ olio.count = 0
    BY SameLink DEF Take, Working
  <1>2. Idle(olio) = olio
    BY <1>1, Zenon DEF Idle, ThreadRecord
  <1>3. Inv(olcf.n, Taken(ol, olio).l, Taken(ol, olio).io)
    BY <1>1, <1>2, TakenInv, SMTT(30) DEF OLInv, OLConfig
  <1> QED
    BY <1>3, SMTT(30) DEF Take, OLInv

\* The work on an item ends.  What is left of a delivery item goes back to the head of
\* the list ...
LEMMA PutBackInv ==
    ASSUME NEW n \in Nat, NEW l, NEW io, Inv(n, l, io), io.work # 0,
           NEW value \in Nat, value = l.item[io.work].value - io.count,
           NEW j \in ThreadRecord, j.pc = "end", j.work = 0, j.count = 0
    PROVE  Inv(n, PutBack(l, io.work, value), j)
  <1> DEFINE w == io.work
             wl == l.work_list
             it == [l.item EXCEPT ![w].value = value, ![w].processing = FALSE]
             m == PutBack(l, w, value)
  <1>1. DOMAIN l = LinkFields /\ Items(wl, l.item, w)
    BY DEF Inv
  <1>2. /\ DOMAIN m = LinkFields /\ m.work_list = <<w>> \o wl
        /\ m.undelivered = l.undelivered /\ m.link_work = l.link_work
        /\ m.forwarded = l.forwarded
        /\ m.alive = l.alive /\ m.detach_received = l.detach_received /\ m.bound = l.bound
    BY <1>1 DEF PutBack, LinkFields
  <1>10. m.item = it
    BY <1>1 DEF PutBack, LinkFields
  <1>3. Items(<<w>> \o wl, it, 0)
    BY <1>1, ItemsPutBack, Zenon
  <1> HIDE DEF m
  <1>4. ASSUME Live(l)
        PROVE  Consistent(n, l.undelivered, l.link_work, <<w>> \o wl, it, l.forwarded, 0, 0)
    <2>1. Consistent(n, l.undelivered, l.link_work, wl, l.item, l.forwarded, w, io.count)
      BY <1>4, LiveConsistent, SMTT(30)
    <2> QED
      BY <2>1, PutBackConsistent, ZenonT(40)
  <1> HIDE DEF it
  <1>5. /\ DOMAIN m = LinkFields /\ m.work_list = <<w>> \o wl /\ m.item = it
        /\ m.undelivered = l.undelivered /\ m.link_work = l.link_work
        /\ m.forwarded = l.forwarded
        /\ m.alive = l.alive /\ m.detach_received = l.detach_received /\ m.bound = l.bound
    BY <1>2, <1>10, SMTT(30)
  <1>6. Working(m.undelivered, m.item, j)
    BY SMTT(30) DEF Working
  <1>7. Live(m) => /\ Linked(n, m.undelivered, m.link_work, m.work_list, m.item, m.forwarded,
                             j.work, j.count)
                   /\ Ordered(m.undelivered, m.link_work, m.work_list, m.item, j.work)
    BY <1>4, <1>5, SMTT(30) DEF Live, Consistent
  <1>8. Items(m.work_list, m.item, j.work)
    BY <1>3, <1>5, SMTT(30)
  <1>9. Inv(n, m, j)
    BY <1>5, <1>6, <1>7, <1>8, ZenonT(40) DEF Inv
  <1> QED
    BY <1>9, SMTT(30) DEF m

\* ... and one that is finished is freed.
LEMMA FinishedInv ==
    ASSUME NEW l, NEW io, olcf.n \in Nat, Inv(olcf.n, l, io), io.work # 0,
           NEW value \in Nat, value = l.item[io.work].value - io.count,
           ~(l.item[io.work].kind = "delivery" /\ value > 0 /\ ~l.detach_received)
    PROVE  Inv(olcf.n, Released([l EXCEPT !.item[io.work].value = value,
                                          !.item[io.work].processing = FALSE]), Idle(io))
  <1> DEFINE n == olcf.n
             w == io.work
             wl == l.work_list
             lw == l.link_work
             it == [l.item EXCEPT ![w].value = value, ![w].processing = FALSE]
             k == [l EXCEPT !.item = it]
             j == Idle(io)
             m == Released(k)
  <1>1. DOMAIN l = LinkFields /\ Items(wl, l.item, w) /\ io \in ThreadRecord
    BY Zenon DEF Inv
  <1>2. k = [l EXCEPT !.item[w].value = value, !.item[w].processing = FALSE]
    BY <1>1, ZenonT(40) DEF LinkFields
  <1>3. /\ DOMAIN k = LinkFields /\ k.work_list = wl /\ k.item = it
        /\ k.undelivered = l.undelivered /\ k.link_work = lw
        /\ k.forwarded = l.forwarded
        /\ k.alive = l.alive /\ k.detach_received = l.detach_received /\ k.bound = l.bound
    BY <1>1 DEF LinkFields
  <1>4. Items(wl, it, 0)
    BY <1>1, ItemsFinished, Zenon
  <1>5. ASSUME Live(l)
        PROVE  Consistent(n, l.undelivered, lw, wl, Restrict(it, Used(n, lw, wl, it)),
                          l.forwarded, 0, 0)
    <2>1. Consistent(n, l.undelivered, lw, wl, l.item, l.forwarded, w, io.count)
      BY <1>5, LiveConsistent, SMTT(30)
    <2>2. l.item[w].kind = "delivery" => value = 0
      BY <1>5, SMTT(30) DEF Live
    <2>3. it = [l.item EXCEPT ![w].value = value, ![w].processing = FALSE]
      BY SMTT(30)
    <2> HIDE DEF it
    <2> QED
      BY <2>1, <2>2, <2>3, FinishedConsistent, ZenonT(40)
  <1> HIDE DEF it, k
  <1>6. /\ DOMAIN m = LinkFields /\ m.item = Restrict(it, Used(n, lw, wl, it))
        /\ m.undelivered = l.undelivered /\ m.link_work = lw
        /\ m.work_list = wl /\ m.forwarded = l.forwarded
        /\ m.alive = l.alive /\ m.detach_received = l.detach_received /\ m.bound = l.bound
    BY <1>3, ReleasedFields, Zenon
  <1> HIDE DEF m
  <1>7. Items(wl, Restrict(it, Used(n, lw, wl, it)), 0)
    <2>1. Used(n, lw, wl, it) \in SUBSET DOMAIN it
      BY SMTT(30) DEF Used
    <2>2. \A i \in DOMAIN wl : wl[i] \in Used(n, lw, wl, it)
      BY <1>4 DEF Used, Items, Range
    <2> QED
      BY <1>4, <2>1, <2>2, ItemsFreed, SMTT(30)
  <1>8. j \in ThreadRecord /\ j.pc = "take" /\ j.work = 0 /\ j.count = 0
    BY <1>1, ZenonT(40) DEF Idle, ThreadRecord
  <1> HIDE DEF j
  <1>9. Working(m.undelivered, m.item, j)
    BY <1>8, SMTT(30) DEF Working
  <1>10. Live(m) => /\ Linked(n, m.undelivered, m.link_work, m.work_list, m.item, m.forwarded,
                              j.work, j.count)
                    /\ Ordered(m.undelivered, m.link_work, m.work_list, m.item, j.work)
    BY <1>5, <1>6, <1>8, Zenon DEF Live, Consistent
  <1>11. Items(m.work_list, m.item, j.work)
    BY <1>6, <1>7, <1>8, SMTT(30)
  <1>12. Inv(n, m, j)
    BY <1>6, <1>8, <1>9, <1>10, <1>11, ZenonT(40) DEF Inv
  <1> QED
    BY <1>2, <1>12, Zenon DEF m, j

\* The thread is done with an item.
LEMMA PutOK ==
    ASSUME OLInv, Put
    PROVE  OLInv'
  <1> DEFINE n == olcf.n
             w == olio.work
             value == ol.item[w].value - olio.count
             done == Released([ol EXCEPT !.item[w].value = value, !.item[w].processing = FALSE])
             back == ol.item[w].kind = "delivery" /\ value > 0 /\ ~ol.detach_received
             j == [olio EXCEPT !.pc = "end", !.work = 0, !.count = 0]
  <1>1. n \in Nat /\ Inv(n, ol, olio) /\ olio \in ThreadRecord /\ w # 0
    BY SameLink, Zenon DEF OLInv, OLConfig, Put, Working
  <1>2. value \in Nat
    BY <1>1, SMTT(30) DEF Inv, Working, Items, ItemRecord, ThreadRecord
  <1>3. j \in ThreadRecord /\ j.pc = "end" /\ j.work = 0 /\ j.count = 0
    BY <1>1, ZenonT(40) DEF ThreadRecord
  <1>4. CASE back
    <2>1. ol' = PutBack(ol, w, value) /\ olio' = j
      BY <1>4, SMTT(30) DEF Put
    <2> HIDE DEF j
    <2>2. Inv(n, PutBack(ol, w, value), j)
      BY <1>1, <1>2, <1>3, PutBackInv, SMTT(30)
    <2> QED
      BY <2>1, <2>2, ZenonT(40) DEF Put, OLInv
  <1>5. CASE ~back
    <2>1. ol' = Taken(done, olio).l /\ olio' = Taken(done, olio).io
      BY <1>5, ZenonT(40) DEF Put
    <2>2. Inv(n, done, Idle(olio))
      BY <1>1, <1>2, <1>5, FinishedInv, ZenonT(40)
    <2> HIDE DEF done
    <2>3. Inv(n, Taken(done, olio).l, Taken(done, olio).io)
      BY <1>1, <2>2, TakenInv, SMTT(30)
    <2> QED
      BY <2>1, <2>3, ZenonT(40) DEF Put, OLInv
  <1> QED
    BY <1>4, <1>5, SMTT(30)

\* A delivery has been sent, and the list was emptied meanwhile (DISPATCH-1153): the link
\* is being detached.
LEMMA SentEmptyInv ==
    ASSUME NEW n \in Nat, NEW l, NEW io, Inv(n, l, io), io.pc = "sent", l.undelivered = {},
           NEW m, SameWork(l, m),
           NEW j \in ThreadRecord, j.pc = "put", j.work = io.work, j.count = io.count + 1
    PROVE  Inv(n, m, j)
  <1>1. ~Live(l)
    BY SendingHead, SMTT(30)
  <1>2. io \in ThreadRecord /\ io.work # 0 /\ io.credit > 0
        /\ io.credit + io.count <= l.item[io.work].value
        /\ Items(l.work_list, l.item, io.work)
    BY ZenonT(40) DEF Inv, Working
  <1>3. io.count + 1 <= l.item[io.work].value
    BY <1>2, SMTT(30) DEF ThreadRecord, Items, ItemRecord
  <1>4. Working(l.undelivered, l.item, j)
    BY <1>2, <1>3, SMTT(30) DEF Working
  <1> QED
    BY <1>1, <1>2, <1>4, ZenonT(40) DEF Inv, SameWork, Live

\* Otherwise the delivery is the head of the list, and leaves it.
LEMMA SentHeadInv ==
    ASSUME NEW l, NEW io, olcf.n \in Nat, Inv(olcf.n, l, io), io.pc = "sent",
           l.undelivered # {},
           NEW k, DOMAIN k = LinkFields,
           k.undelivered = l.undelivered \ {Min(l.undelivered)},
           k.link_work = [l.link_work EXCEPT ![io.dlv] = 0],
           k.work_list = l.work_list, k.item = l.item, k.forwarded = l.forwarded,
           k.alive = l.alive, k.detach_received = l.detach_received, k.bound = l.bound,
           NEW j \in ThreadRecord, j.pc = "send", j.work = io.work,
           j.count = io.count + 1, j.credit = io.credit - 1
    PROVE  Inv(olcf.n, Released(k), j)
  <1> DEFINE n == olcf.n
             u == l.undelivered
             w == io.work
             wl == l.work_list
             it == l.item
             a == [l.link_work EXCEPT ![io.dlv] = 0]
             t == Restrict(it, Used(n, a, wl, it))
             m == Released(k)
  <1>1. /\ io \in ThreadRecord /\ w # 0 /\ io.credit > 0 /\ it[w].kind = "delivery"
        /\ io.credit + io.count <= it[w].value
        /\ Items(wl, it, w) /\ io.dlv = Min(u)
    BY ZenonT(40) DEF Inv, Working
  <1>2. w \in DOMAIN it /\ it[w].processing /\ it[w].value \in Nat
        /\ io.count \in Nat /\ io.credit \in Nat
    BY <1>1, Zenon DEF Items, ItemRecord, ThreadRecord
  <1>3. /\ DOMAIN m = LinkFields /\ m.item = t
        /\ m.undelivered = u \ {Min(u)} /\ m.link_work = a
        /\ m.work_list = wl /\ m.forwarded = l.forwarded
        /\ m.alive = l.alive /\ m.detach_received = l.detach_received /\ m.bound = l.bound
    BY ReleasedFields, SMTT(30)
  <1>4. Items(wl, t, w)
    <2>1. Used(n, a, wl, it) \in SUBSET DOMAIN it
      BY SMTT(30) DEF Used
    <2>2. \A i \in DOMAIN wl : wl[i] \in Used(n, a, wl, it)
      BY <1>1, Zenon DEF Used, Items, Range
    <2>3. w \in Used(n, a, wl, it)
      BY <1>2, SMTT(30) DEF Used
    <2> QED
      BY <1>1, <2>1, <2>2, <2>3, ItemsFreed, Zenon
  <1>5. t[w] = it[w]
    BY <1>2, Zenon DEF Used, Restrict
  <1>6. ASSUME Live(l)
        PROVE  Consistent(n, u \ {Min(u)}, a, wl, t, l.forwarded, w, io.count + 1)
    <2>1. Consistent(n, u, l.link_work, wl, it, l.forwarded, w, io.count)
      BY <1>6, LiveConsistent, SMTT(30)
    <2>2. io.count < it[w].value
      BY <1>1, <1>2, SMTT(30)
    <2>3. a = [l.link_work EXCEPT ![Min(u)] = 0]
      BY <1>1, Zenon
    <2> HIDE DEF a
    <2> QED
      BY <1>1, <2>1, <2>2, <2>3, SentConsistent, ZenonT(40)
  <1> HIDE DEF m, t, a
  <1>7. Working(m.undelivered, m.item, j)
    BY <1>1, <1>2, <1>3, <1>5, SMTT(30) DEF Working
  <1>8. Live(m) => /\ Linked(n, m.undelivered, m.link_work, m.work_list, m.item, m.forwarded,
                             j.work, j.count)
                   /\ Ordered(m.undelivered, m.link_work, m.work_list, m.item, j.work)
    BY <1>3, <1>6, Zenon DEF Live, Consistent
  <1>9. Items(m.work_list, m.item, j.work)
    BY <1>3, <1>4, SMTT(30)
  <1>10. m.undelivered \subseteq 1 .. n /\ m.alive
    BY <1>3, Zenon DEF Inv
  <1>11. Inv(n, m, j)
    BY <1>3, <1>7, <1>8, <1>9, <1>10, ZenonT(40) DEF Inv
  <1> QED
    BY <1>11, SMTT(30) DEF m

\* The thread counts a delivery it has sent.
LEMMA CountedIO ==
    ASSUME NEW i \in ThreadRecord, i.credit > 0, NEW p \in {"put", "send"}, NEW j,
           j = [[i EXCEPT !.count = @ + 1, !.credit = @ - 1, !.dlv = 0] EXCEPT !.pc = p]
    PROVE  /\ j \in ThreadRecord /\ j.pc = p /\ j.work = i.work
           /\ j.count = i.count + 1 /\ j.credit = i.credit - 1
  <1>1. PICK c \in Nat, e \in Nat : c = i.count + 1 /\ e = i.credit - 1
    BY DEF ThreadRecord
  <1> DEFINE a == [i EXCEPT !.count = c, !.credit = e, !.dlv = 0]
  <1>2. a \in ThreadRecord /\ a.work = i.work /\ a.count = c /\ a.credit = e
    BY Zenon DEF ThreadRecord
  <1>3. j = [a EXCEPT !.pc = p]
    BY <1>1
  <1> HIDE DEF a
  <1>4. j \in ThreadRecord /\ j.pc = p /\ j.work = i.work /\ j.count = c /\ j.credit = e
    BY <1>2, <1>3, ZenonT(40) DEF ThreadRecord
  <1> QED
    BY <1>1, <1>4, SMTT(30)

\* A delivery has been sent.
LEMMA SentOK ==
    ASSUME OLInv, Sent
    PROVE  OLInv'
  <1> DEFINE n == olcf.n
             l == [ol EXCEPT !.credit_to_core = @ - 1]
             io == [olio EXCEPT !.count = @ + 1, !.credit = @ - 1, !.dlv = 0]
  <1>1. /\ n \in Nat /\ Inv(n, ol, olio) /\ olio \in ThreadRecord /\ olio.pc = "sent"
        /\ olio.credit > 0 /\ DOMAIN ol = LinkFields
    BY SameLink, Zenon DEF OLInv, OLConfig, Inv, Sent, Working
  <1>2. olcf' = olcf /\ olq' = olq /\ olpn' = olpn
    BY SMTT(30) DEF Sent
  <1>3. CASE ol.undelivered = {}
    <2>1. ol' = l /\ olio' = [io EXCEPT !.pc = "put"]
      BY <1>3 DEF Sent
    <2>2. SameWork(ol, ol')
      BY <1>1, <2>1, SMTT(30) DEF SameWork, LinkFields
    <2>3. /\ olio' \in ThreadRecord /\ olio'.pc = "put" /\ olio'.work = olio.work
          /\ olio'.count = olio.count + 1
      BY <1>1, <2>1, CountedIO, ZenonT(40)
    <2>4. Inv(n, ol', olio')
      BY <1>1, <1>3, <2>2, <2>3, SentEmptyInv
    <2> QED
      BY <1>2, <2>4 DEF OLInv
  <1>4. CASE ol.undelivered # {}
    <2> DEFINE k == [l EXCEPT !.undelivered = @ \ {DlvHead(ol)}, !.link_work[olio.dlv] = 0]
    <2>1. ol' = Released(k) /\ olio' = [io EXCEPT !.pc = "send"]
      BY <1>4 DEF Sent
    <2>2. /\ DOMAIN k = LinkFields
          /\ k.undelivered = ol.undelivered \ {Min(ol.undelivered)}
          /\ k.link_work = [ol.link_work EXCEPT ![olio.dlv] = 0]
          /\ k.work_list = ol.work_list /\ k.item = ol.item /\ k.forwarded = ol.forwarded
          /\ k.alive = ol.alive /\ k.detach_received = ol.detach_received
          /\ k.bound = ol.bound
      BY <1>1 DEF LinkFields, DlvHead
    <2>3. /\ olio' \in ThreadRecord /\ olio'.pc = "send" /\ olio'.work = olio.work
          /\ olio'.count = olio.count + 1 /\ olio'.credit = olio.credit - 1
      BY <1>1, <2>1, CountedIO, ZenonT(40)
    <2> HIDE DEF k
    <2>4. Inv(n, Released(k), olio')
      BY <1>1, <1>4, <2>2, <2>3, SentHeadInv, SMTT(30)
    <2> QED
      BY <1>2, <2>1, <2>4, SMTT(30) DEF OLInv
  <1> QED
    BY <1>3, <1>4, SMTT(30)

-----------------------------------------------------------------------------
(* The theorem *)

\* A new link has no work.
LEMMA InitOK ==
    ASSUME OLInit
    PROVE  OLInv
  <1>1. olcf \in OLConfig /\ olcf.n \in Nat
    BY OLAssumption, Zenon DEF OLInit, OLConfig
  <1>2. Queue(olq)
    BY SMTT(30) DEF OLInit, Queue, Range
  <1>3. DOMAIN olpn = ProtonFields /\ olpn.credit \in Int
    BY SMTT(30) DEF OLInit, ProtonFields
  <1>4. /\ DOMAIN ol = LinkFields /\ ol.undelivered = {} /\ ol.work_list = <<>>
        /\ ol.item = [w \in {} |-> 0] /\ ol.forwarded = 0
        /\ ol.link_work = [d \in 1 .. olcf.n |-> 0]
        /\ ol.alive = TRUE /\ ol.bound = TRUE /\ ol.detach_received = FALSE
    BY Zenon DEF OLInit, LinkFields, Dlv
  <1>5. /\ olio \in ThreadRecord /\ olio.pc = "idle" /\ olio.work = 0 /\ olio.count = 0
    BY Zenon DEF OLInit, ThreadRecord
  <1>6. DOMAIN ol.item = {}
    BY <1>4, SMTT(30)
  <1>7. Items(ol.work_list, ol.item, olio.work)
    BY <1>4, <1>5, <1>6, FS_EmptySet, SMTT(30) DEF Items
  <1>8. Working(ol.undelivered, ol.item, olio)
    BY <1>5, SMTT(30) DEF Working
  <1>9. Linked(olcf.n, ol.undelivered, ol.link_work, ol.work_list, ol.item, ol.forwarded,
               olio.work, olio.count)
    BY <1>1, <1>4, <1>6, SMTT(30) DEF Linked
  <1>10. Ordered(ol.undelivered, ol.link_work, ol.work_list, ol.item, olio.work)
    BY <1>4 DEF Ordered
  <1>11. /\ ol.alive \in BOOLEAN /\ ol.bound \in BOOLEAN /\ ol.detach_received \in BOOLEAN
         /\ ol.alive /\ ~ol.detach_received
    BY <1>4, Zenon
  <1>12. ol.forwarded \in Nat /\ ol.undelivered \subseteq 1 .. olcf.n /\ DOMAIN ol = LinkFields
    BY <1>4, SMTT(30)
  <1>13. Inv(olcf.n, ol, olio)
    BY <1>5, <1>7, <1>8, <1>9, <1>10, <1>11, <1>12, Zenon DEF Inv
  <1> QED
    BY <1>1, <1>2, <1>3, <1>13, SMTT(30) DEF OLInv

\* Every step of either thread, of proton and of the consumer keeps the work of the link.
LEMMA NextOK ==
    ASSUME OLInv, [OLNext]_olvars
    PROVE  OLInv'
  <1>1. CASE qdr_forward_deliver_CT
    BY <1>1, ForwardOK, SMTT(30)
  <1>2. CASE \E d \in Dlv : qdr_delivery_continue_peers_CT(d)
    <2>1. PICK d \in Dlv : qdr_delivery_continue_peers_CT(d)
      BY <1>2, SMTT(30)
    <2> QED
      BY <2>1, ContinueOK
  <1>3. CASE RouterDetach
    BY <1>3, RouterDetachOK
  <1>4. CASE CoreStep
    BY <1>4, FlowReadOK, FlowOK, CoreActionOK, SMTT(30) DEF CoreStep
  <1>5. CASE Process
    BY <1>5, ProcessOK
  <1>6. CASE IOStep
    <2>1. CASE Take \/ Put \/ End \/ Complete
      BY <2>1, TakeOK, PutOK, EndOK, CompleteOK, SMTT(30)
    <2>2. CASE CORE_link_push \/ NextDelivery \/ Deliver \/ DeliverStalled \/ Sent
      BY <2>2, PushOK, NextDeliveryOK, DeliverOK, StalledOK, SentOK, SMTT(30)
    <2>3. CASE CORE_link_drained \/ CORE_link_detach
      BY <2>3, DrainedOK, DetachOK, SMTT(30)
    <2> QED
      BY <1>6, <2>1, <2>2, <2>3, SMTT(30) DEF IOStep
  <1>7. CASE \E k \in {0, 1, 2}, drain \in BOOLEAN : ConsumerFlow(k, drain)
    <2>1. PICK k \in {0, 1, 2}, drain \in BOOLEAN : ConsumerFlow(k, drain)
      BY <1>7, SMTT(30)
    <2> QED
      BY <2>1, ConsumerFlowOK, SMTT(30)
  <1>8. CASE Written
    BY <1>8, WrittenOK
  <1>9. CASE ConsumerDetach
    BY <1>9, ConsumerDetachOK
  <1>10. CASE ConnectionLost
    BY <1>10, LostOK
  <1>11. CASE UNCHANGED olvars
    BY <1>11 DEF olvars, OLInv
  <1> QED
    BY <1>1, <1>2, <1>3, <1>4, <1>5, <1>6, <1>7, <1>8, <1>9, <1>10, <1>11, SMTT(30) DEF OLNext

\* While the link lives its items stand for its undelivered deliveries (WorkMatches).
LEMMA MatchesOK ==
    ASSUME OLInv
    PROVE  WorkMatches
  <1> SUFFICES ASSUME ol.alive, ~ol.detach_received,
                      NEW w \in DOMAIN ol.item, ol.item[w].kind = "delivery"
               PROVE  /\ ol.item[w].value - (IF olio.work = w THEN olio.count ELSE 0)
                            = Cardinality(Stands(w))
                      /\ Stands(w) \subseteq ol.undelivered
    BY SMTT(30) DEF WorkMatches
  <1>1. /\ Items(ol.work_list, ol.item, olio.work)
        /\ Linked(olcf.n, ol.undelivered, ol.link_work, ol.work_list, ol.item, ol.forwarded,
                  olio.work, olio.count)
    BY Zenon DEF OLInv, Inv, Live
  <1>2. Stands(w) = Held(olcf.n, ol.link_work, w)
    BY SMTT(30) DEF Stands, Held, Dlv
  <1>3. w # 0
    BY <1>1, SMTT(30) DEF Items, Names
  <1>4. ol.item[w].value - (IF olio.work = w THEN olio.count ELSE 0) = Cardinality(Stands(w))
    BY <1>1, <1>2, Zenon DEF Linked
  <1>5. Stands(w) \subseteq ol.undelivered
    BY <1>1, <1>2, <1>3, SMTT(30) DEF Linked, Held
  <1> QED
    BY <1>4, <1>5, SMTT(30)

\* A drain is answered behind the older deliveries (DrainAfterOlder): those that are left
\* refer to items behind the one of the drain.
LEMMA DrainOK ==
    ASSUME OLInv
    PROVE  DrainAfterOlder
  <1> DEFINE w == olio.work
  <1> SUFFICES ASSUME olio.pc = "work", ol.item[w].kind = "flow", ~ol.detach_received,
                      NEW d \in ol.undelivered
               PROVE  d > ol.item[w].after
    BY SMTT(30) DEF DrainAfterOlder
  <1>1. Inv(olcf.n, ol, olio) /\ olcf.n \in Nat
    BY SMTT(30) DEF OLInv, OLConfig
  <1>2. Live(ol)
    BY <1>1, Zenon DEF Inv, Live
  <1>3. /\ Items(ol.work_list, ol.item, w)
        /\ Linked(olcf.n, ol.undelivered, ol.link_work, ol.work_list, ol.item, ol.forwarded,
                  w, olio.count)
        /\ Ordered(ol.undelivered, ol.link_work, ol.work_list, ol.item, w)
    BY <1>1, <1>2, Zenon DEF Inv
  <1>4. w # 0
    BY <1>1, Zenon DEF Inv, Working
  <1>5. w \in DOMAIN ol.item /\ ol.item[w].after \in Nat /\ d \in Nat
    <2>1. w \in DOMAIN ol.item /\ ol.item \in [DOMAIN ol.item -> ItemRecord]
      BY <1>3, <1>4, Zenon DEF Items
    <2>2. ol.item[w] \in ItemRecord
      BY <2>1, Zenon
    <2>3. ol.undelivered \subseteq 1 .. olcf.n
      BY <1>1, Zenon DEF Inv
    <2>4. d \in Nat
      BY <1>1, <2>3
    <2>5. ol.item[w].after \in Nat
      BY <2>2 DEF ItemRecord
    <2> QED
      BY <2>1, <2>4, <2>5, Zenon
  <1>6. PICK i \in DOMAIN ol.work_list : ol.work_list[i] = ol.link_work[d]
    BY <1>3, Zenon DEF Linked
  <1>7. Ahead(ol.work_list, w, w, ol.link_work[d])
    BY <1>4, <1>6, SMTT(30) DEF Ahead
  <1>8. ol.item[w].after < d
    BY <1>3, <1>5, <1>7, Zenon DEF Ordered
  <1> QED
    BY <1>5, <1>8, SMTT(30)

\* OutLinkSound follows from the invariant.
LEMMA SoundOK ==
    ASSUME OLInv
    PROVE  OutLinkSound
  <1>1. SentIsHead
    BY SameLink DEF SentIsHead, Working, DlvHead
  <1> QED
    BY <1>1, MatchesOK, DrainOK, SMTT(30) DEF OutLinkSound, WorkExact

\* The core and the I/O thread agree on the work of an outgoing link (OutLinkSound), for
\* every number of deliveries, every capacity, every credit and number of drains, whichever
\* deliveries are settled or streaming, and however the link ends.
THEOREM WorkStaysExact == OLSpec => []OutLinkSound
  <1>1. OLInit => OLInv
    BY InitOK
  <1>2. OLInv /\ [OLNext]_olvars => OLInv'
    BY NextOK
  <1>3. OLInv => OutLinkSound
    BY SoundOK
  <1> QED
    BY <1>1, <1>2, <1>3, PTL DEF OLSpec

=============================================================================
