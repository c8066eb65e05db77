-------------------------- MODULE MobileSync_proofs --------------------------
(***************************************************************************)
(* Proofs about MobileSync.                                                *)
(***************************************************************************)
EXTENDS MobileSync, TLAPS

-----------------------------------------------------------------------------
(* The inductive invariant. *)

HistStartsEmpty == \A i \in 1..Len(hist) : Len(hist[i]) > 0 /\ hist[i][1] = {}

\* What the peers know and the two lists make up the addresses with consumers.
ListsExact ==
    /\ p.add \cap Published = {}
    /\ p.del \subseteq Published
    /\ Consumed(p) = (Published \ p.del) \cup p.add

\* Every update on its way says what the advertiser announced.
NetFaithful ==
    \A m \in net :
        /\ m.type = "diff" =>
             /\ m.inst = p.inst /\ m.seq \in 1..p.seq
             /\ hist[p.inst][m.seq + 1] = (hist[p.inst][m.seq] \cup m.add) \ m.del
        /\ m.type = "absolute" =>
             /\ m.inst = p.inst /\ m.seq \in 0..p.seq
             /\ m.exist = hist[p.inst][m.seq + 1]
        /\ m.type = "RA" => m.inst <= p.inst

\* No incarnation is heard of before it starts.
InstancesKnown ==
    /\ py.inst <= p.inst
    /\ \A i \in 1..Len(g) : g[i].kind = "RA" => g[i].inst <= p.inst

NodeMatches == Current => node.seq <= p.seq /\ node.map = hist[p.inst][node.seq + 1]

IInv ==
    /\ TypeOK /\ HistStartsEmpty /\ ListsExact /\ TrackedWhileListed
    /\ NetFaithful /\ InstancesKnown /\ NodeMatches

-----------------------------------------------------------------------------
Publisher == [inst : Nat \ {0}, seq : Nat, adv : Nat, changes : Nat,
              links : [Addr -> Nat], add : SUBSET Addr,
              del : SUBSET Addr, refs : [Addr -> Int]]

SameBut(s, t) ==
    /\ t \in Publisher
    /\ t.inst = s.inst /\ t.seq = s.seq /\ t.adv = s.adv

\* One of the changes of local destinations is used up.
LEMMA Spend ==
    ASSUME NEW s \in Publisher, s.changes > 0
    PROVE  LET t == [s EXCEPT !.changes = @ - 1]
           IN  /\ SameBut(s, t)
               /\ t.links = s.links /\ t.add = s.add /\ t.del = s.del /\ t.refs = s.refs
  <1>1. s.changes - 1 \in Nat
    BY DEF Publisher
  <1> QED BY <1>1 DEF Publisher, SameBut

\* qcm_mobile_sync_on_became_local_dest_CT touches the lists and references only.
LEMMA BecameLocal ==
    ASSUME NEW s \in Publisher, NEW a \in Addr
    PROVE  LET t == qcm_mobile_sync_on_became_local_dest_CT(s, a)
           IN  /\ SameBut(s, t)
               /\ t.links = s.links /\ t.changes = s.changes
               /\ t.add = IF a \in s.del THEN s.add ELSE s.add \cup {a}
               /\ t.del = IF a \in s.add THEN s.del ELSE s.del \ {a}
               /\ t.refs = IF a \in s.add \cup s.del THEN s.refs
                           ELSE [s.refs EXCEPT ![a] = @ + 1]
  <1> DEFINE t == qcm_mobile_sync_on_became_local_dest_CT(s, a)
  <1>1. CASE a \in s.add
    BY <1>1 DEF qcm_mobile_sync_on_became_local_dest_CT, Publisher, SameBut
  <1>2. CASE a \notin s.add /\ a \in s.del
    <2>1. t = [s EXCEPT !.del = @ \ {a}]
      BY <1>2 DEF qcm_mobile_sync_on_became_local_dest_CT
    <2> QED BY <1>2, <2>1 DEF Publisher, SameBut
  <1>3. CASE a \notin s.add /\ a \notin s.del
    <2> DEFINE u == [s EXCEPT !.add = @ \cup {a}]
    <2>1. u \in Publisher /\ u.refs = s.refs
      BY DEF Publisher
    <2>2. t = [u EXCEPT !.refs[a] = @ + 1]
      BY <1>3 DEF qcm_mobile_sync_on_became_local_dest_CT, StartTracking
    <2>3. t = [s EXCEPT !.add = @ \cup {a}, !.refs = [s.refs EXCEPT ![a] = @ + 1]]
      BY <2>1, <2>2 DEF Publisher
    <2>4. [s.refs EXCEPT ![a] = @ + 1] \in [Addr -> Int]
      BY DEF Publisher
    <2>5. s.del \ {a} = s.del
      BY <1>3
    <2>6. t \in Publisher
      <3> DEFINE r == [s.refs EXCEPT ![a] = @ + 1]
      <3>1. t = [u EXCEPT !.refs = r]
        BY <2>1, <2>2
      <3> HIDE DEF t, u, r
      <3>2. r \in [Addr -> Int] /\ u \in Publisher
        BY <2>1, <2>4 DEF r
      <3> QED BY <3>1, <3>2 DEF Publisher
    <2>7. /\ t.inst = s.inst /\ t.seq = s.seq /\ t.adv = s.adv
          /\ t.links = s.links /\ t.changes = s.changes /\ t.del = s.del
          /\ t.add = s.add \cup {a} /\ t.refs = [s.refs EXCEPT ![a] = @ + 1]
      BY <2>3 DEF Publisher
    <2> HIDE DEF t
    <2>8. SameBut(s, t)
      BY <2>6, <2>7 DEF SameBut
    <2> QED BY <1>3, <2>5, <2>7, <2>8 DEF t
  <1> QED BY <1>1, <1>2, <1>3

\* qcm_mobile_sync_on_no_longer_local_dest_CT touches the lists and references only.
LEMMA NoLongerLocal ==
    ASSUME NEW s \in Publisher, NEW a \in Addr
    PROVE  LET t == qcm_mobile_sync_on_no_longer_local_dest_CT(s, a)
           IN  /\ SameBut(s, t)
               /\ t.links = s.links /\ t.changes = s.changes
               /\ t.add = IF a \in s.del THEN s.add ELSE s.add \ {a}
               /\ t.del = IF a \in s.add THEN s.del ELSE s.del \cup {a}
               /\ t.refs = IF a \in s.add \ s.del THEN [s.refs EXCEPT ![a] = @ - 1]
                           ELSE s.refs
  <1> DEFINE t == qcm_mobile_sync_on_no_longer_local_dest_CT(s, a)
  <1>1. CASE a \in s.del
    BY <1>1 DEF qcm_mobile_sync_on_no_longer_local_dest_CT, Publisher, SameBut
  <1>2. CASE a \notin s.del /\ a \in s.add
    <2> DEFINE u == [s EXCEPT !.add = @ \ {a}]
    <2>1. u \in Publisher /\ u.refs = s.refs
      BY DEF Publisher
    <2>2. t = [u EXCEPT !.refs = [b \in Addr |-> IF b \in {a} THEN @[b] - 1 ELSE @[b]]]
      BY <1>2 DEF qcm_mobile_sync_on_no_longer_local_dest_CT, StopTracking
    <2>3. t = [s EXCEPT !.add = @ \ {a}, !.refs = [s.refs EXCEPT ![a] = @ - 1]]
      BY <2>1, <2>2, Zenon DEF Publisher
    <2>4. [s.refs EXCEPT ![a] = @ - 1] \in [Addr -> Int]
      BY DEF Publisher
    <2> QED BY <1>2, <2>3, <2>4, ZenonT(40) DEF Publisher, SameBut
  <1>3. CASE a \notin s.del /\ a \notin s.add
    <2>1. t = [s EXCEPT !.del = @ \cup {a}]
      BY <1>3 DEF qcm_mobile_sync_on_no_longer_local_dest_CT
    <2> QED BY <1>3, <2>1 DEF Publisher, SameBut
  <1> QED BY <1>1, <1>2, <1>3

\* A consumer comes: the address is new, comes back, or had consumers already.
LEMMA BindKeepsLists ==
    ASSUME TypeOK, ListsExact, TrackedWhileListed, NEW a \in Addr, p.changes > 0,
           p' = [BindLink(p, a) EXCEPT !.changes = @ - 1], UNCHANGED hist
    PROVE  SameBut(p, p') /\ ListsExact' /\ TrackedWhileListed'
  <1>1. /\ p \in Publisher
        /\ p.add \cap Published = {} /\ p.del \subseteq Published
        /\ \A b \in Addr : p.links[b] > 0 <=> b \in (Published \ p.del) \cup p.add
        /\ \A b \in Addr : p.refs[b] = IF b \in Published \cup p.add THEN 1 ELSE 0
    BY Zenon DEF TypeOK, Publisher, ListsExact, TrackedWhileListed, Consumed
  <1> DEFINE bound == [p EXCEPT !.links[a] = @ + 1]
  <1>2. /\ SameBut(p, bound) /\ bound.changes = p.changes
        /\ bound.links = [p.links EXCEPT ![a] = @ + 1]
        /\ bound.add = p.add /\ bound.del = p.del /\ bound.refs = p.refs
    BY <1>1 DEF Publisher, SameBut
  <1>3. /\ SameBut(p, p')
        /\ p'.links = [p.links EXCEPT ![a] = @ + 1]
        /\ p'.add = IF p.links[a] # 0 \/ a \in p.del THEN p.add ELSE p.add \cup {a}
        /\ p'.del = IF p.links[a] # 0 \/ a \in p.add THEN p.del ELSE p.del \ {a}
        /\ p'.refs = IF p.links[a] # 0 \/ a \in p.add \cup p.del THEN p.refs
                     ELSE [p.refs EXCEPT ![a] = @ + 1]
    <2> DEFINE u == BindLink(p, a)
    <2>1. /\ SameBut(p, u) /\ u.changes = p.changes
          /\ u.links = [p.links EXCEPT ![a] = @ + 1]
          /\ u.add = IF p.links[a] # 0 \/ a \in p.del THEN p.add ELSE p.add \cup {a}
          /\ u.del = IF p.links[a] # 0 \/ a \in p.add THEN p.del ELSE p.del \ {a}
          /\ u.refs = IF p.links[a] # 0 \/ a \in p.add \cup p.del THEN p.refs
                      ELSE [p.refs EXCEPT ![a] = @ + 1]
      <3>1. CASE p.links[a] = 0
        <4>1. u = qcm_mobile_sync_on_became_local_dest_CT(bound, a)
          BY <3>1 DEF BindLink
        <4> HIDE DEF bound, u
        <4>2. bound \in Publisher
          BY <1>2 DEF SameBut
        <4>3. /\ SameBut(bound, u) /\ u.links = bound.links /\ u.changes = bound.changes
              /\ u.add = IF a \in bound.del THEN bound.add ELSE bound.add \cup {a}
              /\ u.del = IF a \in bound.add THEN bound.del ELSE bound.del \ {a}
              /\ u.refs = IF a \in bound.add \cup bound.del THEN bound.refs
                          ELSE [bound.refs EXCEPT ![a] = @ + 1]
          BY <4>1, <4>2, BecameLocal, Zenon
        <4> QED BY <1>2, <3>1, <4>3 DEF SameBut
      <3>2. CASE p.links[a] # 0
        <4>1. u = bound
          BY <3>2 DEF BindLink
        <4> HIDE DEF bound, u
        <4> QED BY <1>2, <3>2, <4>1 DEF SameBut
      <3> QED BY <3>1, <3>2
    <2> HIDE DEF u
    <2>2. p' = [u EXCEPT !.changes = @ - 1]
      BY DEF u
    <2>3. u \in Publisher /\ u.changes > 0
      BY <2>1 DEF SameBut
    <2>4. /\ SameBut(u, p') /\ p'.links = u.links
          /\ p'.add = u.add /\ p'.del = u.del /\ p'.refs = u.refs
      BY <2>2, <2>3, Spend, Zenon
    <2> QED BY <2>1, <2>4 DEF SameBut
  <1>4. Published' = Published
    BY <1>3 DEF Published, Last, SameBut
  <1>5. ListsExact'
    BY <1>1, <1>3, <1>4 DEF ListsExact, Consumed, Publisher, SameBut
  <1>6. TrackedWhileListed'
    BY <1>1, <1>3, <1>4 DEF TrackedWhileListed, Publisher, SameBut
  <1> QED BY <1>3, <1>5, <1>6

\* A consumer goes: the last one, of an address announced or not, or one of several.
LEMMA UnbindKeepsLists ==
    ASSUME TypeOK, ListsExact, TrackedWhileListed, NEW a \in Addr, p.changes > 0,
           p.links[a] > 0,
           p' = [UnbindLink(p, a) EXCEPT !.changes = @ - 1], UNCHANGED hist
    PROVE  SameBut(p, p') /\ ListsExact' /\ TrackedWhileListed'
  <1>1. /\ p \in Publisher
        /\ p.add \cap Published = {} /\ p.del \subseteq Published
        /\ \A b \in Addr : p.links[b] > 0 <=> b \in (Published \ p.del) \cup p.add
        /\ \A b \in Addr : p.refs[b] = IF b \in Published \cup p.add THEN 1 ELSE 0
    BY Zenon DEF TypeOK, Publisher, ListsExact, TrackedWhileListed, Consumed
  <1> DEFINE unbound == [p EXCEPT !.links[a] = @ - 1]
  <1>2. /\ SameBut(p, unbound) /\ unbound.changes = p.changes
        /\ unbound.links = [p.links EXCEPT ![a] = @ - 1]
        /\ unbound.add = p.add /\ unbound.del = p.del /\ unbound.refs = p.refs
    <2>1. [p.links EXCEPT ![a] = @ - 1] \in [Addr -> Nat]
      BY <1>1 DEF Publisher
    <2> QED BY <1>1, <2>1 DEF Publisher, SameBut
  <1>3. /\ SameBut(p, p')
        /\ p'.links = [p.links EXCEPT ![a] = @ - 1]
        /\ p'.add = IF p.links[a] # 1 \/ a \in p.del THEN p.add ELSE p.add \ {a}
        /\ p'.del = IF p.links[a] # 1 \/ a \in p.add THEN p.del ELSE p.del \cup {a}
        /\ p'.refs = IF p.links[a] = 1 /\ a \in p.add \ p.del
                     THEN [p.refs EXCEPT ![a] = @ - 1] ELSE p.refs
    <2> DEFINE u == UnbindLink(p, a)
    <2>1. /\ SameBut(p, u) /\ u.changes = p.changes
          /\ u.links = [p.links EXCEPT ![a] = @ - 1]
          /\ u.add = IF p.links[a] # 1 \/ a \in p.del THEN p.add ELSE p.add \ {a}
          /\ u.del = IF p.links[a] # 1 \/ a \in p.add THEN p.del ELSE p.del \cup {a}
          /\ u.refs = IF p.links[a] = 1 /\ a \in p.add \ p.del
                      THEN [p.refs EXCEPT ![a] = @ - 1] ELSE p.refs
      <3>1. CASE p.links[a] = 1
        <4>1. u = qcm_mobile_sync_on_no_longer_local_dest_CT(unbound, a)
          BY <3>1 DEF UnbindLink
        <4> HIDE DEF unbound, u
        <4>2. unbound \in Publisher
          BY <1>2 DEF SameBut
        <4>3. /\ SameBut(unbound, u) /\ u.links = unbound.links /\ u.changes = unbound.changes
              /\ u.add = IF a \in unbound.del THEN unbound.add ELSE unbound.add \ {a}
              /\ u.del = IF a \in unbound.add THEN unbound.del ELSE unbound.del \cup {a}
              /\ u.refs = IF a \in unbound.add \ unbound.del
                          THEN [unbound.refs EXCEPT ![a] = @ - 1] ELSE unbound.refs
          BY <4>1, <4>2, NoLongerLocal
        <4> QED BY <1>2, <3>1, <4>3 DEF SameBut
      <3>2. CASE p.links[a] # 1
        <4>1. u = unbound
          BY <3>2 DEF UnbindLink
        <4> HIDE DEF unbound, u
        <4> QED BY <1>2, <3>2, <4>1 DEF SameBut
      <3> QED BY <3>1, <3>2
    <2> HIDE DEF u
    <2>2. p' = [u EXCEPT !.changes = @ - 1]
      BY DEF u
    <2>3. u \in Publisher /\ u.changes > 0
      BY <2>1 DEF SameBut
    <2>4. /\ SameBut(u, p') /\ p'.links = u.links
          /\ p'.add = u.add /\ p'.del = u.del /\ p'.refs = u.refs
      BY <2>2, <2>3, Spend, Zenon
    <2> QED BY <2>1, <2>4 DEF SameBut
  <1>4. Published' = Published
    BY <1>3 DEF Published, Last, SameBut
  <1>5. ListsExact'
    BY <1>1, <1>3, <1>4 DEF ListsExact, Consumed, Publisher, SameBut
  <1>6. TrackedWhileListed'
    BY <1>1, <1>3, <1>4 DEF TrackedWhileListed, Publisher, SameBut
  <1> QED BY <1>3, <1>5, <1>6

-----------------------------------------------------------------------------
(* The initial state. *)

LEMMA InitOK == ASSUME Init PROVE IInv
  <1>1. cf \in Configs /\ cf \in Config
    BY ConfigsAssumption DEF Init
  <1>2. /\ p = Fresh(1, cf.changes) /\ hist = <<<<{}>>>> /\ net = {} /\ q = <<>> /\ g = <<>>
        /\ node = NewNode /\ py = NewPyNode(1)
    BY DEF Init
  <1>3. cf.changes \in Nat
    BY <1>1 DEF Config
  <1>4. p \in Publisher
    BY <1>2, <1>3 DEF Fresh, Publisher
  <1>5. /\ p.inst = 1 /\ p.seq = 0 /\ p.adv = 0
        /\ p.add = {} /\ p.del = {} /\ \A a \in Addr : p.links[a] = 0 /\ p.refs[a] = 0
    BY <1>2 DEF Fresh
  <1>6. Len(hist) = 1 /\ hist[1] = <<{}>> /\ Len(hist[1]) = 1 /\ hist[1][1] = {}
    BY <1>2
  <1>7. hist \in Seq(Seq(SUBSET Addr))
    <2>1. {} \in SUBSET Addr
      OBVIOUS
    <2>2. <<{}>> \in Seq(SUBSET Addr)
      BY <2>1
    <2> QED BY <1>2, <2>2
  <1>8. Published = {}
    BY <1>5, <1>6 DEF Published, Last
  <1>9. TypeOK
    <2>1. node \in [exists : BOOLEAN, seq : Nat, requested : BOOLEAN, map : SUBSET Addr]
      BY <1>2, Zenon DEF NewNode, NoNode
    <2>2. py \in [known : BOOLEAN, inst : Nat, seq : Nat, need : BOOLEAN]
      BY <1>2 DEF NewPyNode
    <2>3. /\ net \subseteq Message /\ g \in Seq(Work)
          /\ q \in Seq({"flush", "add_router", "del_router", "mobile_seq_advanced"})
      BY <1>2
    <2> QED BY <1>1, <1>4, <1>5, <1>6, <1>7, <2>1, <2>2, <2>3 DEF TypeOK, Publisher
  <1>10. HistStartsEmpty
    BY <1>6 DEF HistStartsEmpty
  <1>11. ListsExact /\ TrackedWhileListed
    BY <1>5, <1>8 DEF ListsExact, TrackedWhileListed, Consumed
  <1>12. NetFaithful /\ InstancesKnown
    BY <1>2, <1>5 DEF NetFaithful, InstancesKnown, NewPyNode
  <1>13. NodeMatches
    BY <1>2, <1>5, <1>6 DEF NodeMatches, NewNode, NoNode
  <1> QED BY <1>9, <1>10, <1>11, <1>12, <1>13 DEF IInv

-----------------------------------------------------------------------------
(* The advertiser's steps. *)

\* What is on its way and what the receiver holds is not touched by a change of the
\* advertiser's lists.
LEMMA OnlyLists ==
    ASSUME IInv, SameBut(p, p') \/ (p' \in Publisher /\ p'.inst = p.inst /\ p'.seq = p.seq),
           p'.adv <= p'.seq, UNCHANGED <<cf, hist, net, rvars>>
    PROVE  TypeOK' /\ HistStartsEmpty' /\ NetFaithful' /\ InstancesKnown' /\ NodeMatches'
  <1>1. /\ p' \in Publisher /\ p'.inst = p.inst /\ p'.seq = p.seq
        /\ cf' = cf /\ hist' = hist /\ net' = net /\ node' = node /\ py' = py /\ q' = q /\ g' = g
    BY DEF SameBut, rvars
  <1>2. TypeOK'
    BY <1>1, ZenonT(40) DEF IInv, TypeOK, Publisher
  <1>3. HistStartsEmpty'
    BY <1>1 DEF IInv, HistStartsEmpty
  <1>4. NetFaithful' /\ InstancesKnown'
    BY <1>1 DEF IInv, NetFaithful, InstancesKnown
  <1>5. Current' = Current
    BY <1>1 DEF Current
  <1>6. NodeMatches'
    BY <1>1, <1>5 DEF IInv, NodeMatches
  <1> QED BY <1>2, <1>3, <1>4, <1>6

LEMMA LocalChangeOK ==
    ASSUME IInv, NEW a \in Addr, LocalChange(a) PROVE IInv'
  <1>1. UNCHANGED <<cf, hist, net, rvars>> /\ p.changes > 0
    BY DEF LocalChange
  <1>3. SameBut(p, p') /\ ListsExact' /\ TrackedWhileListed'
    <2>1. CASE p' = [BindLink(p, a) EXCEPT !.changes = @ - 1]
      BY <1>1, <2>1, BindKeepsLists DEF IInv
    <2>2. CASE p.links[a] > 0 /\ p' = [UnbindLink(p, a) EXCEPT !.changes = @ - 1]
      BY <1>1, <2>2, UnbindKeepsLists DEF IInv
    <2> QED BY <2>1, <2>2 DEF LocalChange
  <1>4. p'.adv <= p'.seq
    BY <1>3 DEF SameBut, IInv, TypeOK
  <1> QED BY <1>1, <1>3, <1>4, OnlyLists DEF IInv

LEMMA SetMyMobileSeqOK == ASSUME IInv, SetMyMobileSeq PROVE IInv'
  <1>1. p \in Publisher
    BY Zenon DEF IInv, TypeOK, Publisher
  <1>2. /\ UNCHANGED <<cf, hist, net, rvars>> /\ p.adv < p.seq
        /\ p' = [p EXCEPT !.adv = @ + 1]
    BY DEF SetMyMobileSeq
  <1>3. /\ p' \in Publisher /\ p'.inst = p.inst /\ p'.seq = p.seq /\ p'.adv = p.adv + 1
        /\ p'.links = p.links
        /\ p'.add = p.add /\ p'.del = p.del /\ p'.refs = p.refs
    BY <1>1, <1>2 DEF Publisher
  <1>4. p'.adv <= p'.seq
    BY <1>1, <1>2, <1>3 DEF Publisher
  <1>5. Published' = Published
    BY <1>2, <1>3 DEF Published, Last
  <1>6. ListsExact' /\ TrackedWhileListed'
    BY <1>3, <1>5 DEF IInv, ListsExact, TrackedWhileListed, Consumed
  <1> QED BY <1>2, <1>3, <1>4, <1>6, OnlyLists DEF IInv

LEMMA send_raOK == ASSUME IInv, send_ra PROVE IInv'
  <1>1. /\ cf' = cf /\ p' = p /\ hist' = hist /\ node' = node /\ py' = py /\ q' = q /\ g' = g
        /\ net' = net \cup {RA(p.inst, p.adv)}
    BY DEF send_ra, pvars, rvars
  <1>2. p.inst \in Nat /\ p.adv \in Nat
    BY DEF IInv, TypeOK
  <1>3. TypeOK'
    BY SMTT(40), <1>1, <1>2 DEF IInv, TypeOK, Message, RA
  <1>4. NetFaithful'
    BY <1>1, <1>2 DEF IInv, NetFaithful, RA
  <1>5. HistStartsEmpty' /\ ListsExact' /\ TrackedWhileListed' /\ InstancesKnown' /\ NodeMatches'
    BY <1>1 DEF IInv, HistStartsEmpty, ListsExact, TrackedWhileListed, InstancesKnown,
                NodeMatches, Published, Last, Consumed, Current
  <1> QED BY <1>3, <1>4, <1>5 DEF IInv

\* The sequence number advances by one, and with it the history.
LEMMA TimerOK == ASSUME IInv, qcm_mobile_sync_on_timer_CT PROVE IInv'
  <1> DEFINE announced == (Published \cup p.add) \ p.del
             cleared == [p EXCEPT !.seq = @ + 1, !.add = {}, !.del = {}]
             untracked == [a \in Addr |-> IF a \in p.del THEN p.refs[a] - 1 ELSE p.refs[a]]
             h == hist[p.inst]
  <1>1. /\ p \in Publisher /\ p.adv <= p.seq /\ Len(hist) = p.inst /\ Len(h) = p.seq + 1
        /\ hist \in Seq(Seq(SUBSET Addr)) /\ h \in Seq(SUBSET Addr) /\ p.inst \in 1..Len(hist)
    <2>1. /\ p \in Publisher /\ p.adv <= p.seq /\ Len(hist) = p.inst /\ Len(h) = p.seq + 1
          /\ hist \in Seq(Seq(SUBSET Addr))
      BY Zenon DEF IInv, TypeOK, Publisher
    <2>2. p.inst \in Nat \ {0}
      BY <2>1 DEF Publisher
    <2>3. p.inst \in 1..Len(hist)
      BY <2>1, <2>2
    <2>4. h \in Seq(SUBSET Addr)
      BY <2>1, <2>3
    <2> QED
      BY <2>1, <2>3, <2>4, Zenon
  <1>2. /\ cf' = cf /\ node' = node /\ py' = py /\ q' = q /\ g' = g
        /\ net' = net \cup {Diff(p.inst, p.seq + 1, p.add, p.del)}
        /\ hist' = [hist EXCEPT ![p.inst] = Append(h, announced)]
        /\ p' = StopTracking(cleared, p.del)
    BY <1>1 DEF qcm_mobile_sync_on_timer_CT, rvars, Published
  <1>3. Published \in SUBSET Addr /\ announced \in SUBSET Addr /\ Published = h[p.seq + 1]
    BY <1>1 DEF Published, Last, Publisher
  <1>4. /\ p' \in Publisher /\ p'.inst = p.inst /\ p'.seq = p.seq + 1 /\ p'.adv = p.adv
        /\ p'.links = p.links
        /\ p'.add = {} /\ p'.del = {} /\ p'.refs = untracked
    <2>1. cleared \in Publisher /\ cleared.refs = p.refs
      <3>1. p.seq + 1 \in Nat /\ {} \in SUBSET Addr
        BY <1>1 DEF Publisher
      <3> QED BY <1>1, <3>1, Zenon DEF Publisher
    <2>2. p' = [cleared EXCEPT !.refs = untracked]
      BY <1>2, <2>1 DEF StopTracking
    <2>3. untracked \in [Addr -> Int]
      BY <1>1 DEF Publisher
    <2> QED BY <1>1, <2>1, <2>2, <2>3, Zenon DEF Publisher
  <1>5. /\ hist' \in Seq(Seq(SUBSET Addr)) /\ Len(hist') = Len(hist)
        /\ hist'[p.inst] = Append(h, announced)
        /\ \A i \in 1..Len(hist) : i # p.inst => hist'[i] = hist[i]
    <2>1. Append(h, announced) \in Seq(SUBSET Addr)
      BY <1>1, <1>3
    <2> HIDE DEF announced, h
    <2> QED BY <1>1, <1>2, <2>1, SMTT(30)
  <1>6. /\ Len(hist'[p.inst]) = p.seq + 2
        /\ \A i \in 1..(p.seq + 1) : hist'[p.inst][i] = h[i]
        /\ hist'[p.inst][p.seq + 2] = announced
    BY <1>1, <1>3, <1>5, SMTT(30) DEF Publisher
  <1>7. Published' = announced
    BY <1>1, <1>4, <1>6 DEF Published, Last, Publisher
  <1>8. TypeOK'
    <2>1. Diff(p.inst, p.seq + 1, p.add, p.del) \in Message
      BY <1>1 DEF Publisher, Diff, Message
    <2>2. net' \subseteq Message
      BY <1>2, <2>1 DEF IInv, TypeOK
    <2>3. p'.adv <= p'.seq
      BY <1>1, <1>4 DEF Publisher
    <2>4. Len(hist') = p'.inst /\ Len(hist'[p'.inst]) = p'.seq + 1
      BY <1>1, <1>4, <1>5, <1>6 DEF Publisher
    <2> QED BY <1>2, <1>4, <1>5, <2>2, <2>3, <2>4, Zenon DEF IInv, TypeOK, Publisher
  <1>9. HistStartsEmpty'
    <2>1. \A i \in 1..Len(hist) : Len(hist'[i]) > 0 /\ hist'[i][1] = {}
      <3>1. p.seq \in Nat /\ 1 \in 1..(p.seq + 1)
        BY <1>1 DEF Publisher
      <3>2. Len(hist'[p.inst]) > 0 /\ hist'[p.inst][1] = {}
        BY SMTT(40), <1>1, <1>6, <3>1 DEF IInv, HistStartsEmpty
      <3> QED BY <1>5, <3>2, Zenon DEF IInv, HistStartsEmpty
    <2> QED BY <1>5, <2>1 DEF HistStartsEmpty
  <1>10. ListsExact'
    BY <1>4, <1>7 DEF IInv, ListsExact, Consumed
  <1>11. TrackedWhileListed'
    BY <1>1, <1>4, <1>7, SMTT(30) DEF IInv, TrackedWhileListed, ListsExact, Publisher
  <1>12. NetFaithful'
    <2> SUFFICES ASSUME NEW m \in net'
                 PROVE  /\ m.type = "diff" =>
                             /\ m.inst = p.inst /\ m.seq \in 1..(p.seq + 1)
                             /\ hist'[p.inst][m.seq + 1] = (hist'[p.inst][m.seq] \cup m.add) \ m.del
                        /\ m.type = "absolute" =>
                             /\ m.inst = p.inst /\ m.seq \in 0..(p.seq + 1)
                             /\ m.exist = hist'[p.inst][m.seq + 1]
                        /\ m.type = "RA" => m.inst <= p.inst
      BY <1>4 DEF NetFaithful
    <2>1. CASE m \in net
      <3>1. /\ m.type = "diff" =>
                 /\ m.inst = p.inst /\ m.seq \in 1..p.seq
                 /\ h[m.seq + 1] = (h[m.seq] \cup m.add) \ m.del
            /\ m.type = "absolute" =>
                 m.inst = p.inst /\ m.seq \in 0..p.seq /\ m.exist = h[m.seq + 1]
            /\ m.type = "RA" => m.inst <= p.inst
        BY <2>1 DEF IInv, NetFaithful
      <3>2. p.seq \in Nat
        BY <1>1 DEF Publisher
      <3>3. \A i \in 0..p.seq : i + 1 \in 1..(p.seq + 1) /\ i \in 0..(p.seq + 1)
        BY <3>2
      <3>4. \A i \in 1..p.seq : i \in 0..p.seq /\ i \in 1..(p.seq + 1)
        BY <3>2
      <3> HIDE DEF h
      <3> QED BY <1>6, <3>1, <3>3, <3>4
    <2>2. CASE m = Diff(p.inst, p.seq + 1, p.add, p.del)
      <3>1. /\ m.type = "diff" /\ m.inst = p.inst /\ m.seq = p.seq + 1
            /\ m.add = p.add /\ m.del = p.del
        BY <2>2 DEF Diff
      <3> QED BY SMTT(40), <1>1, <1>3, <1>6, <3>1 DEF Publisher
    <2> QED BY <1>2, <2>1, <2>2, Zenon
  <1>13. InstancesKnown'
    BY <1>2, <1>4 DEF IInv, InstancesKnown
  <1>14. NodeMatches'
    <2>1. Current' => Current
      BY <1>2, <1>4 DEF Current
    <2>2. node.seq \in Nat
      BY DEF IInv, TypeOK
    <2>3. p.seq \in Nat
      BY <1>1 DEF Publisher
    <2>4. Current' => node.seq <= p.seq /\ node.map = h[node.seq + 1]
      BY <2>1 DEF IInv, NodeMatches
    <2>5. node.seq <= p.seq => node.seq + 1 \in 1..(p.seq + 1) /\ node.seq <= p.seq + 1
      BY <2>2, <2>3
    <2> HIDE DEF h
    <2> QED BY ZenonT(40), <1>2, <1>4, <1>6, <2>4, <2>5 DEF NodeMatches
  <1> QED BY <1>8, <1>9, <1>10, <1>11, <1>12, <1>13, <1>14 DEF IInv

\* The new incarnation starts with nothing announced and nothing on its way, and the
\* receiver has not heard of it.
LEMMA RestartOK == ASSUME IInv, Restart PROVE IInv'
  <1>1. /\ p \in Publisher /\ Len(hist) = p.inst /\ hist \in Seq(Seq(SUBSET Addr))
        /\ p.inst \in Nat /\ p.changes \in Nat
    BY Zenon DEF IInv, TypeOK, Publisher
  <1>2. /\ cf' = cf /\ node' = node /\ py' = py /\ q' = q /\ g' = g /\ net' = {}
        /\ hist' = Append(hist, <<{}>>) /\ p' = Fresh(p.inst + 1, p.changes)
    BY DEF Restart, rvars
  <1>3. /\ p' \in Publisher /\ p'.inst = p.inst + 1 /\ p'.seq = 0 /\ p'.adv = 0
        /\ p'.add = {} /\ p'.del = {}
        /\ \A a \in Addr : p'.links[a] = 0 /\ p'.refs[a] = 0
    BY <1>1, <1>2 DEF Fresh, Publisher
  <1>4. <<{}>> \in Seq(SUBSET Addr) /\ Len(<<{}>>) = 1 /\ <<{}>>[1] = {}
    <2>1. {} \in SUBSET Addr
      OBVIOUS
    <2> QED BY <2>1
  <1>5. /\ hist' \in Seq(Seq(SUBSET Addr)) /\ Len(hist') = p.inst + 1
        /\ hist'[p.inst + 1] = <<{}>>
        /\ \A i \in 1..Len(hist) : hist'[i] = hist[i]
    BY <1>1, <1>2, <1>4
  <1>6. Published' = {}
    BY <1>3, <1>4, <1>5 DEF Published, Last
  <1>7. TypeOK'
    <2>1. p'.adv <= p'.seq /\ Len(hist') = p'.inst /\ Len(hist'[p'.inst]) = p'.seq + 1
      BY <1>3, <1>4, <1>5
    <2> QED BY <1>2, <1>3, <1>5, <2>1, Zenon DEF IInv, TypeOK, Publisher
  <1>8. HistStartsEmpty'
    <2>1. \A i \in 1..(p.inst + 1) : i = p.inst + 1 \/ i \in 1..Len(hist)
      BY <1>1
    <2>2. \A i \in 1..(p.inst + 1) : Len(hist'[i]) > 0 /\ hist'[i][1] = {}
      <3>1. Len(hist'[p.inst + 1]) > 0 /\ hist'[p.inst + 1][1] = {}
        BY <1>4, <1>5
      <3>2. \A i \in 1..Len(hist) : Len(hist'[i]) > 0 /\ hist'[i][1] = {}
        BY <1>5, SMTT(30) DEF IInv, HistStartsEmpty
      <3> QED BY <2>1, <3>1, <3>2
    <2> QED BY <1>5, <2>2 DEF HistStartsEmpty
  <1>9. ListsExact' /\ TrackedWhileListed'
    BY <1>3, <1>6 DEF ListsExact, TrackedWhileListed, Consumed
  <1>10. NetFaithful'
    BY <1>2 DEF NetFaithful
  <1>11. InstancesKnown' /\ py.inst < p.inst + 1
    <2>1. py.inst \in Nat /\ \A i \in 1..Len(g) : g[i] \in Work
      BY SMTT(40) DEF IInv, TypeOK
    <2>2. \A i \in 1..Len(g) : g[i].kind = "RA" => g[i].inst \in Nat
      BY <2>1 DEF Work
    <2> QED BY SMTT(40), <1>1, <1>2, <1>3, <2>1, <2>2 DEF IInv, InstancesKnown
  <1>12. NodeMatches'
    BY <1>1, <1>2, <1>3, <1>11 DEF NodeMatches, Current, IInv, TypeOK
  <1> QED BY <1>7, <1>8, <1>9, <1>10, <1>11, <1>12 DEF IInv

-----------------------------------------------------------------------------
(* Delivery and the receiver's steps. *)

\* The pending lists taken out, an absolute update is what has been announced.
LEMMA AbsoluteOK == ASSUME ListsExact PROVE AbsoluteIsPublished
  BY DEF ListsExact, AbsoluteIsPublished, AbsoluteList

\* The conjuncts of the invariant about the advertiser alone.
LEMMA AdvertiserFrame ==
    ASSUME IInv, UNCHANGED pvars
    PROVE  HistStartsEmpty' /\ ListsExact' /\ TrackedWhileListed'
  BY DEF IInv, pvars, HistStartsEmpty, ListsExact, TrackedWhileListed, Published, Last, Consumed

\* A request adds at most the absolute update for the present number.
LEMMA MAROK == ASSUME IInv, NEW m \in net, qcm_mobile_sync_on_mar_CT(m) PROVE IInv'
  <1> DEFINE abs == Absolute(p.inst, p.seq, AbsoluteList(p))
  <1>1. /\ cf' = cf /\ p' = p /\ hist' = hist /\ node' = node /\ py' = py /\ q' = q /\ g' = g
        /\ net' \subseteq net \cup {abs}
    BY DEF qcm_mobile_sync_on_mar_CT, pvars, rvars, Remaining
  <1>2. /\ p.inst \in Nat /\ p.seq \in Nat /\ Len(hist[p.inst]) = p.seq + 1
        /\ AbsoluteList(p) = hist[p.inst][p.seq + 1]
    BY AbsoluteOK DEF IInv, TypeOK, AbsoluteIsPublished, Published, Last
  <1>3. AbsoluteList(p) \in SUBSET Addr
    BY DEF IInv, TypeOK, AbsoluteList, Consumed
  <1>4. /\ abs \in Message /\ abs.type = "absolute" /\ abs.inst = p.inst /\ abs.seq = p.seq
        /\ abs.exist = AbsoluteList(p)
    BY <1>2, <1>3 DEF Absolute, Message
  <1>5. TypeOK'
    BY SMTT(40), <1>1, <1>4 DEF IInv, TypeOK
  <1>6. NetFaithful'
    <2> HIDE DEF abs
    <2>1. p.seq \in 0..p.seq
      BY <1>2
    <2> QED BY <1>1, <1>2, <1>4, <2>1 DEF IInv, NetFaithful
  <1>7. InstancesKnown' /\ NodeMatches'
    BY <1>1 DEF IInv, InstancesKnown, NodeMatches, Current
  <1> QED BY <1>1, <1>5, <1>6, <1>7, AdvertiserFrame DEF IInv, pvars

\* Steps that leave the updates on their way, but perhaps not all, as they are.
LEMMA LessNet ==
    ASSUME IInv, UNCHANGED pvars,
           \A m \in net' : m \in net \/ \E k \in Nat : m = MAR(k)
    PROVE  net' \subseteq Message /\ NetFaithful'
  <1>1. \A k \in Nat : MAR(k) \in Message /\ MAR(k).type = "MAR"
    BY DEF MAR, Message
  <1>2. net' \subseteq Message
    BY <1>1 DEF IInv, TypeOK
  <1>3. NetFaithful'
    BY <1>1 DEF IInv, NetFaithful, pvars
  <1> QED BY <1>2, <1>3

LEMMA OnRAOK == ASSUME IInv, NEW m \in net, m.type = "RA", OnRA(m) PROVE IInv'
  <1> DEFINE w == [kind |-> "RA", inst |-> m.inst, seq |-> m.seq]
  <1>1. /\ cf' = cf /\ p' = p /\ hist' = hist /\ node' = node /\ py' = py /\ q' = q
        /\ net' \subseteq net /\ g' = Append(g, w)
    BY DEF OnRA, pvars, Remaining
  <1>2. m.inst \in Nat /\ m.seq \in Nat /\ m.inst <= p.inst
    <2>1. m \in Message
      BY DEF IInv, TypeOK
    <2> QED BY <2>1 DEF Message, IInv, NetFaithful
  <1>3. w \in Work /\ w.kind = "RA" /\ w.inst = m.inst
    BY <1>2 DEF Work
  <1> HIDE DEF w
  <1>4. g \in Seq(Work)
    BY DEF IInv, TypeOK
  <1>5. g' \in Seq(Work) /\ \A i \in 1..Len(g') : g'[i] = w \/ (i \in 1..Len(g) /\ g'[i] = g[i])
    BY <1>1, <1>3, <1>4
  <1>6. net' \subseteq Message /\ NetFaithful'
    BY <1>1, LessNet DEF pvars
  <1>7. TypeOK'
    BY <1>1, <1>5, <1>6, Zenon DEF IInv, TypeOK
  <1>8. InstancesKnown'
    BY <1>1, <1>2, <1>3, <1>5 DEF IInv, InstancesKnown
  <1>9. NodeMatches'
    BY <1>1 DEF IInv, NodeMatches, Current
  <1> QED BY <1>1, <1>6, <1>7, <1>8, <1>9, AdvertiserFrame DEF IInv, pvars

\* An update is applied only where it fits: a differential one to the map of the
\* number before, an absolute one to any.
LEMMA MAUOK ==
    ASSUME IInv, NEW m \in net, m.type \in {"diff", "absolute"}, qcm_mobile_sync_on_mau_CT(m)
    PROVE  IInv'
  <1> DEFINE w == [kind |-> "set_mobile_seq", seq |-> m.seq]
  <1>1. cf' = cf /\ p' = p /\ hist' = hist /\ py' = py /\ q' = q
    BY DEF qcm_mobile_sync_on_mau_CT, pvars
  <1>2. /\ node.seq \in Nat /\ node.map \in SUBSET Addr /\ m \in Message /\ g \in Seq(Work)
        /\ node \in [exists : BOOLEAN, seq : Nat, requested : BOOLEAN, map : SUBSET Addr]
        /\ p.seq \in Nat
    BY SMTT(30) DEF IInv, TypeOK
  <1>3. \A x \in net' : x \in net \/ \E k \in Nat : x = MAR(k)
    BY <1>2 DEF qcm_mobile_sync_on_mau_CT, Remaining
  <1>4. net' \subseteq Message /\ NetFaithful'
    BY <1>1, <1>3, LessNet DEF pvars
  <1>5. m.seq \in Nat /\ MapAfter(m) \in SUBSET Addr
    BY <1>2 DEF Message, MapAfter
  <1>6. w \in Work /\ w.kind # "RA"
    BY <1>5 DEF Work
  <1> HIDE DEF w
  <1>7. /\ g' \in Seq(Work)
        /\ \A i \in 1..Len(g') : g'[i] = w \/ (i \in 1..Len(g) /\ g'[i] = g[i])
    <2>1. g' = g \/ g' = Append(g, w)
      BY DEF qcm_mobile_sync_on_mau_CT, w
    <2> QED BY SMTT(40), <1>2, <1>6, <2>1
  <1>8. \/ node'.exists = node.exists /\ node'.seq = node.seq /\ node'.map = node.map
        \/ /\ m.type = "diff" => node.seq = m.seq - 1
           /\ node'.exists = node.exists /\ node'.seq = m.seq /\ node'.map = MapAfter(m)
    BY <1>2, Zenon DEF qcm_mobile_sync_on_mau_CT, IsNext
  <1>9. node' \in [exists : BOOLEAN, seq : Nat, requested : BOOLEAN, map : SUBSET Addr]
    BY <1>2, <1>5, ZenonT(40) DEF qcm_mobile_sync_on_mau_CT
  <1>10. TypeOK'
    BY <1>1, <1>4, <1>7, <1>9, Zenon DEF IInv, TypeOK
  <1>11. InstancesKnown'
    BY <1>1, <1>6, <1>7 DEF IInv, InstancesKnown
  <1>12. NodeMatches'
    <2> SUFFICES ASSUME Current'
                 PROVE  node'.seq <= p.seq /\ node'.map = hist[p.inst][node'.seq + 1]
      BY <1>1 DEF NodeMatches
    <2>1. node.seq <= p.seq /\ node.map = hist[p.inst][node.seq + 1]
      BY <1>1, <1>8, Zenon DEF IInv, NodeMatches, Current
    <2>2. CASE node'.seq = node.seq /\ node'.map = node.map
      BY <2>1, <2>2
    <2>3. CASE /\ m.type = "diff" /\ node.seq = m.seq - 1
               /\ node'.seq = m.seq /\ node'.map = MapAfter(m)
      <3>1. /\ m.seq \in 1..p.seq
            /\ hist[p.inst][m.seq + 1] = (hist[p.inst][m.seq] \cup m.add) \ m.del
        BY <2>3 DEF IInv, NetFaithful
      <3>2. node'.map = (node.map \cup m.add) \ m.del /\ node.seq + 1 = m.seq
        BY <1>5, <2>3 DEF MapAfter
      <3> QED BY <1>2, <2>1, <2>3, <3>1, <3>2
    <2>4. CASE m.type = "absolute" /\ node'.seq = m.seq /\ node'.map = MapAfter(m)
      <3>1. m.seq \in 0..p.seq /\ m.exist = hist[p.inst][m.seq + 1]
        BY <2>4 DEF IInv, NetFaithful
      <3> QED BY <1>2, <2>4, <3>1 DEF MapAfter
    <2> QED BY <1>8, <2>2, <2>3, <2>4
  <1> QED BY <1>1, <1>4, <1>10, <1>11, <1>12, AdvertiserFrame DEF IInv, pvars

LEMMA LoseOK == ASSUME IInv, NEW m \in net, Lose(m) PROVE IInv'
  <1>1. /\ cf' = cf /\ p' = p /\ hist' = hist /\ node' = node /\ py' = py /\ q' = q /\ g' = g
        /\ net' \subseteq net
    BY DEF Lose, pvars, rvars
  <1>2. net' \subseteq Message /\ NetFaithful'
    BY <1>1, LessNet DEF pvars
  <1>3. TypeOK' /\ InstancesKnown' /\ NodeMatches'
    BY <1>1, <1>2, Zenon DEF IInv, TypeOK, InstancesKnown, NodeMatches, Current
  <1> QED BY <1>1, <1>2, <1>3, AdvertiserFrame DEF IInv, pvars

CoreActions == {"flush", "add_router", "del_router", "mobile_seq_advanced"}

\* The Python side's step: what it takes for the advertiser's present incarnation
\* changes only together with a flush, or a new node, in the core's queue.
LEMMA GeneralWorkOK == ASSUME IInv, GeneralWork PROVE IInv'
  <1> DEFINE w == Head(g)
  <1>1. cf' = cf /\ p' = p /\ hist' = hist /\ net' = net /\ node' = node /\ g' = Tail(g)
    BY DEF GeneralWork, pvars
  <1>2. /\ g \in Seq(Work) /\ g # <<>> /\ q \in Seq(CoreActions)
        /\ py \in [known : BOOLEAN, inst : Nat, seq : Nat, need : BOOLEAN]
        /\ py.inst <= p.inst /\ p.inst \in Nat
    BY DEF IInv, TypeOK, GeneralWork, CoreActions, InstancesKnown
  <1>3. /\ w \in Work /\ w = g[1] /\ 1 \in 1..Len(g) /\ Tail(g) \in Seq(Work)
        /\ \A i \in 1..Len(Tail(g)) : i + 1 \in 1..Len(g) /\ Tail(g)[i] = g[i + 1]
    BY <1>2
  <1>4. w.seq \in Nat /\ (w.kind = "RA" => w.inst \in Nat /\ w.inst <= p.inst)
    BY <1>3 DEF Work, IInv, InstancesKnown
  <1>5. /\ py' \in [known : BOOLEAN, inst : Nat, seq : Nat, need : BOOLEAN]
        /\ py'.inst <= p.inst
        /\ \/ py'.known = py.known /\ py'.inst = py.inst /\ q' = q
           \/ q' = Append(q, "add_router")
           \/ q' = Append(q, "flush")
    <2> HIDE DEF w
    <2>1. CASE w.kind = "RA"
      <3>1. ra_received(w)
        BY <2>1 DEF GeneralWork, w
      <3> DEFINE n == update_instance(w.inst)
      <3>2. /\ n \in [known : BOOLEAN, inst : Nat, seq : Nat, need : BOOLEAN]
            /\ n.inst <= p.inst
            /\ py.known /\ py.inst = w.inst => n = py
        BY <1>2, <1>4, <2>1, Zenon DEF update_instance, NewPyNode
      <3>3. py' = [n EXCEPT !.need = @ \/ n.seq < w.seq]
        BY <3>1 DEF ra_received
      <3> HIDE DEF n
      <3>4. /\ py' \in [known : BOOLEAN, inst : Nat, seq : Nat, need : BOOLEAN]
            /\ py'.inst = n.inst /\ py'.known = n.known
        BY <1>4, <3>2, <3>3, Zenon
      <3> QED BY <1>2, <3>1, <3>2, <3>4, SMTT(30) DEF ra_received
    <2>2. CASE w.kind # "RA"
      <3>1. /\ py' = IF py.known THEN [py EXCEPT !.seq = w.seq] ELSE py
            /\ q' = q
        BY <2>2 DEF GeneralWork, w
      <3> QED BY <1>2, <1>4, <3>1, SMTT(30)
    <2> QED BY <2>1, <2>2
  <1>6. q' \in Seq(CoreActions)
    <2>1. "flush" \in CoreActions /\ "add_router" \in CoreActions
      BY DEF CoreActions
    <2>2. q' = q \/ q' = Append(q, "add_router") \/ q' = Append(q, "flush")
      BY <1>5
    <2>3. Append(q, "add_router") \in Seq(CoreActions) /\ Append(q, "flush") \in Seq(CoreActions)
      BY <1>2, <2>1
    <2> QED BY <1>2, <2>2, <2>3, Zenon
  <1>7. TypeOK'
    BY <1>1, <1>3, <1>5, <1>6, Zenon DEF IInv, TypeOK, CoreActions
  <1>8. InstancesKnown'
    BY <1>1, <1>3, <1>5, Zenon DEF IInv, InstancesKnown
  <1>9. NodeMatches'
    <2>1. Current' => Current
      <3>1. CASE py'.known = py.known /\ py'.inst = py.inst /\ q' = q
        BY <1>1, <3>1 DEF Current
      <3>2. CASE q' = Append(q, "add_router") \/ q' = Append(q, "flush")
        <4>1. Len(q) + 1 \in DOMAIN q' /\ q'[Len(q) + 1] \in {"flush", "add_router"}
          BY <1>2, <3>2
        <4> QED BY <4>1 DEF Current
      <3> QED BY <1>5, <3>1, <3>2
    <2> QED BY <1>1, <2>1 DEF IInv, NodeMatches
  <1>10. NetFaithful'
    BY SMTT(40), <1>1 DEF IInv, NetFaithful
  <1> QED BY <1>1, <1>7, <1>8, <1>9, <1>10, AdvertiserFrame DEF IInv, pvars

LEMMA RequestMobileOK == ASSUME IInv, RequestMobile PROVE IInv'
  <1>1. /\ cf' = cf /\ p' = p /\ hist' = hist /\ net' = net /\ node' = node /\ g' = g
        /\ py' = [py EXCEPT !.need = FALSE] /\ q' = Append(q, "mobile_seq_advanced")
    BY DEF RequestMobile, pvars
  <1>2. /\ q \in Seq(CoreActions) /\ "mobile_seq_advanced" \in CoreActions
        /\ py \in [known : BOOLEAN, inst : Nat, seq : Nat, need : BOOLEAN]
    BY DEF IInv, TypeOK, CoreActions
  <1>3. /\ py' \in [known : BOOLEAN, inst : Nat, seq : Nat, need : BOOLEAN]
        /\ py'.inst = py.inst /\ py'.known = py.known
    BY <1>1, <1>2, Zenon
  <1>4. q' \in Seq(CoreActions) /\ \A i \in DOMAIN q : i \in DOMAIN q' /\ q'[i] = q[i]
    BY <1>1, <1>2
  <1>5. TypeOK'
    BY <1>1, <1>3, <1>4, Zenon DEF IInv, TypeOK, CoreActions
  <1>6. InstancesKnown' /\ NetFaithful'
    BY <1>1, <1>3 DEF IInv, InstancesKnown, NetFaithful
  <1>7. NodeMatches'
    <2>1. Current' => Current
      BY <1>1, <1>3, <1>4 DEF Current
    <2> QED BY <1>1, <2>1 DEF IInv, NodeMatches
  <1> QED BY <1>1, <1>5, <1>6, <1>7, AdvertiserFrame DEF IInv, pvars

LEMMA ExpireOK == ASSUME IInv, Expire PROVE IInv'
  <1>1. /\ cf' = cf /\ p' = p /\ hist' = hist /\ net' = net /\ node' = node /\ g' = g
        /\ py' = [py EXCEPT !.known = FALSE] /\ q' = q \o <<"flush", "del_router">>
    BY DEF Expire, pvars
  <1>2. /\ q \in Seq(CoreActions) /\ <<"flush", "del_router">> \in Seq(CoreActions)
        /\ py \in [known : BOOLEAN, inst : Nat, seq : Nat, need : BOOLEAN]
    BY DEF IInv, TypeOK, CoreActions
  <1>3. /\ py' \in [known : BOOLEAN, inst : Nat, seq : Nat, need : BOOLEAN]
        /\ py'.inst = py.inst /\ ~py'.known
    BY <1>1, <1>2, Zenon
  <1>4. q' \in Seq(CoreActions)
    BY <1>1, <1>2
  <1>5. TypeOK'
    BY <1>1, <1>3, <1>4, Zenon DEF IInv, TypeOK, CoreActions
  <1>6. InstancesKnown' /\ NetFaithful'
    BY <1>1, <1>3 DEF IInv, InstancesKnown, NetFaithful
  <1>7. NodeMatches'
    BY <1>3 DEF NodeMatches, Current
  <1> QED BY <1>1, <1>5, <1>6, <1>7, AdvertiserFrame DEF IInv, pvars

\* A flush, or a new node, leaves what every incarnation starts with.
LEMMA CoreActionOK == ASSUME IInv, CoreAction PROVE IInv'
  <1>1. cf' = cf /\ p' = p /\ hist' = hist /\ py' = py /\ g' = g /\ q' = Tail(q) /\ q # <<>>
    BY DEF CoreAction, pvars
  <1>2. /\ q \in Seq(CoreActions) /\ node.seq \in Nat
        /\ node \in [exists : BOOLEAN, seq : Nat, requested : BOOLEAN, map : SUBSET Addr]
        /\ p.seq \in Nat /\ p.inst \in 1..Len(hist)
    BY SMTT(40) DEF IInv, TypeOK, CoreActions
  <1>3. /\ Head(q) = q[1] /\ Head(q) \in CoreActions /\ Tail(q) \in Seq(CoreActions)
        /\ \A i \in DOMAIN q : i = 1 \/ (i - 1 \in DOMAIN Tail(q) /\ q[i] = Tail(q)[i - 1])
    BY SMTT(40), <1>1, <1>2
  <1>4. \A x \in net' : x \in net \/ \E k \in Nat : x = MAR(k)
    BY <1>2 DEF CoreAction
  <1>5. net' \subseteq Message /\ NetFaithful'
    BY <1>1, <1>4, LessNet DEF pvars
  <1>6. /\ node' \in [exists : BOOLEAN, seq : Nat, requested : BOOLEAN, map : SUBSET Addr]
        /\ \/ node'.seq = 0 /\ node'.map = {}
           \/ Head(q) = "mobile_seq_advanced" /\ node' = node
    <2>1. CASE Head(q) = "flush"
      <3>1. node' = [node EXCEPT !.seq = 0, !.map = {}]
        BY <2>1 DEF CoreAction
      <3> QED BY <1>2, <3>1, Zenon
    <2>2. CASE Head(q) = "add_router"
      <3>1. node' = NewNode
        BY <2>2 DEF CoreAction
      <3> QED BY <3>1, Zenon DEF NewNode, NoNode
    <2>3. CASE Head(q) = "del_router"
      <3>1. node' = NoNode
        BY <2>3 DEF CoreAction
      <3> QED BY <3>1 DEF NoNode
    <2>4. CASE Head(q) = "mobile_seq_advanced"
      <3>1. node' = node
        BY <2>4 DEF CoreAction
      <3> QED BY <1>2, <2>4, <3>1
    <2> QED BY <1>3, <2>1, <2>2, <2>3, <2>4 DEF CoreActions
  <1>7. TypeOK'
    BY <1>1, <1>3, <1>5, <1>6, Zenon DEF IInv, TypeOK, CoreActions
  <1>8. InstancesKnown'
    BY <1>1 DEF IInv, InstancesKnown
  <1>9. NodeMatches'
    <2>1. CASE node'.seq = 0 /\ node'.map = {}
      <3>1. hist[p.inst][1] = {}
        BY <1>2 DEF IInv, HistStartsEmpty
      <3>2. node'.seq <= p.seq /\ node'.seq + 1 = 1
        BY <1>2, <2>1
      <3> QED BY <1>1, <2>1, <3>1, <3>2 DEF NodeMatches
    <2>2. CASE Head(q) = "mobile_seq_advanced" /\ node' = node
      <3>1. Current' => Current
        BY <1>1, <1>3, <2>2, Zenon DEF Current
      <3> QED BY <1>1, <2>2, <3>1 DEF IInv, NodeMatches
    <2> QED BY <1>6, <2>1, <2>2
  <1> QED BY <1>1, <1>5, <1>7, <1>8, <1>9, AdvertiserFrame DEF IInv, pvars

-----------------------------------------------------------------------------
\* The invariant is inductive.
LEMMA InductiveStep == ASSUME IInv, [Next]_vars PROVE IInv'
  <1>1. ASSUME NEW a \in Addr, LocalChange(a) PROVE IInv'
    BY <1>1, LocalChangeOK
  <1>2. CASE qcm_mobile_sync_on_timer_CT
    BY <1>2, TimerOK
  <1>3. CASE SetMyMobileSeq
    BY <1>3, SetMyMobileSeqOK
  <1>4. CASE send_ra
    BY <1>4, send_raOK
  <1>5. CASE Restart
    BY <1>5, RestartOK
  <1>6. ASSUME NEW m \in net, Receive(m) PROVE IInv'
    BY <1>6, MAROK, OnRAOK, MAUOK DEF Receive
  <1>7. ASSUME NEW m \in net, Lose(m) PROVE IInv'
    BY <1>7, LoseOK
  <1>8. CASE GeneralWork
    BY <1>8, GeneralWorkOK
  <1>9. CASE RequestMobile
    BY <1>9, RequestMobileOK
  <1>10. CASE Expire
    BY <1>10, ExpireOK
  <1>11. CASE CoreAction
    BY <1>11, CoreActionOK
  <1>12. CASE UNCHANGED vars
    <2>1. /\ cf' = cf /\ p' = p /\ hist' = hist /\ net' = net
          /\ node' = node /\ py' = py /\ q' = q /\ g' = g
      BY <1>12 DEF vars
    <2>2. TypeOK' /\ NetFaithful' /\ InstancesKnown' /\ NodeMatches'
      BY <2>1, Zenon DEF IInv, TypeOK, NetFaithful, InstancesKnown, NodeMatches, Current
    <2> QED BY <2>1, <2>2, AdvertiserFrame DEF IInv, pvars
  <1> QED BY <1>1, <1>2, <1>3, <1>4, <1>5, <1>6, <1>7, <1>8, <1>9, <1>10, <1>11, <1>12 DEF Next

\* In every execution the invariant holds.
THEOREM Invariant == Spec => []IInv
  <1>1. Init => IInv
    BY InitOK
  <1>2. IInv /\ [Next]_vars => IInv'
    BY InductiveStep
  <1> QED BY <1>1, <1>2, PTL DEF Spec

\* mobile.c's lists, sequence numbers and the receiver's queues keep their types; in
\* particular what set_my_mobile_seq has told Python never runs ahead of the core.
THEOREM TypeCorrect == Spec => []TypeOK
  <1>1. IInv => TypeOK
    BY DEF IInv
  <1> QED BY <1>1, Invariant, PTL

\* Whatever consumers do, and however many addresses and restarts there are, mobile
\* sync holds exactly one reference on each address that is announced or listed.
THEOREM References == Spec => []TrackedWhileListed
  <1>1. IInv => TrackedWhileListed
    BY DEF IInv
  <1> QED BY <1>1, Invariant, PTL

\* The absolute update that answers a MAR agrees at every sequence number with the
\* differential updates up to it.
THEOREM AbsoluteAgrees == Spec => []AbsoluteIsPublished
  <1>1. IInv => AbsoluteIsPublished
    BY AbsoluteOK DEF IInv
  <1> QED BY <1>1, Invariant, PTL

\* Under loss, duplication, reordering, restarts of the advertiser and its expiry at
\* the receiver, the receiver's map is what was announced at the number it holds.
THEOREM NoMixture == Spec => []MapMatchesSequence
  <1>1. IInv => MapMatchesSequence
    BY DEF IInv, NodeMatches, MapMatchesSequence
  <1> QED BY <1>1, Invariant, PTL
=============================================================================
