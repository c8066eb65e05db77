------------------------------ MODULE Addresses ------------------------------
(***************************************************************************)
(* The address table of the core: what an attach looks up and creates      *)
(* (address_lookup_client.c), the configured addresses it takes phases and *)
(* treatment from (agent_config_address.c), the binding of links, the      *)
(* pairing of an address with its fallback, the addresses other routers    *)
(* advertise, and the removal of an address nobody uses (router_core.c,    *)
(* connections.c, mobile.c).                                               *)
(*                                                                         *)
(* An address is known by its key <<name, phase>>: phases "0".."9", "F"    *)
(* for a fallback, "R" for the router class and "T" for generated ones.    *)
(* Events raised on the way belong to MobileSync and EdgeAddresses.  On an *)
(* edge router (field async) the lookup of an attach may end later, with   *)
(* what AddressLookup calls the local search.                              *)
(***************************************************************************)
EXTENDS Integers, Sequences, FiniteSets, TLC, SequencesExt, FiniteSetsExt

CONSTANT AdConfigs   \* [links, requests, creates, routers, lr, fwd, dflt, ends, async, maus]

VARIABLES adcfg, ad

advars == <<adcfg, ad>>

AdNoKey == <<"none", "-">>

AdCapacity == 1        \* the credit a producer is given when it starts

(* A configured address, as validated by the create request.               *)
AddressRequest(nm, f, pat, wp, inp, outp, prio, tr, fb) ==
  [name |-> nm, fields |-> f, pattern |-> pat, waypoint |-> wp, in |-> inp,
   out |-> outp, priority |-> prio, treat |-> tr, fallback |-> fb]

AdNewLink(d) ==
  [st |-> "new", addr |-> AdNoKey, no_route |-> d.no_route, pend |-> IF d.dir = "in" THEN AdCapacity ELSE 0,
   credit |-> 0, ans |-> "none", asked |-> FALSE]

qdr_add_local_address_CT(tr) ==
  [config |-> 0, treat |-> tr, rlinks |-> {}, inlinks |-> {}, rnodes |-> {}, refs |-> 1,
   core |-> TRUE, fallback |-> AdNoKey, fallback_for |-> AdNoKey]

AdInit ==
  /\ adcfg \in AdConfigs
  /\ ad = [table |-> [k \in {<<e, "0">> : e \in adcfg.ends} |-> qdr_add_local_address_CT("closest")],
           list |-> SetToSeq({<<e, "0">> : e \in adcfg.ends}),
           configs |-> <<>>,
           links |-> [l \in DOMAIN adcfg.links |-> AdNewLink(adcfg.links[l])],
           failed |-> {}, maus |-> 0, made |-> 0]

-----------------------------------------------------------------------------
(* Configured addresses.                                                   *)

(* The separators before and after the tokens are dropped, and a prefix    *)
(* matches everything under it.                                            *)
RECURSIVE StripSeparators(_)
StripSeparators(p) ==
  IF p # <<>> /\ Head(p) = "/" THEN StripSeparators(Tail(p))
  ELSE IF p # <<>> /\ Last(p) = "/" THEN StripSeparators(Front(p))
  ELSE p

qdra_config_address_validate_pattern_CT(q) ==
  LET t == StripSeparators(q.pattern) IN
  IF t = <<>> THEN <<>> ELSE IF "prefix" \in q.fields THEN t \o <<"#">> ELSE t

PhaseOf(q) ==
  IF q.in = -1 /\ q.out = -1
  THEN [in |-> 0, out |-> IF q.waypoint THEN 1 ELSE 0] ELSE [in |-> q.in, out |-> q.out]

AdRefused(s, q) ==
  LET p == PhaseOf(q) IN
  \/ \E i \in DOMAIN s.configs : s.configs[i].listed /\ s.configs[i].name = q.name
  \/ Cardinality(q.fields) # 1
  \/ q.fallback /\ (q.waypoint \/ q.in > 0 \/ q.out > 0)
  \/ qdra_config_address_validate_pattern_CT(q) = <<>>
  \/ {p.in, p.out} \ (0..9) # {}
  \/ q.priority > 9
  \/ \E i \in DOMAIN s.configs : /\ s.configs[i].listed
                                 /\ s.configs[i].pattern = qdra_config_address_validate_pattern_CT(q)

qdra_config_address_create_CT(s, q) ==
  IF AdRefused(s, q) THEN s
  ELSE [s EXCEPT !.configs = Append(@, [name |-> q.name, listed |-> TRUE, ref |-> 1,
          treat |-> q.treat, in |-> PhaseOf(q).in, out |-> PhaseOf(q).out, fallback |-> q.fallback,
          pattern |-> qdra_config_address_validate_pattern_CT(q)])]

(* The configuration leaves the list and the tree; the addresses made from *)
(* it keep it alive.                                                       *)
qdr_core_remove_address_config(s, i) ==
  [s EXCEPT !.configs[i].listed = FALSE, !.configs[i].ref = @ - 1]

qdra_config_address_delete_CT(s, nm) ==
  LET found == {i \in DOMAIN s.configs : s.configs[i].listed /\ s.configs[i].name = nm} IN
  IF found = {} THEN s ELSE qdr_core_remove_address_config(s, Min(found))

(* The most specific pattern of the tree that matches: the address itself  *)
(* before the prefix.                                                      *)
qdr_config_for_address_CT(s, a) ==
  LET hit(p) == {i \in DOMAIN s.configs : s.configs[i].listed /\ s.configs[i].pattern = p}
      all == hit(<<a>>) \cup hit(<<a, "#">>)
  IN IF all = {} THEN 0 ELSE IF hit(<<a>>) # {} THEN Min(hit(<<a>>)) ELSE Min(all)

-----------------------------------------------------------------------------
(* Addresses.                                                              *)

AdPaths(s, k) ==
  IF k = AdNoKey THEN 0 ELSE Cardinality(s.table[k].rlinks) + Cardinality(s.table[k].rnodes)

qdr_address_CT(s, k, tr, cf) ==
  IF tr = "unavailable" THEN s
  ELSE [s EXCEPT !.table = (k :> [config |-> cf, treat |-> tr, rlinks |-> {}, inlinks |-> {},
                                  rnodes |-> {}, refs |-> 0, core |-> FALSE,
                                  fallback |-> AdNoKey, fallback_for |-> AdNoKey]) @@ @,
                 !.list = Append(@, k),
                 !.configs = [i \in DOMAIN @ |-> IF i = cf THEN [@[i] EXCEPT !.ref = @ + 1] ELSE @[i]]]

(* The pairing with the fallback address, which is made when it is not     *)
(* there.  The code asserts that the fallback is nobody else's.            *)
qdr_setup_fallback_address_CT(s, k) ==
  LET f == <<k[1], "F">>
      t == IF f \in DOMAIN s.table THEN s ELSE qdr_address_CT(s, f, "balanced", 0)
  IN IF k[2] = "F" THEN s
     ELSE [t EXCEPT !.failed = IF t.table[f].fallback_for = AdNoKey THEN @ ELSE @ \cup {"fallback shared"},
                    !.table[k].fallback = f, !.table[f].fallback_for = k]

(* Everything that points at the address is disconnected.                  *)
qdr_core_remove_address(s, k) ==
  LET a == s.table[k]
      unpair(x) == [s.table[x] EXCEPT !.fallback_for = IF @ = k THEN AdNoKey ELSE @,
                                      !.fallback = IF @ = k THEN AdNoKey ELSE @]
  IN [s EXCEPT !.table = [x \in DOMAIN @ \ {k} |-> unpair(x)],
               !.list = RemoveFirst(@, k),
               !.configs = [i \in DOMAIN @ |-> IF i = a.config THEN [@[i] EXCEPT !.ref = @ - 1] ELSE @[i]],
               !.links = [l \in DOMAIN @ |-> IF l \in a.rlinks \cup a.inlinks
                                             THEN [@[l] EXCEPT !.addr = AdNoKey] ELSE @[l]]]

AdUnused(s, k) ==
  LET a == s.table[k] IN
  a.rlinks = {} /\ a.inlinks = {} /\ a.rnodes = {} /\ a.refs = 0 /\ ~a.core /\ a.fallback_for = AdNoKey

(* A fallback of an address has no fallback of its own, so the code's      *)
(* recursion is one level deep.                                            *)
AdCheckAddr_FirstOnly(s, k) ==
  IF k = AdNoKey \/ ~AdUnused(s, k) THEN s ELSE qdr_core_remove_address(s, k)
AdCheckAddr(s, k) ==
  IF k = AdNoKey \/ ~AdUnused(s, k) THEN s
  ELSE LET f == s.table[k].fallback
           t == qdr_core_remove_address(s, k)
       IN IF f = AdNoKey \/ ~AdUnused(t, f) THEN t ELSE qdr_core_remove_address(t, f)

(* Producers that wait for a destination get their credit.                 *)
AdStart(s, k) ==
  [s EXCEPT !.links = [l \in DOMAIN @ |-> IF l \in s.table[k].inlinks /\ @[l].pend > 0
                                          THEN [@[l] EXCEPT !.credit = @ + AdCapacity, !.pend = 0] ELSE @[l]]]

AdStartInlinks(s, k) ==
  LET first(x) == AdPaths(s, x) = 1 \/ AdPaths(s, s.table[x].fallback) = 1
      p == s.table[k].fallback_for
  IN IF ~first(k) THEN s
     ELSE IF p = AdNoKey \/ ~first(p) THEN AdStart(s, k) ELSE AdStart(AdStart(s, k), p)

AdBindLink(s, k, l) ==
  LET d == adcfg.links[l]
      t == [s EXCEPT !.links[l].addr = k]
  IN IF d.no_route THEN [t EXCEPT !.table[k].refs = @ + 1]
     ELSE IF d.dir = "in" THEN [t EXCEPT !.table[k].inlinks = @ \cup {l}]
     ELSE LET u == [t EXCEPT !.table[k].rlinks = @ \cup {l}] IN
          IF Cardinality(u.table[k].rlinks) = 1 THEN AdStartInlinks(u, k) ELSE u

AdUnbindLink(s, k, l) ==
  LET t == [s EXCEPT !.links[l].addr = AdNoKey] IN
  IF adcfg.links[l].no_route THEN t
  ELSE [t EXCEPT !.table[k].rlinks = @ \ {l}, !.table[k].inlinks = @ \ {l}]

-----------------------------------------------------------------------------
(* What an attach finds.                                                   *)

AdResult(s, k, lr, un) == [s |-> s, key |-> k, link_route |-> lr, unavailable |-> un]

(* A generated address is new by construction: the loop repeats until the  *)
(* name is not in the table.                                               *)
AdGenerated(s) ==
  LET k == <<ToString(s.made), "T">>
      t == qdr_address_CT([s EXCEPT !.made = @ + 1], k, "balanced", 0)
  IN AdResult(t, k, FALSE, FALSE)

PhaseKey(d, cf, s) ==
  LET c   == IF cf = 0 THEN [in |-> 0, out |-> 0] ELSE [in |-> s.configs[cf].in, out |-> s.configs[cf].out]
      p   == IF d.waypoint > 0 THEN [in |-> d.waypoint, out |-> d.waypoint - 1] ELSE c
      fbk == d.fallback /\ (d.dir = "out" \/ d.edge)
  IN <<d.addr, IF fbk THEN "F" ELSE ToString(IF d.dir = "in" THEN p.in ELSE p.out)>>

(* The message-routed address of a terminus, created when it is not there. *)
MessageRouted(s, d) ==
  LET cf == qdr_config_for_address_CT(s, d.addr)
      k  == PhaseKey(d, cf, s)
      tr == IF cf = 0 THEN adcfg.dflt ELSE s.configs[cf].treat
      t  == IF k \in DOMAIN s.table THEN s ELSE qdr_address_CT(s, k, tr, cf)
      ok == k \in DOMAIN t.table
      u  == IF ok /\ k \notin DOMAIN s.table /\ cf # 0 /\ s.configs[cf].fallback
            THEN qdr_setup_fallback_address_CT(t, k) ELSE t
  IN AdResult(u, IF ok THEN k ELSE AdNoKey, FALSE, ~ok)

RouterClass(s, d) ==
  LET k == <<d.addr, "R">> IN
  IF d.dir = "out" THEN AdResult(s, AdNoKey, FALSE, FALSE)
  ELSE IF k \in DOMAIN s.table THEN AdResult(s, k, FALSE, FALSE)
  ELSE AdResult(qdr_address_CT(s, k, "closest", 0), k, FALSE, FALSE)

qdr_lookup_terminus_address_CT(s, d) ==
  LET lr(a) == IF a \in adcfg.lr[d.dir] THEN <<a, "L">> ELSE AdNoKey IN
  IF d.kind = "dnp" THEN AdResult(s, lr(d.addr), TRUE, FALSE)
  ELSE IF d.kind = "dynamic" THEN AdGenerated(s)
  ELSE IF d.kind = "anonymous" THEN AdResult(s, AdNoKey, FALSE, FALSE)
  ELSE IF lr(d.addr) # AdNoKey THEN AdResult(s, lr(d.addr), TRUE, FALSE)
  ELSE IF d.kind = "router" THEN RouterClass(s, d)
  ELSE MessageRouted(s, d)

(* The answer to the attach.  A producer gets its credit with the answer   *)
(* when there is a destination, direct or by the fallback.                 *)
AdAnswered(s, l, how) ==
  [s EXCEPT !.links[l].ans = how, !.links[l].asked = FALSE,
            !.links[l].st = IF @ # "new" THEN @ ELSE IF how \in {"attached", "routed", "core"} THEN "open" ELSE "rejected"]

AdReached(s, k) == AdPaths(s, k) + AdPaths(s, s.table[k].fallback) > 0

AttachTo(s, l, k) ==
  LET d == adcfg.links[l]
      t == AdBindLink(s, k, l)
  IN AdAnswered(IF d.dir = "in" /\ AdReached(t, k)
              THEN [t EXCEPT !.links[l].credit = @ + AdCapacity, !.links[l].pend = 0] ELSE t, l, "attached")

qdr_link_react_to_first_attach_CT(r, l) ==
  LET d == adcfg.links[l]
      s == r.s
  IN IF r.key \in DOMAIN s.table /\ s.table[r.key].core THEN AdAnswered(s, l, "core")
     ELSE IF r.unavailable THEN AdAnswered(s, l, "not found")
     ELSE IF r.key = AdNoKey THEN AdAnswered(s, l, "no route")
     ELSE IF r.link_route
          THEN AdAnswered(s, l, IF d.survives THEN "expiration" ELSE IF d.addr \in adcfg.fwd THEN "routed" ELSE "no route")
     ELSE IF d.dir = "in" /\ d.kind = "coordinator" THEN AdAnswered(s, l, "precondition")
     ELSE AttachTo(s, l, r.key)

qcm_addr_lookup_local_search(s, l) ==
  qdr_link_react_to_first_attach_CT(qdr_lookup_terminus_address_CT(s, adcfg.links[l]), l)

-----------------------------------------------------------------------------
(* Detach.  The link is freed when the I/O thread has sent the answer.     *)

AdInboundDetach(s, l) ==
  LET k == s.links[l].addr
      t == IF k = AdNoKey THEN s ELSE AdUnbindLink(s, k, l)
      u == IF k # AdNoKey /\ adcfg.links[l].no_route THEN [t EXCEPT !.table[k].refs = @ - 1] ELSE t
  IN AdCheckAddr([u EXCEPT !.links[l].st = "closing", !.links[l].addr = AdNoKey], k)

AdLinkCleanup(s, l) ==
  [s EXCEPT !.table = [k \in DOMAIN @ |-> [@[k] EXCEPT !.rlinks = @ \ {l}, !.inlinks = @ \ {l}]],
            !.links[l].st = "gone", !.links[l].addr = AdNoKey]

-----------------------------------------------------------------------------
(* Addresses other routers advertise.                                      *)

(* An address the local configuration declares unavailable cannot be made, *)
(* which the code holds impossible.                                        *)
RemoteAdd(s, r, k) ==
  LET cf == qdr_config_for_address_CT(s, k[1])
      tr == IF cf = 0 THEN "balanced" ELSE s.configs[cf].treat
      t  == IF k \in DOMAIN s.table THEN s ELSE qdr_address_CT(s, k, tr, cf)
  IN IF k \notin DOMAIN t.table THEN [t EXCEPT !.failed = @ \cup {"unavailable"}]
     ELSE IF r \in t.table[k].rnodes THEN t
     ELSE AdStartInlinks([t EXCEPT !.table[k].rnodes = @ \cup {r}], k)

RemoteDel(s, r, k) ==
  IF k \in DOMAIN s.table /\ r \in s.table[k].rnodes
  THEN AdCheckAddr([s EXCEPT !.table[k].rnodes = @ \ {r}], k) ELSE s

(* The last loop of an absolute update walks core->addrs and takes the     *)
(* next address before it removes the current one.                         *)
RECURSIVE SweepFrom(_, _, _, _)
SweepFrom(s, r, keep, k) ==
  IF k = AdNoKey THEN s
  ELSE IF k \notin DOMAIN s.table THEN [s EXCEPT !.failed = @ \cup {"swept a freed address"}]
  ELSE LET i == CHOOSE j \in DOMAIN s.list : s.list[j] = k
           next == IF i = Len(s.list) THEN AdNoKey ELSE s.list[i + 1]
       IN SweepFrom(IF k \in keep THEN s ELSE RemoteDel(s, r, k), r, keep, next)

AdOnMau(s, r, absolute, adds, dels) ==
  LET t == FoldSet(LAMBDA k, x : RemoteAdd(x, r, k), s, adds) IN
  IF absolute THEN SweepFrom(t, r, adds, IF t.list = <<>> THEN AdNoKey ELSE t.list[1])
  ELSE FoldSet(LAMBDA k, x : RemoteDel(x, r, k), t, dels)

qcm_mobile_sync_on_router_flush_CT(s, r) ==
  SweepFrom(s, r, {}, IF s.list = <<>> THEN AdNoKey ELSE s.list[1])

-----------------------------------------------------------------------------
AdCreate(q) ==
  /\ Len(ad.configs) < adcfg.creates
  /\ ad' = qdra_config_address_create_CT(ad, q)
  /\ UNCHANGED adcfg

AdDelete(nm) ==
  /\ ad' = qdra_config_address_delete_CT(ad, nm)
  /\ UNCHANGED adcfg

AdAttach(l) ==
  /\ ad.links[l].st = "new" /\ ~ad.links[l].asked
  /\ ad' = IF adcfg.async THEN [ad EXCEPT !.links[l].asked = TRUE] ELSE qcm_addr_lookup_local_search(ad, l)
  /\ UNCHANGED adcfg

(* The asynchronous lookup ends: the link has not been freed.              *)
AdLookupDone(l) ==
  /\ ad.links[l].asked /\ ad.links[l].st # "gone"
  /\ ad' = qcm_addr_lookup_local_search(ad, l)
  /\ UNCHANGED adcfg

AdDetach(l) ==
  /\ ad.links[l].st \in {"open", "rejected"} \/ (ad.links[l].st = "new" /\ ad.links[l].asked)
  /\ ad' = AdInboundDetach(ad, l)
  /\ UNCHANGED adcfg

AdDetachSent(l) ==
  /\ ad.links[l].st = "closing"
  /\ ad' = AdLinkCleanup(ad, l)
  /\ UNCHANGED adcfg

AdUpdate(r, absolute, adds, dels) ==
  /\ ad.maus < adcfg.maus /\ adds \cap dels = {} /\ (absolute => dels = {})
  /\ ad' = AdOnMau([ad EXCEPT !.maus = @ + 1], r, absolute, adds, dels)
  /\ UNCHANGED adcfg

AdFlush(r) ==
  /\ ad.maus < adcfg.maus /\ TRUE \in adcfg.absolute
  /\ ad' = qcm_mobile_sync_on_router_flush_CT([ad EXCEPT !.maus = @ + 1], r)
  /\ UNCHANGED adcfg

AdNext ==
  \/ \E q \in adcfg.requests : AdCreate(q) \/ AdDelete(q.name)
  \/ \E l \in DOMAIN ad.links : AdAttach(l) \/ AdLookupDone(l) \/ AdDetach(l) \/ AdDetachSent(l)
  \/ \E r \in adcfg.routers : AdFlush(r)
  \/ \E r \in adcfg.routers, absolute \in adcfg.absolute, adds, dels \in SUBSET adcfg.remote :
        AdUpdate(r, absolute, adds, dels)

AdSpec == AdInit /\ [][AdNext]_advars

-----------------------------------------------------------------------------
(* An address that nothing uses is removed: qdr_check_addr_CT says "If the *)
(* address has no in-process consumer or destinations, it should be        *)
(* deleted".  An address waiting for a rejected coordinator is excepted.   *)
NoUnusedAddress ==
  \A k \in DOMAIN ad.table : AdUnused(ad, k) => \E l \in DOMAIN ad.links : adcfg.links[l].kind = "coordinator"

(* Whatever the order of configuration changes, attaches, detaches and     *)
(* updates from other routers: a configuration has exactly the references  *)
(* of the list and of the addresses made from it, and lives while it has   *)
(* one; the list and the table hold the same addresses; an address and its *)
(* fallback point at each other; a bound link is in the lists of its       *)
(* address and of no other; nothing unused stays, unless a lookup ended    *)
(* after the link's detach.                                                *)
AddressesConsistent ==
  /\ \A i \in DOMAIN ad.configs :
        ad.configs[i].ref = (IF ad.configs[i].listed THEN 1 ELSE 0)
                            + Cardinality({k \in DOMAIN ad.table : ad.table[k].config = i})
  /\ ToSet(ad.list) = DOMAIN ad.table /\ Len(ad.list) = Cardinality(DOMAIN ad.table)
  /\ \A k \in DOMAIN ad.table :
        LET a == ad.table[k] IN
        /\ a.fallback # AdNoKey => a.fallback \in DOMAIN ad.table /\ ad.table[a.fallback].fallback_for = k
        /\ a.fallback_for # AdNoKey => a.fallback_for \in DOMAIN ad.table /\ ad.table[a.fallback_for].fallback = k
        /\ \A l \in a.rlinks \cup a.inlinks : ad.links[l].addr = k /\ (ad.links[l].st = "open" \/ adcfg.async)
  /\ \A l \in DOMAIN ad.links : ad.links[l].addr # AdNoKey => ad.links[l].addr \in DOMAIN ad.table
  /\ ad.failed = {}
  /\ ~adcfg.async => NoUnusedAddress

(* A producer bound to an address with a destination, its own or the       *)
(* fallback's, has been given its credit, once: the code issues it at the  *)
(* attach or when the first destination appears.                           *)
ReachableCredited ==
  \A l \in DOMAIN ad.links :
     LET x == ad.links[l] IN
     /\ x.credit <= AdCapacity
     /\ (x.st = "open" /\ x.addr # AdNoKey /\ adcfg.links[l].dir = "in" /\ ~x.no_route /\ AdReached(ad, x.addr))
        => x.credit = AdCapacity /\ x.pend = 0

(* The tables of addresses and their links, and the credit that rests on   *)
(* them (qdr_check_addr_CT, qdr_addr_start_inlinks_CT).                     *)
AddressesSound == AddressesConsistent /\ ReachableCredited
=============================================================================
