------------------------------ MODULE Exchange ------------------------------
(***************************************************************************)
(* Exchanges and bindings, src/router_core/exchange_bindings.c: management *)
(* creates and deletes them and pages through them, consumers come and go  *)
(* at the addresses, and messages are forwarded.  All of it runs in the    *)
(* core thread.  A next hop is an address with its phase; no next hop is   *)
(* the address of an exchange (forwarding is then recursive).              *)
(***************************************************************************)
EXTENDS ParseTree

CONSTANTS XConfigs,     \* exchanges: name, address, match method, alternate or NoHop
          BNames,       \* names of bindings
          Hop,          \* next hops
          Consumed,     \* addresses where consumers come and go
          XKeys,        \* binding keys
          Subjects,     \* subjects of messages
          MaxBindings   \* at most so many bindings exist

VARIABLES
  xs,       \* core->exchanges
  xaddr,    \* the addresses that exist: ref_count, and whether there are consumers (rlinks)
  xquery,   \* a query for the bindings: the rows it has returned, next_offset, more, and whether
            \* the bindings have stayed the same since it began
  xsent     \* the last message, until something else happens: where it went and how its sender
            \* was answered

xvars == <<xs, xaddr, xquery, xsent>>

NoHop == "none"     \* no alternate, no name
NoMessage == [ex |-> 0, subject |-> <<>>, to |-> <<>>, settled |-> FALSE, accepted |-> FALSE]
NoQuery == [on |-> FALSE, rows |-> <<>>, offset |-> 0, same |-> FALSE]

-----------------------------------------------------------------------------
(* Addresses.                                                               *)

FreshAddr == [ref |-> 0, rlinks |-> FALSE]

\* The address is looked up, created if need be, and referenced.
AddressRef(A, a) ==
    [b \in DOMAIN A \cup {a} |->
        LET old == IF b \in DOMAIN A THEN A[b] ELSE FreshAddr
        IN  IF b = a THEN [old EXCEPT !.ref = @ + 1] ELSE old]

qdr_check_addr_CT(A, a) ==
    IF A[a].ref = 0 /\ ~A[a].rlinks THEN [b \in DOMAIN A \ {a} |-> A[b]] ELSE A

AddressUnref(A, a) == qdr_check_addr_CT([A EXCEPT ![a].ref = @ - 1], a)

-----------------------------------------------------------------------------
(* Next hops and bindings of an exchange: c has the exchange and the        *)
(* addresses.                                                               *)

next_hop(c, hop) ==
    IF hop \in DOMAIN c.ex.hops THEN [c EXCEPT !.ex.hops[hop] = @ + 1]
    ELSE [ex |-> [c.ex EXCEPT !.hops = [h \in DOMAIN @ \cup {hop} |-> IF h = hop THEN 1 ELSE @[h]]],
          A |-> AddressRef(c.A, hop)]

next_hop_release(c, hop) ==
    IF c.ex.hops[hop] > 1 THEN [c EXCEPT !.ex.hops[hop] = @ - 1]
    ELSE [ex |-> [c.ex EXCEPT !.hops = [h \in DOMAIN @ \ {hop} |-> @[h]]],
          A |-> AddressUnref(c.A, hop)]

\* Bindings with the same pattern share a node of the tree.
qdr_binding(c, b) ==
    LET d == next_hop(c, b.hop)
        found == qd_parse_tree_get_pattern(d.ex.tree, b.key)
        n == normalize_pattern(d.ex.tree.type, b.key)
        tree == IF found = NoPattern THEN parse_node_add_pattern(d.ex.tree, b.key, <<b>>)
                ELSE [d.ex.tree EXCEPT !.nodes[n] = Append(@, b)]
    IN  [d EXCEPT !.ex.tree = tree, !.ex.bindings = Append(@, b)]

qdr_binding_free(c, b) ==
    LET n == normalize_pattern(c.ex.tree.type, b.key)
        left == Remove(c.ex.tree.nodes[n], b)
        tree == IF left = <<>> THEN qd_parse_tree_remove_pattern(c.ex.tree, b.key)
                ELSE [c.ex.tree EXCEPT !.nodes[n] = left]
    IN  next_hop_release([c EXCEPT !.ex.tree = tree, !.ex.bindings = Remove(@, b)], b.hop)

-----------------------------------------------------------------------------
(* Management.                                                              *)

AllBindings == FlattenSeq([i \in DOMAIN xs |-> xs[i].bindings])

\* What is remembered of a query: nothing once it has ended, and no rows once the bindings
\* have changed.
Changed == xquery' = IF xquery.on THEN [xquery EXCEPT !.same = FALSE, !.rows = <<>>] ELSE NoQuery
Unchanged == xquery' = IF xquery.on THEN xquery ELSE NoQuery

\* A refused request leaves everything as it is.
qdra_config_exchange_create_CT(name, addr, method, alternate) ==
    /\ \A i \in DOMAIN xs : xs[i].addr # addr /\ xs[i].name # name
    /\ LET ex == [name |-> name, addr |-> addr, tree |-> qd_parse_tree_new(method),
                  alternate |-> alternate, bindings |-> <<>>, hops |-> <<>>]
           c == [ex |-> ex, A |-> AddressRef(xaddr, addr)]
           d == IF alternate = NoHop THEN c ELSE next_hop(c, alternate)
       IN  xs' = Append(xs, d.ex) /\ xaddr' = d.A
    /\ Changed
    /\ xsent' = NoMessage

\* All bindings are freed, from the first, then the alternate, then the address is given up.
qdr_exchange_free(c) ==
    LET k == Len(c.ex.bindings)
        freed[i \in 0..k] == IF i = 0 THEN c ELSE qdr_binding_free(freed[i - 1], c.ex.bindings[i])
        d == IF c.ex.alternate = NoHop THEN freed[k] ELSE next_hop_release(freed[k], c.ex.alternate)
    IN  AddressUnref(d.A, c.ex.addr)

qdra_config_exchange_delete_CT(i) ==
    /\ xs' = RemoveAt(xs, i)
    /\ xaddr' = qdr_exchange_free([ex |-> xs[i], A |-> xaddr])
    /\ Changed
    /\ xsent' = NoMessage

\* A name is unique in its exchange, and so are key and next hop together.
qdra_config_binding_create_CT(i, b) ==
    /\ Len(AllBindings) < MaxBindings
    /\ qd_parse_tree_validate_pattern(xs[i].tree.type, b.key)
    /\ \A j \in DOMAIN xs[i].bindings :
         LET o == xs[i].bindings[j]
         IN  ~(b.name # NoHop /\ b.name = o.name) /\ ~(b.key = o.key /\ b.hop = o.hop)
    /\ LET c == qdr_binding([ex |-> xs[i], A |-> xaddr], b)
       IN  xs' = [xs EXCEPT ![i] = c.ex] /\ xaddr' = c.A
    /\ Changed
    /\ xsent' = NoMessage

\* find_binding by its identity
qdra_config_binding_delete_CT(i, b) ==
    /\ LET c == qdr_binding_free([ex |-> xs[i], A |-> xaddr], b)
       IN  xs' = [xs EXCEPT ![i] = c.ex] /\ xaddr' = c.A
    /\ Changed
    /\ xsent' = NoMessage

\* A page of one row.  After the last binding of an exchange there may be more only when
\* another exchange follows.
\* (mutant: an exchange without bindings ends the search)
get_binding_at_index_EmptyEnds(n) ==
    LET before[i \in 0..Len(xs)] == IF i = 0 THEN 0 ELSE before[i - 1] + Len(xs[i].bindings)
        at == {i \in DOMAIN xs : before[i] > n}
    IN  IF at = {} \/ \E i \in 1..Min(at) : xs[i].bindings = <<>> THEN <<>>
        ELSE <<Min(at), n - before[Min(at) - 1] + 1>>

get_binding_at_index(n) ==
    LET before[i \in 0..Len(xs)] == IF i = 0 THEN 0 ELSE before[i - 1] + Len(xs[i].bindings)
        at == {i \in DOMAIN xs : before[i] > n}
    IN  IF at = {} THEN <<>> ELSE <<Min(at), n - before[Min(at) - 1] + 1>>

Row(q) ==
    LET p == get_binding_at_index(q.offset)
    IN  IF p = <<>> THEN [q EXCEPT !.on = FALSE]
        ELSE [q EXCEPT !.rows = IF q.same THEN Append(@, xs[p[1]].bindings[p[2]]) ELSE @, !.offset = @ + 1,
                       !.on = p[2] < Len(xs[p[1]].bindings) \/ p[1] < Len(xs)]

qdra_config_binding_get_first_CT ==
    /\ ~xquery.on
    /\ xquery' = Row([NoQuery EXCEPT !.on = TRUE, !.same = TRUE])
    /\ xsent' = NoMessage
    /\ UNCHANGED <<xs, xaddr>>

qdra_config_binding_get_next_CT ==
    /\ xquery.on
    /\ xquery' = Row(xquery)
    /\ xsent' = NoMessage
    /\ UNCHANGED <<xs, xaddr>>

-----------------------------------------------------------------------------
(* Consumers and messages.                                                  *)

\* The first consumer comes, or the last one goes.
Consumers(a) ==
    /\ LET there == IF a \in DOMAIN xaddr THEN xaddr[a] ELSE FreshAddr
           A == [b \in DOMAIN xaddr \cup {a} |->
                    IF b = a THEN [there EXCEPT !.rlinks = ~@] ELSE xaddr[b]]
       IN  xaddr' = qdr_check_addr_CT(A, a)
    /\ Unchanged
    /\ xsent' = NoMessage
    /\ UNCHANGED xs

\* The next hops of the bindings at the visited nodes, each once.
gather_next_hops(ex, subject) ==
    LET hops(visited) == [i \in DOMAIN visited |->
            LET bs == ex.tree.nodes[visited[i]] IN [j \in DOMAIN bs |-> bs[j].hop]]
        once(all) ==
            LET first == {i \in DOMAIN all : \A j \in 1..i - 1 : all[j] # all[i]}
            IN  [n \in 1..Cardinality(first) |->
                    all[CHOOSE i \in first : Cardinality({j \in first : j <= i}) = n]]
    IN  once(FlattenSeq(hops(parse_node_find(ex.tree, subject))))

\* Forwarded to whoever consumes from the address.
send_message(a) == IF xaddr[a].rlinks THEN <<a>> ELSE <<>>

qdr_forward_exchange_CT(i, subject, mode) ==
    /\ LET ex == xs[i]
           direct(hops) ==
               FlattenSeq(<<send_message(ex.addr)>> \o [j \in DOMAIN hops |-> send_message(hops[j])])
           or_alternate(to) ==
               IF to = <<>> /\ ex.alternate # NoHop THEN send_message(ex.alternate) ELSE to
           sent(to) == [ex |-> i, subject |-> subject, to |-> to,
                        settled |-> mode = "presettled" \/ to # <<>>,
                        accepted |-> mode = "complete" /\ to # <<>>]
       IN  xsent' = sent(or_alternate(direct(gather_next_hops(ex, subject))))
    /\ Unchanged
    /\ UNCHANGED <<xs, xaddr>>

-----------------------------------------------------------------------------
XInit == xs = <<>> /\ xaddr = <<>> /\ xquery = NoQuery /\ xsent = NoMessage

Bindings == [name : BNames, key : XKeys, hop : Hop]

XNext ==
    \/ \E x \in XConfigs : qdra_config_exchange_create_CT(x.name, x.addr, x.method, x.alternate)
    \/ \E i \in DOMAIN xs :
         \/ qdra_config_exchange_delete_CT(i)
         \/ \E b \in Bindings : qdra_config_binding_create_CT(i, b)
         \/ \E b \in ToSet(xs[i].bindings) : qdra_config_binding_delete_CT(i, b)
         \/ \E s \in Subjects, mode \in {"presettled", "complete", "streaming"} :
              qdr_forward_exchange_CT(i, s, mode)
    \/ \E a \in Consumed : Consumers(a)
    \/ qdra_config_binding_get_first_CT \/ qdra_config_binding_get_next_CT

XSpec == XInit /\ [][XNext]_xvars

-----------------------------------------------------------------------------
(* Properties.                                                              *)

Count(seq, Test(_)) == Cardinality({i \in DOMAIN seq : Test(seq[i])})

\* next_hop and next_hop_release, qdr_exchange and qdr_exchange_free: a next hop counts the
\* bindings and alternates that use it, an address the exchanges and next hops; an address
\* without references and consumers is gone, and one with them is there.
ExchangeRefs ==
    /\ \A i \in DOMAIN xs : \A h \in Hop :
         LET users == Count(xs[i].bindings, LAMBDA b : b.hop = h)
                    + (IF xs[i].alternate = h THEN 1 ELSE 0)
         IN  IF users = 0 THEN h \notin DOMAIN xs[i].hops ELSE xs[i].hops[h] = users
    /\ \A a \in {x.addr : x \in XConfigs} \cup Hop :
         LET refs == Count(xs, LAMBDA ex : ex.addr = a) + Count(xs, LAMBDA ex : a \in DOMAIN ex.hops)
         IN  IF a \in DOMAIN xaddr THEN xaddr[a].ref = refs /\ (refs > 0 \/ xaddr[a].rlinks)
             ELSE refs = 0

\* "we guarantee only 1 copy of a message is forwarded to a given nextHop+phase even if multiple
\* distinct patterns are matched" (qdr_binding_t): a message goes once to each consumer whose
\* bindings match its subject and to no other, to the alternate only when there is none, and its
\* sender's delivery is settled exactly when it was forwarded or came settled.
ForwardedOnce ==
    xsent # NoMessage =>
        LET ex == xs[xsent.ex]
            matched == {b.hop : b \in {x \in ToSet(ex.bindings) :
                                         Matches(ex.tree.type, x.key, xsent.subject)}}
            consumed(S) == {a \in S : xaddr[a].rlinks}
            direct == consumed(matched \cup {ex.addr})
        IN  /\ ToSet(xsent.to) = IF direct # {} \/ ex.alternate = NoHop THEN direct
                                 ELSE consumed({ex.alternate})
            /\ Len(xsent.to) = Cardinality(ToSet(xsent.to))
            /\ xsent.accepted => xsent.settled
            /\ ~xsent.settled => xsent.to = <<>>

\* qdra_config_binding_get_next_CT: when the bindings stay as they are, a query that has ended
\* has returned each of them once and in order.
QueryComplete ==
    ~xquery.on /\ xquery.same => xquery.rows = AllBindings

\* References, forwarding and queries are as described above.
ExchangeSound == ExchangeRefs /\ ForwardedOnce /\ QueryComplete
=============================================================================
