# A TLA+ verification of the Qpid Dispatch router

The router is an AMQP message router. I/O threads own connections and run Proton;
one core thread owns the address table, the links and every delivery; a Python
routing engine exchanges HELLO, RA, LSU and LSR messages with other routers, computes
routes and hands them to the core. Threads talk through queues: I/O threads and
Python append *actions* to the core's queue, the core appends *work* to links and
connections and wakes their I/O threads, and *general work* for Python. Most of what
can go wrong lies in what happens between an entry's being queued and its being
handled, and that is what the models are about.

Paths below are relative to the repository (`src/`, `python/`, `include/`).

## How to run

    tlc -config MCTables.cfg MCTables        any row of the table of runs
    tlapm MobileSync_proofs.tla              any module named *_proofs, MaskBits, ShortestPathTree

## Modules

Each module models the named code; the header of each says what its state stands
for. State variables are records whose fields keep the names of the code's fields
where these are telling, operators and actions the names of the functions they
translate. A function of the code that changes a structure is an operator from the
structure to the changed one; an action applies the whole chain of calls of a
handler.

Routes

| module | code | state and actions |
|---|---|---|
| `ShortestPathTree` | `router/path.py` | what the tree computation promises: cost, prev and the unresolved set; one step per resolved node |
| `PathEngine`, `PathTree` | `router/path.py` | the functions over NodeSet's ordered list, and the loop that runs them; a dict's order is a choice |
| `MeshForwarding` | `forwarder.c`, `trace_mask.c`, `router_node.c` | one message in a network whose routers know possibly different maps: the copies and their traces |
| `RouteTables` | `route_tables.c`, `forwarder.c` | router nodes by mask bit, list by cost, links, mappings of addresses, the cache of closest routers |
| `MaskBits`, `NodeTracker` | `router/node.py`, `hello.py`, `link.py`, `data.py`, `router_pynode.c` | the tracker and its nodes, both queues between Python and the core; HELLO and link state handlers, tick, core actions, connections |
| `MobileSync` | `mobile_sync/mobile.c`, `node.py`, `link.py` | advertiser (lists, number, links) and receiver (core node, Python node, queues) and the network between them |

Messages and links

| module | code | state and actions |
|---|---|---|
| `Delivery` | `delivery.c`, `transfer.c`, `forwarder.c`, `connections.c`, `router_node.c` | one message's deliveries: references, peers, lists, settlement, outcome; core steps and one I/O thread per link |
| `OutLink` | `transfer.c`, `forwarder.c`, `connections.c`, `router_node.c` | undelivered list, work list, credit, drain, Q3, detach; core, I/O thread and consumer |
| `InLink` | the same | credit limit, drain and paths of a sender's link |
| `MessageStream` | `message.c`, `router_node.c` | buffer list, reference counts, Q2 and Q3, abort and discard; the sender's and the receivers' threads |
| `MessageSections` | `message.c` | sections and properties located while octets arrive; stream data of several readers and their release |
| `Annotations` | `message.c`, `parse.c` | parsing and composing message annotations, hop by hop |
| `Codec` | `compose.c`, `parse.c`, `buffer_field_api.h` | the encoder over chains of small buffers and the decoder |

Connections and addresses

| module | code | state and actions |
|---|---|---|
| `ContainerEvents` | `container.c`, `router_node.c`, `server.c`, `connections.c` | the objects pn_link, qd_link and qdr_link of one connection, Proton's event queue, deferred calls, work |
| `Addresses` | `router_core.c`, `address_lookup_client.c`, `agent_config_address.c`, `connections.c`, `mobile.c` | the table of addresses, configurations and their references, fallbacks, bound links and their credit |
| `RouteControl` | `route_control.c`, `agent_config_*.c`, `core_timer.c` | link routes, auto links, connection identifiers, retries |
| `Exchange` | `exchange_bindings.c` | exchanges, bindings, next hops and their addresses, the paged query |
| `ParseTree` | `parse_tree.c` | a tree of token patterns as a function from nodes to payloads |
| `AddressIterator`, `HashTable` | `iterator.c`, `hash.c` | views of an address, octet by octet; buckets, items and handles |
| `Connectors`, `Timer` | `server.c`, `connection_manager.c`, `timer.c` | a connector's state, timer, connection and failover list; the list of timers |
| `RemoteSasl` | `remote_sasl.c` | the two connections of a relayed authentication and their shared context |
| `Policy`, `LinkPolicy` | `policy.c`, `policy_local.py`, `policy_util.py`, `policy_manager.py` | vhosts, counts of connections, the questions C asks Python; compiled rules and link names |
| `Agent` | `agent.c`, `management_agent.c`, `agent_*.c` | requests, the core's queries over changing tables, the list of responses and its timer |
| `AllocPool` | `alloc_pool.c`, `alloc_pool.h` | thread pools, the global pool, the heap; safe pointers |

Edge routers

| module | code | state and actions |
|---|---|---|
| `EdgeAddresses` | `addr_proxy.c`, `edge_addr_tracking.c`, `core_events.c` | proxy links on each edge router, tracking state in the interior router, messages between them |
| `EdgeRoutes` | `link_route_proxy.c`, `edge_mgmt.c`, `agent_conn_link_route.c` | link route proxies and the management requests about them |
| `AddressLookup` | `address_lookup_client.c`, `core_client_api.c`, `core_link_endpoint.c`, `address_lookup_server.c`, `edge_router/connection_manager.c` | lookups of attaching links, the client's lists and credit, timers, the active edge connection |
| `Heartbeat` | `heartbeat_edge.c`, `heartbeat_server.c` | the beat, its credit, two clocks and the threshold |

How they fit together: `NodeTracker` runs `RouteTables`' handlers and `MaskBits`'
allocator and computes routes with `PathEngine`; `PathTree` implements
`ShortestPathTree`; `MeshForwarding` gives every router the routes of `PathEngine`;
`Exchange` and `LinkPolicy` search `ParseTree`; `HashTable` is keyed by
`AddressIterator`'s views; `Annotations` and `MessageSections` read with `Codec`.
The other modules meet at queues, and each takes what the others may put there as
its environment.

The MC modules hold the instances. `MCTables`, `MCConnections`, `MCServices` and
`MCManagement` each hold several independent parts: the variable `part` says which one a behaviour exercises
while the others rest in an initial state. The parts do not interact; they share a
run, and fairness is stated for the part at work.

## Runs

| run | module / configuration | what it asks |
|---|---|---|
| `mesh` | `MCMeshForwarding` / `MCMesh.cfg` | settled routes deliver, unsettled ones do not loop for ever, the loop over NodeSet implements `ShortestPathTree` |
| `tables` | `MCTables` / `MCTables.cfg` | trees, route tables, mask bits, patterns, exchanges, link rules, pools, iterators, hash tables, codec, annotations, sections |
| `connections` | `MCConnections` / `MCConnections.cfg` | container, addresses, edge addresses, edge link routes, node tracker |
| `delivery` | `MCDelivery` / `MCDelivery.cfg` | references, credit and outcomes of one message |
| `delivery_live` | `MCDelivery` / `MCDeliveryLive.cfg` | settlements spread, deliveries are freed |
| `mobile_sync` | `MCMobileSync` / `MCMobileSync.cfg` | the receiver's mapping is always one that was announced, and in the end the right one |
| `services` | `MCServices` / `MCServices.cfg` | links, streams, timers, connectors, heartbeats, relayed authentication: sound, and they go on |
| `management` | `MCManagement` / `MCManagement.cfg` | link routes, management requests, policy, lookups: sound, and answered |
| `tracker_next_hops`, `stream_stuck`, `connector_restart`, `limits_swapped` | `MCConnections`, `MCServices`, `MCServices`, `MCManagement` | the four findings below |

`PROJECT.json` lists the properties of each run; in its module every property is
preceded by what it says. Deadlock is not checked: every part comes to rest when its
environment has used up its bounded number of changes. What must hold at rest is
part of the properties (`RestIsClean` in `ContainerEvents`, the liveness
properties).

### Bounds, and why they are enough

- `mesh`: every symmetric map of four routers, the smallest network with two disjoint
  paths of equal cost. Link costs 1 and 2 for settled anycast and for trees, 1 elsewhere; a
  change loses one link, and routers learn of it one by one while the message travels.
  Trees are computed for the root 2.
- `tables`: trees on all maps of three routers with costs to 2, the ends of a link free to
  disagree. Route tables with three mask bits, one link, one address and costs to 3: a cache
  goes wrong when two routers of the address change places. Nine mask bits. Patterns of up to
  three tokens, two at a time: every pair of adjacent wildcards. Two exchanges, two bindings.
  Pools of two threads, with chunks of two items and batches of two and three, so that
  batches cross chunks. Addresses of up to four characters or words that steer the parser,
  and longer ones with up to five calls. Buffers of 1, 3, 4, 5 and 100 octets, so that lengths
  and counts are cut at every place. Messages of up to six sections in buffers of 3 to 14
  octets, read by up to two readers; two that share buffers have three pieces of stream data,
  the fewest with which one of them can free the buffer at which the other's range ends.
- `connections`: one connection with up to two sessions and two links; up to five links of
  different kinds with a fallback or a waypoint's phases; two edge routers with one client
  each, or one with two; one link route that comes, goes and comes back over two connections
  with one failure or over one with two, or two link routes; two other routers, two connections, one or two mask
  bits, two boot numbers. The link is detached with and without closing.
- `delivery`: one message and one or two receivers: multicast needs two to disagree. The
  core's handlers are split where an I/O thread can see them half done.
- `mobile_sync`: two addresses, two changes, one restart or expiry. In three
  configurations messages stay in the network and may arrive again at any time; in the
  fourth they are lost and overtaken, and convergence is claimed there. The safety
  properties are proved for every number of addresses, changes and restarts (below).
- `services`: up to three deliveries, two credits, two drains; messages of up to five
  buffers where Q2 stops at three; one periodic and one single timer; lists of up to two
  other hosts; two edge connections; two rounds of challenges.
- `management`: one or two requests on tables of up to three rows, so that a query has a
  row before, at and after a change; two connections with one label and one container
  name between them; up to four connections to two vhosts; two lookups with credit for one.

### Fairness, and what justifies it

Weak fairness, on steps a thread takes by itself: the core thread empties its queue
(`router_core_thread` waits on a condition that every enqueue signals), an I/O thread
runs when its connection was activated and finishes what it has begun, timers fire, the
Python thread runs. Of the environment this is assumed: transports write what they were
given (`OutLink`, `MessageStream`); a sender that has begun a message goes on while it
has room, and a receiver that a message is queued for has given credit for it
(`MessageStream`, and `Delivery` in `delivery_live`); an attempt to connect succeeds or
fails, and a peer answers a close (`Connectors`); the interior router takes requests and returns credit
(`AddressLookup`); the client and the service of an authentication answer
(`RemoteSasl`, with strong fairness, because Proton may call `prepare` any number of times when
there is nothing to relay, which keeps neither thread from its frames for ever); the interior
router's clock advances and what was sent arrives
(`Heartbeat`). `MobileSync` assumes strong fairness of the reception of each kind of
message, for any message may be lost, but what is sent again and again arrives in the end.
Otherwise nothing is assumed of consumers, who may never grant credit or settle, of links and
connections, which may stay or go, or of management. In the composed runs the same
conjuncts are stated for the part at work.

## What is proved

TLAPS proves the following for every value of the constants.

`ShortestPathTree` holds its own, for every set of routers with natural numbers as ids (they
stand for the order of the id strings) and every map of link costs: `TreeTypeCorrect`;
`CostsAreOptimal`, the equations of shortest paths; `PrevAlwaysLeadsToRoot`, costs fall
along prev until the root; and `TreeIsCanonical`, which is `TreeCanonical` of run
`tables`: among the links on a cheapest path to a node the one whose near end comes first
in the order of (cost, id) is chosen, so that routers that know the same map compute the
same tree. None of these, claimed when the loop is done, is inductive. `SPInv` says of the loop at
every moment that nodes are resolved in the order of (cost, id), that the links out of
resolved nodes have been relaxed, that a reached node's predecessor is resolved, and that
it is the first of the candidates *so far*. Only `Resolve` disturbs it, and its lemma has a
step per conjunct.

`MaskBits` holds its own, for every number of bits from two: `NextAlwaysLowestFree` and
`BitsAlwaysAccounted`, the property `BitsAccounted` of run `tables`: the bits in use are
those granted to nodes and bit 0. Accounting rests on the cached next bit's being free,
which is why the two are proved together, and on a lemma that a scan for the lowest free bit
finds one if there is any.

`RouteTables_proofs`, for every number of mask bits, connections and addresses and every
range of costs: `TablesStayExact`, the property `TablesExact` of run `tables`. The list of
routers stays sorted although a node moves only when it is out of order with a neighbour,
references count mappings, and a fresh cache is usable. Usable, at least one of the nearest
is in the cache, is not inductive: the cost of a router may change without its moving in the
list, and then no cache is invalidated. `RTInv` says instead that a fresh cache holds the
*first* router of the list that has the address, which only a move can change; that this one
is among the nearest follows from the order of the list. The lemmas on removal from a list
and insertion into it are used by all handlers.

`InLink_proofs`, for every capacity and every number of messages and of comings and goings
of destinations: `CreditIsKept`, the property `CreditKept` of run `services`. `ILInv` follows
a sender's credit through the places where it can be: pending in the core, in the work list,
in the frames to the sender (`FramesOrdered`, their limits grow), with the sender, as a
message or an answer to a drain on its way back, or held by an unsettled delivery. `NotLost`
says it is in one of them, and `NotPending`, `FlowsFollowed` and `AnswersFollowed` say what
still has to follow when the core takes the link to be draining or not.

`OutLink_proofs`, for every number of deliveries, presettled or streaming in any mix, every
capacity and every way in which the link ends: `WorkStaysExact`, the property `OutLinkSound`
of run `services`. The core appends deliveries, drains and detaches to the work of a link and
drops presettled deliveries, while the I/O thread takes an item off the list, sends without
the lock, and puts the item back when credit runs out. The property counts the deliveries
of an item and compares a drain with the deliveries still undelivered; neither is inductive.
`OLInv` adds where an item is (`Items`: in the list once, or with the I/O thread), that every
undelivered delivery has an item (`Linked`), where the I/O thread is in its work (`Working`:
credit taken and deliveries completed stay within what the item stands for), and the order
that makes the rest hold (`Ordered`): an item ahead of another has the older deliveries, and a
drain is behind the deliveries forwarded before it and ahead of the younger ones. Putting an
item back keeps this order only because it goes to the *head* of the list. From it follows that
the head of the undelivered list belongs to the item at work, which is what the I/O thread
relies on when it takes the lock again after a send. `WorkList_proofs` has what each change of
the list, of the items and of the deliveries' references does to the three predicates, as
facts about functions and sequences; `OutLink_proofs` lifts them to the changes of a link and
has one lemma per action.

`Policy_proofs`, for every set of connections and of rulesets: `CountsStayExact`, the property
`PolicyCounts` of run `management`. Opening a connection asks Python twice, and rulesets are
created, replaced and deleted between the questions; the connection may end at any time. What
is counted for a vhost, a user and a host is nevertheless what was admitted and is not gone,
each connection once, and `disconnect` finds what it asserts. `PoInv` adds that the connections
noted are those with a group that are not gone, that the places where a connection can be
determine whether it is counted (`Place`), that a vhost with rules has statistics, and that no
name is both a vhost and an alias (`NamesOK`). The aliases that `policy_delete` leaves behind do
not disturb this: they only make `create_ruleset` refuse more. The lemmas say what lists of
connections, the statistics of one vhost and the tables of names become; there is one for each
action. The assumption on the configurations is that there are no connectors with settings of
their own (see Observations).

`MobileSync_proofs`, for every set of addresses and every configuration (restarts, expiry,
loss, duplication and reordering): `TypeCorrect`, `References` (`TrackedWhileListed`),
`AbsoluteAgrees` (`AbsoluteIsPublished`) and `NoMixture` (`MapMatchesSequence`): the
addresses the receiver maps to the advertiser are those announced under the number it holds.
That is not inductive. `IInv` adds that what peers know and the two pending lists make
up the addresses with consumers; that every update in the network is the difference of
two consecutive lists of the present instance's history, or one of the lists; and that no
instance is heard of before it starts. There is one lemma per action, and a step for each
conjunct the action can disturb. A restart ends the connections of the advertiser, and with
them the messages under way; this assumption is part of the model.

Only model-checked: everything else. Liveness and ENABLED are out of the prover's
reach, and so is induction over data, which the codec, the iterators, the pattern trees and
the sections would need; several of these modules use RECURSIVE operators and hold no
theorems. That `PathTree` implements `ShortestPathTree` is checked by TLC for the same
reason: the loop's relaxation folds over a sequence.

## Findings

Each is a run that ends in a counterexample; `PROJECT.json` quotes the lines.

1. `tracker_next_hops`: `set_next_hop` compares router ids and does not tell the core when
   the next hop's node was deleted and created again; the core keeps a pointer to the freed
   node.
2. `stream_stuck`: a settled message from an anonymous link that could not be forwarded
   anywhere and has been stopped by Q2 is never read to its end.
3. `connector_restart`: `qd_connection_manager_start` connects a connector whose failed
   connection has not been freed.
4. `limits_swapped`: `update_ruleset` passes the limits per user and per host in the wrong
   order.

## Observations

Met while modelling. The first group is in the passing runs: the property named excepts exactly
the case, and TLC finds a counterexample when the exception is taken out.

- `LinksAsConfigured`: a pattern that ends in `${user}`, asked about an address that is the
  user's name and no more, is decided by the character *before* the address in memory
  (`policy.c:1007`; the comment at `policy.c:1003` takes the case to be unreachable, which it is
  not for a pattern such as `#/${user}`). An empty rule reads the character before its own text
  (`policy.c:872`), with the same result either way. The model lets both be any.
- `SectionsSound`: the range of buffers that a release of stream data gives back is read before
  the lock is taken (`message.c:2640`). If readers that share buffers release out of order, which
  `message.h:361` allows, another may free the buffer at which the range was to end, and the walk
  goes on into buffers still in use. `SectionsSound` holds as long as each reader releases in
  order. Nothing in the repository but the tests releases stream data yet.
- `ContainerSound`: a link that the peer detaches without closing, and whose session ends later,
  is uncounted twice (`container.c:685`, `container.c:609`; lines 613 and 616 assert that the
  counts are not negative). Its Proton link stays until the session is freed (`container.c:716`),
  and the sweep over a session's links writes to the link it has just freed (`container.c:628`).
- `EdgeRoutesSound`: when the creation of a link route proxy fails while it is being cancelled
  the proxy is created again (`link_route_proxy.c:246`); a link route that comes back and goes
  while its older proxy is being deleted finds the older one (`link_route_proxy.c:357`); a creation
  that timed out is repeated though the interior router may have made the proxy. Each
  leaves a proxy that nobody asked for. A proxy that the interior router's policy denied is not
  asked for again, on a later connection either (`link_route_proxy.c:213`). The proxy to
  delete is found by the address less two characters, and may be another link route's
  (`link_route_proxy.c:353`).
- `ConnectorCorrect`: a transport error after a connector's deletion writes FAILED over DELETED
  (`server.c:1078`); the connection's end then schedules the timer, which the deletion has set to
  null (`server.c:934`, `connection_manager.c:1090`).
- `RelayCorrect`: a client of a relayed authentication is never answered when a state change
  falls between the other thread's read and reset in `remote_sasl_prepare`
  (`remote_sasl.c:349`, `remote_sasl.c:371`), or when the service accepts the client and leaves
  before its open frame, for the exchange is `complete` then (`remote_sasl.c:413`).
- `CreditKept`: with a capacity of three or more, an answer to an earlier drain that crosses a
  later drain may leave a sender without credit although its address has a destination again:
  the credit stays pending until the address next goes from no destination to one
  (`transfer.c:418`, `transfer.c:480`). Links that the core takes to be draining are excepted.

These TLC confirmed on instances that are not kept as runs; the passing runs leave the
situations out, as the next section says.

- A connection made by a connector with `policyVhost` is uncounted when it ends without
  having been counted (`policy.c:1355`; `policy.c:291` asserts a positive count).
- `READ` of a link is accepted by the core's agent and never answered (`agent.c:421`).
- An auto link's retry timer survives the closing of its connection (`route_control.h:72`
  says that it needs to be cancelled).
- SECOND_ATTACH work in a connection's list may name a link the core has freed
  (`connections.c:1133`).
- The sweep that ends an absolute update takes the next address before removing the current
  one, whose removal may also remove that next one, its fallback (`mobile.c:679`).
- A lookup that ends between the peer's detach and the freeing of the link leaves an address
  that nobody uses (`address_lookup_client.c:452`).
- An outgoing proxy link that was not bound when the edge connection went is not made again:
  the address keeps its pointer (`addr_proxy.c:237`).
- `qd_iterator_reset_view` to the view with space keeps the cursor of an earlier reading
  (`iterator.c:580`); present callers reset first.
- `qd_buffer_field_equal` is described as exact and compares a prefix
  (`buffer_field_api.h:221`), so that `qd_parse_value_by_key` may find a longer key
  (`parse.c:709`).
- When stream data is not complete yet, the buffers already passed are not freed with the
  stream data before (`qd_message_next_stream_data`).
- A report of a state that is not final, followed by the final one, may settle the sender
  with the old state (`connections.c:405`); a settlement is ignored while the message is
  incomplete (`router_node.c:921`); when the last multicast receiver settles without an
  outcome those of the others are not copied (`delivery.c:981`).
- A message refused while Q2 holds it is not read further (`router_node.c:729`); a message
  found too large while it is being forwarded wakes no receiver (`message.c:1429`); small
  frames exceed Q2 (`message.c:1630`).
- A drain's answer sets the pending credit to the capacity although deliveries of the link are
  still unsettled, and a sender exceeds its capacity (`transfer.c:482`; `qdrouter.json:1499` says
  that link flow control prevents it).
- A restart that Python sees late may leave the receiver without a request until the number
  moves again (`node.py:250`); with exchanges an address may be listed as deleted without a
  reference (`exchange_bindings.c:936`).

These were read in the code and not checked:

- A router's detach of a link whose first delivery waits for credit waits with it
  (`connections.c:2165`); the two sides of a relayed authentication check that the other is there
  before they wake it, not while (`remote_sasl.c:258`); a tracking message under way when an edge
  router re-creates its link is applied to the new one (`edge_addr_tracking.c:182`); two phases of a configured address
  with fallback share the fallback that `router_core.c:819` asserts they do not.
- Deleting a vhost leaves its aliases and statistics (`policy_local.py`, `policy_delete`), and
  a receiver denied for its waypoint capability is counted as a sender (`policy.c:1222`).

## Situations left out

The bounds above are sizes; these are situations the passing runs do not enter, because the code
is then as the observations say, or because the model does not have them.

- `MeshForwarding`: the choice among receivers is nondeterministic (round robin and outstanding
  counts are not kept). `PathEngine`: no link states made up for routers only heard of.
- `Delivery`: no states that are not final; in the liveness run nothing streams; multicast
  receivers settle with an outcome where outcomes are compared; no link routes.
- `OutLink`: consumers do not revoke credit. `InLink`: no fallback, edge or routed links.
- `MessageStream`: a message's header fits one buffer except in one configuration; refused and
  oversize messages are short.
- `MobileSync`: no exchanges, treatment hints or protocol versions; convergence without restarts
  and without messages that stay.
- `RouteControl`: an auto link is deleted only
  when no other link refers to it. `Exchange`: no next hop is itself an exchange.
- `Policy`: host names without wildcards. `LinkPolicy`: names without empty tokens, no pattern
  "*" alone. `ContainerEvents`: no attaches pipelined before the answer to a denied session, no
  links of the router on connections with a policy.
- `Addresses`: no waypoints on addresses with fallbacks; absolute updates not together with
  fallbacks; unused addresses are looked for where lookups are synchronous.
- `EdgeAddresses`: the edge connection is lost only when nothing is under way and the outgoing
  links are bound; no fallback consumers on the edge; the interior does not detach proxy links.
  `EdgeRoutes`: a new connection only after the interior is done with the old.
- `Heartbeat`: clocks at most two seconds apart, messages at most two seconds old.
- `AllocPool`: chunks are always available. `AddressIterator`: no "::" in texts, annotations made
  before reading. `Codec`: data well formed or truncated; an accessor's error is not kept on
  the field for the next accessor (`parse.c:347`), numbers in texts are decimal (`parse.c:522`).
  `Annotations`: the user's own come before the routers'. `MessageSections`: a footer is located only right after the first body
  section; stream data has short descriptors; no section is asked for once its place was freed.

## Not modelled

Configuration at start-up (`router_config.c`, `dispatch.c`, `config.py`), the Python
management agent with its schema and entity cache, TLS and SASL set-up, listeners and
the libwebsockets thread, the conversion of values between C and Python, the scrubber
of streaming links and the counter of stuck deliveries, logging and formatting, and the
tools. `PROJECT.json` gives the reason for each. Of the modelled parts, attribute
parsing, column formatting, statistics and log messages are left out everywhere.
