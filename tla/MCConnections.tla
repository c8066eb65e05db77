--------------------------- MODULE MCConnections ---------------------------
(***************************************************************************)
(* What connections bring: the objects of sessions and links, the core's   *)
(* addresses, the addresses and link routes of edge routers, and the       *)
(* neighbours of this router with their mask bits and next hops.  A        *)
(* behaviour exercises one of them and leaves the others in an initial     *)
(* state.                                                                  *)
(***************************************************************************)
EXTENDS ContainerEvents, Addresses, EdgeAddresses, EdgeRoutes, NodeTracker

VARIABLE part   \* what is at work

\* One connection: links that policy denies, a session that it denies, a core that closes or kills,
\* links of the router, deliveries, a connection that is not admitted.
PeerLink(s, dir) == [sess |-> s, dir |-> dir, by |-> "peer"]
OnePeer == [sess |-> [s1 |-> "peer"], links |-> [a |-> PeerLink("s1", "in")], policy |-> FALSE,
            denied |-> {}, admitted |-> TRUE, detaches |-> {}, calls |-> 0, sends |-> 0,
            frames |-> 2, kills |-> FALSE, plain |-> {"a", "r"}]
BothWays == [a |-> PeerLink("s1", "in"), b |-> PeerLink("s1", "out")]
EventsAtRest == [OnePeer EXCEPT !.admitted = FALSE]
EventConfigs ==
  {[OnePeer EXCEPT !.policy = TRUE, !.detaches = {"a"}, !.links = BothWays, !.frames = 1,
                   !.plain = {}],
   [OnePeer EXCEPT !.policy = TRUE, !.denied = {"b", "s2"}, !.links = BothWays,
                   !.sess = [s1 |-> "peer", s2 |-> "peer"]],
   [OnePeer EXCEPT !.kills = TRUE, !.calls = 1, !.detaches = {"a"}],
   [OnePeer EXCEPT !.kills = TRUE, !.detaches = {"r"}, !.frames = 3, !.sess = [rs |-> "router"],
                   !.links = [r |-> [sess |-> "rs", dir |-> "out", by |-> "router"]]],
   [OnePeer EXCEPT !.sends = 1, !.links = [a |-> PeerLink("s1", "out")]],
   EventsAtRest}

\* Up to five links of every kind, addresses configured while they are there, updates from another
\* router, a fallback, a waypoint's phases, lookups that answer later.
ToAddr(dir, kind, addr) ==
  [dir |-> dir, kind |-> kind, addr |-> addr, waypoint |-> 0, fallback |-> FALSE,
   edge |-> FALSE, survives |-> FALSE, no_route |-> FALSE]
OfA(dir) == ToAddr(dir, "plain", "a")
Request(name, fields, pattern, waypoint, phases, treatment, fallback) ==
  AddressRequest(name, fields, pattern, waypoint, phases[1], phases[2], phases[3], treatment, fallback)
Unset == <<-1, -1, -1>>
WithFallback ==
  [links |-> <<OfA("in"), OfA("out"), [OfA("out") EXCEPT !.fallback = TRUE]>>,
   requests |-> {Request("c1", {"prefix"}, <<"/", "a">>, FALSE, Unset, "balanced", TRUE)},
   creates |-> 2, routers |-> {"r"}, remote |-> {<<"a", "0">>, <<"a", "F">>}, absolute |-> {FALSE},
   maus |-> 2, lr |-> [in |-> {}, out |-> {}], fwd |-> {}, dflt |-> "balanced", ends |-> {},
   async |-> FALSE]
WithWaypoint ==
  [WithFallback EXCEPT
     !.links = <<[OfA("in") EXCEPT !.waypoint = 1], OfA("in"), [OfA("out") EXCEPT !.no_route = TRUE]>>,
     !.requests = {Request("c1", {"pattern"}, <<"a", "/">>, TRUE, Unset, "closest", FALSE),
                   Request("c1", {"pattern"}, <<"a">>, TRUE, <<1, -1, -1>>, "closest", FALSE),
                   Request("c2", {"prefix", "pattern"}, <<"a">>, FALSE, Unset, "closest", FALSE),
                   Request("c2", {"prefix"}, <<"/">>, FALSE, Unset, "closest", FALSE),
                   Request("c2", {"prefix"}, <<"a">>, FALSE, <<0, 1, 3>>, "closest", FALSE),
                   Request("c3", {"prefix"}, <<"a">>, FALSE, <<0, 10, -1>>, "closest", FALSE),
                   Request("c3", {"prefix"}, <<"a">>, TRUE, Unset, "closest", TRUE)},
     !.remote = {<<"a", "0">>, <<"a", "1">>}, !.maus = 1, !.absolute = {TRUE, FALSE}]
OtherKinds ==
  [WithFallback EXCEPT
     !.requests = {Request("c1", {"pattern"}, <<"b">>, FALSE, Unset, "unavailable", FALSE)},
     !.creates = 1, !.routers = {}, !.lr = [in |-> {"q"}, out |-> {"q"}], !.fwd = {"q"}, !.ends = {"$m"}]
AddressesAtRest == [WithFallback EXCEPT !.async = TRUE, !.routers = {}]
AddressConfigs ==
  {WithFallback, WithWaypoint, AddressesAtRest,
   [OtherKinds EXCEPT !.links =
      <<ToAddr("in", "dnp", "q"), ToAddr("out", "dynamic", "-"), ToAddr("in", "plain", "q"),
        [ToAddr("out", "plain", "q") EXCEPT !.survives = TRUE], ToAddr("out", "router", "r")>>],
   [OtherKinds EXCEPT !.links =
      <<ToAddr("in", "router", "r"), ToAddr("in", "coordinator", "$c"), ToAddr("in", "plain", "$m"),
        ToAddr("out", "anonymous", "-"), ToAddr("in", "plain", "b")>>]}

\* Two edge routers with a client each; one that loses its connection; one with an address that has
\* a second phase; one with a fallback.
TwoEdges == [edges |-> {"e1", "e2"}, addrs |-> {"a0"}, in |-> 0, out |-> 0, clients |-> 1, moves |-> 3,
             conns |-> 1, loss |-> "none", uses |-> {<<"a0", "c">>, <<"a0", "p">>}]
OneEdge == [TwoEdges EXCEPT !.edges = {"e1"}]
EdgeConfigs ==
  {TwoEdges, [OneEdge EXCEPT !.conns = 2, !.loss = "bound"],
   [OneEdge EXCEPT !.addrs = {"a0", "a1"}, !.out = 1,
                   !.uses = {"a0", "a1"} \X {"c", "p"}],
   [OneEdge EXCEPT !.addrs = {"a0", "f"}, !.clients = 2]}

\* Link routes that come and go, and come back, on an edge router while its requests are under
\* way, refused, lost or late; two whose addresses collide.
EdgeRoute(chars, prefix) == [chars |-> chars, prefix |-> prefix]
Box == EdgeRoute(<<"b", "o", "x">>, TRUE)
OneRoute == [routes |-> {Box}, moves |-> 3, conns |-> 2, window |-> 2, errors |-> 1]
EdgeRouteConfigs ==
  {OneRoute, [OneRoute EXCEPT !.conns = 1, !.errors = 2],
   [OneRoute EXCEPT !.routes = {Box, EdgeRoute(<<"p", "*">>, FALSE)}, !.conns = 1],
   [OneRoute EXCEPT !.routes = {Box, EdgeRoute(<<"b", "a", "t">>, TRUE)}, !.moves = 2]}

\* One connection, to the first of two routers, which name the second and this one.
Paths == [routers |-> {2, 3}, bits |-> {1, 2}, conns |-> {1}, far |-> {2},
          named |-> {1, 3}, insts |-> {1}, keep |-> 0, lag |-> 0, work |-> 1]

\* The connection may come back as one to another router.
Reassigned == [Paths EXCEPT !.far = {2, 3}, !.named = {3}]

\* Two connections to one router, and a core that lags.
TwoLinks == [routers |-> {2}, bits |-> {1}, conns |-> {1, 2}, far |-> {2},
             named |-> {1}, insts |-> {1}, keep |-> 0, lag |-> 1, work |-> 2]

\* The router restarts.
Rebooted == [TwoLinks EXCEPT !.conns = {1}, !.keep = 1, !.insts = {1, 2}]

\* There are more routers than mask bits.
FullMask == [Paths EXCEPT !.bits = {1}, !.far = {2, 3}, !.keep = 1]

TrackerConfigs == {Paths, Reassigned, TwoLinks, Rebooted, FullMask}

\* A router that is deleted may return, with another mask bit.
Returning == {[Paths EXCEPT !.keep = 2, !.named = {2, 3}]}

\* The parts that are not at work rest in one of their initial states.
ConnectionsInit ==
  /\ part \in {"events", "addresses", "edges", "routes", "tracker"}
  /\ cecfg \in IF part = "events" THEN CeConfigs ELSE {EventsAtRest}
  /\ adcfg \in IF part = "addresses" THEN AdConfigs ELSE {AddressesAtRest}
  /\ eacfg \in IF part = "edges" THEN EaConfigs ELSE {TwoEdges}
  /\ ercfg \in IF part = "routes" THEN ErConfigs ELSE {OneRoute}
  /\ TInit /\ (part # "tracker" => t.cf = Rebooted)
  /\ CeInit /\ AdInit /\ EaInit /\ ErInit

ConnectionsNext ==
  /\ UNCHANGED part
  /\ \/ part = "events" /\ CeNext /\ UNCHANGED <<advars, eavars, ervars, vars>>
     \/ part = "addresses" /\ AdNext /\ UNCHANGED <<cevars, eavars, ervars, vars>>
     \/ part = "edges" /\ EaNext /\ UNCHANGED <<cevars, advars, ervars, vars>>
     \/ part = "routes" /\ ErNext /\ UNCHANGED <<cevars, advars, eavars, vars>>
     \/ part = "tracker" /\ TNext /\ UNCHANGED <<cevars, advars, eavars, ervars>>

ConnectionsSpec ==
  ConnectionsInit /\ [][ConnectionsNext]_<<part, cevars, advars, eavars, ervars, vars>>
=============================================================================
