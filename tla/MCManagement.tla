---------------------------- MODULE MCManagement ----------------------------
(***************************************************************************)
(* What is asked of the router and must be answered while connections come *)
(* and go: link routes and auto links, the tables that management clients  *)
(* query and change, the policy that admits connections, and an edge       *)
(* router's lookups of addresses.  A behaviour exercises one of them and   *)
(* leaves the others in an initial state.                                  *)
(***************************************************************************)
EXTENDS RouteControl, Agent, Policy, AddressLookup

VARIABLE part   \* what is at work

\* Link routes on two connections, by name of the container, by label and on a connection itself;
\* an auto link whose peer refuses or whose connection is lost.
RouteConfigs ==
  {[conns |-> {1, 2}, routes |-> 2, connroutes |-> 1, autos |-> 0, links |-> 0,
    keys |-> {"none", "Lx", "Ck"}, refusals |-> FALSE],
   [conns |-> {1}, routes |-> 0, connroutes |-> 0, autos |-> 1, links |-> 2,
    keys |-> {"Ck"}, refusals |-> TRUE],
   [conns |-> {1, 2}, routes |-> 0, connroutes |-> 0, autos |-> 1, links |-> 1,
    keys |-> {"Ck"}, refusals |-> FALSE]}

\* The second connection has no label; both have a container of the same name.
Labels == <<"Lx", NoKey>>
Containers == <<"Ck", "Ck">>

Query(type, count, offset) ==
    [op |-> "QUERY", type |-> type, count |-> count, offset |-> offset, row |-> NoRow, conn |-> NoRow,
     by |-> "nothing", good |-> TRUE]
Op(op, type, row) == [Query(type, 0, 0) EXCEPT !.op = op, !.row = row, !.conn = 1, !.by = "identity"]

\* Two requests at a time, on tables of up to three rows; then one for each other table.
AgentConfigs ==
  {[reqs |-> <<Query("config.address", -1, 0), Op("DELETE", "config.address", 1)>>,
    rows |-> <<1, 2, 3>>, routers |-> {}],
   [reqs |-> <<Query("address", -1, 0), Query("address", 1, 1)>>, rows |-> <<1, 2>>, routers |-> {}],
   [reqs |-> <<Query("config.linkRoute", 2, 0), Op("CREATE", "config.linkRoute", 9)>>,
    rows |-> <<1, 2>>, routers |-> {}],
   [reqs |-> <<Query("router", -1, 0), Query("console", -1, 0)>>, rows |-> <<>>, routers |-> {}],
   [reqs |-> <<Op("READ", "connection", 2), Op("UPDATE", "connection", 2)>>,
    rows |-> <<1, 2>>, routers |-> {}],
   [reqs |-> <<Op("DELETE", "connection", 2), Op("UPDATE", "connection", 2)>>,
    rows |-> <<1, 2>>, routers |-> {2}]}
  \cup
  {[reqs |-> <<Query(type, -1, 0)>>, rows |-> <<1, 2>>, routers |-> {}] :
      type \in {"link", "connection", "config.autoLink", "conn.linkRoute"}}

Group(users, from, peruser) ==
    [users |-> users, from |-> from, peruser |-> peruser, perhost |-> Unlimited]
Rules(name, max, peruser, perhost, aliases, groups) ==
  [name |-> name, max |-> max, peruser |-> peruser, perhost |-> perhost,
   unknown |-> "$default" \in DOMAIN groups, aliases |-> aliases, groups |-> groups]
Out(vhost) == [dir |-> "out", user |-> "", host |-> "", vhost |-> vhost]
In(user, host, vhost) == [dir |-> "in", user |-> user, host |-> host, vhost |-> vhost]
Staff == [staff |-> Group({"ann"}, {"*"}, Unlimited)]
Two == [x \in {"staff", "$default"} |->
          IF x = "staff" THEN Group({"ann", "bob"}, {"h"}, 1) ELSE Group({}, {"*"}, Unlimited)]

\* Three connections to two vhosts that share an alias, whose rules are replaced or deleted.
PolicyConfigs ==
  {[conns |-> <<In("ann", "h", "v"), In("ann", "k", "a"), In("cat", "h", "w")>>,
    rules |-> <<Rules("v", 2, 2, 1, <<"a">>, Two), Rules("w", 1, 1, 1, <<"a">>, Staff),
                Rules("v", 1, 1, 2, <<>>, Staff)>>,
    max |-> 2, default |-> "w", patterns |-> p, updates |-> TRUE, deletes |-> FALSE] : p \in BOOLEAN}
  \cup
  {[conns |-> <<In("ann", "h", "v"), In("ann", "h", "a"), In("ann", "k", "w"), Out("v")>>,
    rules |-> <<Rules("v", 2, 1, 2, <<"a">>, Staff), Rules("w", 2, 2, 1, <<>>, Two)>>,
    max |-> 3, default |-> "", patterns |-> FALSE, updates |-> FALSE, deletes |-> TRUE]}

\* A vhost's rules are written again while a user is connected.
UpdateConfigs ==
  {[conns |-> <<In("ann", "h", "v"), In("ann", "k", "v")>>,
    rules |-> <<Rules("v", 2, 1, 2, <<>>, Staff)>>,
    max |-> 2, default |-> "", patterns |-> FALSE, updates |-> TRUE, deletes |-> FALSE]}

\* Two attaches that wait for a lookup over one connection or two, with credit for one, and the test
\* client's messages.
Lookup(found, local) ==
  [ack |-> FALSE, reply |-> TRUE, timer |-> TRUE, found |-> found, local |-> local, valid |-> TRUE]
Test(ack, reply, timer, valid) ==
  [ack |-> ack, reply |-> reply, timer |-> timer, found |-> "none", local |-> FALSE, valid |-> valid]
TwoLookups ==
  [user |-> "lookup", reqs |-> <<Lookup("dests", FALSE), Lookup("none", FALSE)>>,
   conns |-> {"e1", "e2"}, edges |-> 2, window |-> 1, detaches |-> 1, drains |-> 0, early |-> FALSE]
LookupConfigs ==
  {[TwoLookups EXCEPT !.reqs = <<Lookup("dests", FALSE)>>],
   [TwoLookups EXCEPT !.conns = {"e1"}, !.edges = 1],
   [TwoLookups EXCEPT !.reqs = <<Lookup("route", FALSE), Lookup("none", TRUE)>>, !.edges = 1],
   [TwoLookups EXCEPT !.user = "test", !.conns = {"e1"}, !.edges = 1, !.drains = 1, !.early = TRUE,
      !.reqs = <<Test(TRUE, TRUE, TRUE, TRUE), Test(TRUE, FALSE, TRUE, FALSE),
                 Test(FALSE, FALSE, FALSE, TRUE)>>]}

ManagementInit ==
    /\ part \in {"routes", "agent", "policy", "lookup"}
    /\ RcInit /\ AgInit /\ PoInit /\ AlInit
    /\ part # "routes" => rccf = CHOOSE c \in RcConfigs : TRUE
    /\ part # "agent" => agcf = CHOOSE c \in AgConfigs : TRUE
    /\ part # "policy" => pocf = CHOOSE c \in PoConfigs : TRUE
    /\ part # "lookup" => alcfg = [TwoLookups EXCEPT !.reqs = <<Lookup("dests", FALSE)>>]

ManagementNext ==
    /\ UNCHANGED part
    /\ \/ part = "routes" /\ RcNext /\ UNCHANGED <<agvars, povars, alvars>>
       \/ part = "agent" /\ AgNext /\ UNCHANGED <<rcvars, povars, alvars>>
       \/ part = "policy" /\ PoNext /\ UNCHANGED <<rcvars, agvars, alvars>>
       \/ part = "lookup" /\ AlNext /\ UNCHANGED <<rcvars, agvars, povars>>

\* RcFairness, AgFairness and AlFair, for the part at work.
ManagementFairness ==
    /\ WF_rcvars(part = "routes" /\ RcTick /\ UNCHANGED rccf)
    /\ WF_agvars(part = "agent" /\ AgCore)
    /\ WF_agvars(part = "agent" /\ AgTimers)
    /\ WF_alvars(part = "lookup" /\ ServerTakes)
    /\ WF_alvars(part = "lookup" /\ qdrc_endpoint_do_flow_CT(FALSE))
    /\ \A r \in 1..2 : WF_alvars(part = "lookup" /\ r \in AlReqs /\ _timer_expired(r))

ManagementSpec ==
    /\ ManagementInit
    /\ [][ManagementNext]_<<part, rcvars, agvars, povars, alvars>>
    /\ ManagementFairness
=============================================================================
