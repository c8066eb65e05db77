----------------------------- MODULE MCServices -----------------------------
(***************************************************************************)
(* Parts of the router that must go on whatever their threads do first:    *)
(* links, the streaming of a message between them, timers, connectors,     *)
(* heartbeats of edge routers and the exchange with an authentication      *)
(* service.  A behaviour exercises one of them and leaves the others in an *)
(* initial state.                                                          *)
(***************************************************************************)
EXTENDS OutLink, InLink, MessageStream, Timer, Connectors, Heartbeat, RemoteSasl

VARIABLE part   \* what is at work

\* Whole messages for a consumer that gives credit and nothing else.
Plain == [n |-> 2, presettled |-> {}, streaming |-> {}, capacity |-> 0, credit |-> 2,
          drains |-> 0, q3 |-> FALSE, detach |-> {}]

OutConfigs ==
  {[Plain EXCEPT !.n = 3, !.presettled = {1, 2, 3}, !.capacity = 1],   \* drops
   [Plain EXCEPT !.n = 1, !.credit = 1, !.drains = 2],
   [Plain EXCEPT !.credit = 1, !.streaming = {1}, !.q3 = TRUE],
   [Plain EXCEPT !.n = 1, !.credit = 1, !.drains = 1, !.detach = {"consumer", "lost"}],
   [Plain EXCEPT !.credit = 1, !.detach = {"lost"}],
   [Plain EXCEPT !.n = 1, !.credit = 1, !.streaming = {1}, !.detach = {"router"}]}

\* A link of capacity 1, 2 or 3 whose address loses and regains its paths.
Paths(c, p, l, r, m) ==
  [capacity |-> c, presettled |-> p, local |-> l, remote |-> r, messages |-> m]

InConfigs == {Paths(1, p, 2, 2, 3) : p \in BOOLEAN}
             \cup {Paths(2, FALSE, 2, 1, 3), Paths(3, FALSE, 2, 1, 2)}

\* A link at rest has no fair step to take.
LinksInit ==
    /\ OLInit /\ ILInit
    /\ part # "out" => olcf = [Plain EXCEPT !.n = 1, !.credit = 1, !.drains = 2]
    /\ part # "in" => ilcf = Paths(1, FALSE, 2, 2, 3)

LinksNext ==
    \/ part = "out" /\ OLNext /\ UNCHANGED ilvars
    \/ part = "in" /\ ILNext /\ UNCHANGED olvars

\* A message of five buffers to one receiver, one buffer more than Q2 lets wait.
Long == [units |-> 5, header |-> 1, cap |-> 1, out |-> {1}, subscriber |-> FALSE,
         anonymous |-> FALSE, presettled |-> FALSE, streaming |-> FALSE, reject |-> FALSE,
         max |-> 0, abort |-> FALSE, detach |-> FALSE, lost |-> {}, fails |-> {}, q3 |-> FALSE]

\* Messages with Q2 between two and three buffers: long ones that Q2 stops, and short ones to
\* which the rest happens.
StreamConfigs ==
  {[Long EXCEPT !.units = 4, !.out = {1, 2}, !.lost = {1}],
   [Long EXCEPT !.units = 3, !.cap = 2, !.out = {1, 2}, !.streaming = TRUE],
   [Long EXCEPT !.units = 3, !.streaming = TRUE, !.abort = TRUE, !.lost = {1}],
   [Long EXCEPT !.units = 4, !.detach = TRUE, !.q3 = TRUE],
   [Long EXCEPT !.units = 3, !.out = {1, 2}, !.fails = {1}],
   [Long EXCEPT !.out = {}],
   [Long EXCEPT !.out = {}, !.presettled = TRUE],
   [Long EXCEPT !.out = {}, !.subscriber = TRUE],
   [Long EXCEPT !.units = 2, !.reject = TRUE],
   [Long EXCEPT !.units = 3, !.max = 2],
   [Long EXCEPT !.units = 2, !.header = 3]}

\* Messages nobody receives, settled and from an anonymous link.
NowhereConfigs == {[Long EXCEPT !.out = {}, !.presettled = TRUE, !.anonymous = TRUE]}

\* Lists of hosts that a peer may send; the connector's own host may be among them.
Lists == {<<>>, <<"b">>, <<"b", "c">>, <<Original, "c">>}

\* Connections fail and management deletes the connector.
ConnectorConfigs == {[announced |-> Lists, errors |-> TRUE, deletes |-> TRUE, restarts |-> FALSE]}

\* Another connector is created while this one's connection fails.
RestartConfigs == {[announced |-> {}, errors |-> TRUE, deletes |-> FALSE, restarts |-> TRUE]}

Delays == {{1, 2}, {0, 1}}

\* An edge router that loses its connection, or that hangs.
Beats == [delay |-> 2, drift |-> 2, conns |-> 2, hangs |-> FALSE, drops |-> TRUE, drain |-> FALSE]
BeatConfigs == {Beats, [Beats EXCEPT !.conns = 1, !.hangs = TRUE, !.drops = FALSE, !.drain = TRUE]}

\* A client and a service that may leave or drop, with three grants.
Grant(addr, size, perms) == [addr |-> addr, size |-> size, perms |-> perms]
Grants == {<<>>,
           <<Grant("a", 1, <<"send", "recv">>), Grant("b", 2, <<"recv">>)>>,
           <<Grant("c", 3, <<"send">>), Grant("a", 1, <<"recv", "send">>), Grant("d", 2, <<"send">>)>>}
Relayed == [rounds |-> 2, grants |-> Grants, drops |-> TRUE, leaves |-> TRUE]
RelayConfigs == {Relayed}

ServicesInit ==
    /\ part \in {"stream", "timers", "connector", "beats", "relay", "out", "in"}
    /\ MSInit /\ TMInit /\ CTInit /\ HbInit /\ RsInit /\ LinksInit
    /\ part # "stream" => mscf = [Long EXCEPT !.out = {}]
    /\ part # "timers" => tmcf = {0, 1}
    /\ part # "connector" => ctcf = CHOOSE c \in CTConfigs : TRUE
    /\ part # "beats" => hbcfg = Beats
    /\ part # "relay" => rscfg = Relayed

ServicesNext ==
    /\ UNCHANGED part
    /\ \/ part = "stream" /\ MSNext /\ UNCHANGED <<tmvars, ctvars, hbvars, rsvars, olvars, ilvars>>
       \/ part = "timers" /\ TMNext /\ UNCHANGED <<msvars, ctvars, hbvars, rsvars, olvars, ilvars>>
       \/ part = "connector" /\ CTNext /\ UNCHANGED <<msvars, tmvars, hbvars, rsvars, olvars, ilvars>>
       \/ part = "beats" /\ HbNext /\ UNCHANGED <<msvars, tmvars, ctvars, rsvars, olvars, ilvars>>
       \/ part = "relay" /\ RsNext /\ UNCHANGED <<msvars, tmvars, ctvars, hbvars, olvars, ilvars>>
       \/ LinksNext /\ UNCHANGED <<msvars, tmvars, ctvars, hbvars, rsvars>>

\* MSFairness, OLFairness, TMFairness, CTFairness, HbFair and RsFair for the part at work.
ServicesFairness ==
    /\ WF_msvars(part = "stream" /\ rx.arrived > 0 /\ Frame)
    /\ WF_msvars(part = "stream" /\ RxStep)
    /\ WF_msvars(part = "stream" /\ MSCore)
    /\ \A o \in 1..2 : /\ WF_msvars(part = "stream" /\ o \in Outs /\ SendStep(o))
                       /\ WF_msvars(part = "stream" /\ o \in Outs /\ Drained(o))
    /\ WF_olvars(part = "out" /\ CoreStep)
    /\ WF_olvars(part = "out" /\ IOStep)
    /\ WF_olvars(part = "out" /\ Process /\ ol.activate)
    /\ WF_olvars(part = "out" /\ Written)
    /\ WF_tmvars(part = "timers" /\ Tick /\ UNCHANGED tmcf)
    /\ WF_tmvars(part = "timers" /\ VisitStep /\ UNCHANGED tmcf)
    /\ WF_ctvars(part = "connector" /\ TimerThread)
    /\ WF_ctvars(part = "connector" /\ Attempt)
    /\ WF_ctvars(part = "connector" /\ ConnectionEnds)
    /\ WF_ctvars(part = "connector" /\ DeleteGoesOn)
    /\ WF_ctvars(part = "connector" /\ qd_connection_manager_start)
    /\ WF_hbvars(part = "beats" /\ ServerTick)
    /\ WF_hbvars(part = "beats" /\ HbArrives)
    /\ WF_hbvars(part = "beats" /\ hb.closing /\ HbLinkLost)
    /\ WF_hbvars(part = "beats" /\ HbClosed)
    /\ SF_rsvars(part = "relay" /\ RelayStep)
    /\ WF_rsvars(part = "relay" /\ ResetUpstream)
    /\ WF_rsvars(part = "relay" /\ ResetDownstream)

ServicesSpec ==
    /\ ServicesInit
    /\ [][ServicesNext]_<<part, msvars, tmvars, ctvars, hbvars, rsvars, olvars, ilvars>>
    /\ ServicesFairness
=============================================================================
